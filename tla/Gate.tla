-------------------------------- MODULE Gate --------------------------------
(***************************************************************************)
(* Admission of jobs and of exclusive maintenance to one Docker daemon:    *)
(* class Gate of scripts/ci_docker_gate.py, with the operator's            *)
(* reconciliation of scripts/ci_docker_reconcile.py.                       *)
(*                                                                         *)
(* The processes share a directory: maintenance.json, one jobs/<id>.json   *)
(* per job, and three kinds of flock: admission.lock, activity.lock        *)
(* (shared by jobs, exclusive for maintenance) and one lock per job record *)
(* ("registration"), held by the job while it is alive.  The kernel drops  *)
(* a dead process's locks; its records and its daemon work stay.           *)
(*                                                                         *)
(* The body of a lease (what the job or the cleanup does between admission *)
(* and release) is abstract here: StartWork, EndWork and Complete.  Its    *)
(* contract, that lease.complete() is called only when no daemon work of   *)
(* the lease is left, is the guard of Complete; modules JobLifecycle and   *)
(* MaintenanceRun show that the two callers keep it.                       *)
(*                                                                         *)
(* A process is named by the id of its record: the code draws a fresh      *)
(* uuid for each call, the model reuses an id once no trace of it is left. *)
(***************************************************************************)
EXTENDS FiniteSets

CONSTANTS
    Jobs,         \* ids of `ci-docker-maintenance job` processes
    Maints,       \* ids of maintenance processes
    Reconcilers,  \* operator processes running `reconcile`
    Observers,    \* processes running `status`
    None          \* no process, no record

ASSUME Roles ==
    /\ Jobs \cap Maints = {}
    /\ (Jobs \cup Maints) \cap (Reconcilers \cup Observers) = {}
    /\ Reconcilers \cap Observers = {}
    /\ None \notin Jobs \cup Maints \cup Reconcilers \cup Observers

Owners == Jobs \cup Maints
Procs == Owners \cup Reconcilers \cup Observers

VARIABLES
    maint,        \* maintenance.json: id of its owner (None: no file) and phase
    jobs,         \* jobs/<id>.json: phase, or "none" when there is no file
    admission,    \* holder of admission.lock
    exclusive,    \* holder of activity.lock in exclusive mode
    shared,       \* holders of activity.lock in shared mode
    registration, \* holder of the flock on the inode now named jobs/<id>.json
    pc,           \* what each process does next
    known,        \* lease.known
    target,       \* the record a reconciler was asked to clear
    busy          \* owners whose daemon work may still be running

vars == <<maint, jobs, admission, exclusive, shared, registration, pc, known,
          target, busy>>
locks == <<admission, exclusive, shared, registration>>
records == <<maint, jobs>>

NoRecord == [id |-> None, phase |-> "none"]
HasRecord(p) == IF p \in Jobs THEN jobs[p] # "none" ELSE maint.id = p

-----------------------------------------------------------------------------
(* Steps of every process *)

Goto(p, label) == pc' = [pc EXCEPT ![p] = label]

(* One successful round of _acquire("admission.lock", LOCK_EX). *)
TakeAdmission(p, from, to) ==
    /\ pc[p] = from
    /\ admission = None
    /\ admission' = p
    /\ Goto(p, to)
    /\ UNCHANGED <<exclusive, shared, registration, records, known, target, busy>>

(* _acquire raises only when the lock was contended at the deadline. *)
AdmissionTimeout(p, from, to) ==
    /\ pc[p] = from
    /\ admission # None
    /\ Goto(p, to)
    /\ UNCHANGED <<locks, records, known, target, busy>>

(* The process dies, or leaves by an exception where no handler does more   *)
(* than close descriptors: its records and daemon work stay.                *)
Crash(p) ==
    /\ pc[p] \notin {"idle", "ended"}
    /\ Goto(p, "ended")
    /\ admission' = IF admission = p THEN None ELSE admission
    /\ exclusive' = IF exclusive = p THEN None ELSE exclusive
    /\ shared' = shared \ {p}
    /\ registration' =
           [j \in Jobs |-> IF registration[j] = p THEN None ELSE registration[j]]
    /\ UNCHANGED <<records, known, target, busy>>

(* A later invocation. *)
Recycle(p) ==
    /\ pc[p] = "ended"
    /\ p \in Owners => ~HasRecord(p) /\ \A r \in Reconcilers : target[r] # p
    /\ Goto(p, "idle")
    /\ known' = [q \in Owners |-> IF q = p THEN FALSE ELSE known[q]]
    /\ target' = [r \in Reconcilers |-> IF r = p THEN None ELSE target[r]]
    /\ UNCHANGED <<locks, records, busy>>

Ask(p) ==
    /\ p \in Owners
    /\ pc[p] = "idle"
    /\ Goto(p, "asking")
    /\ UNCHANGED <<locks, records, known, target, busy>>

-----------------------------------------------------------------------------
(* Gate.job *)

(* Slip: only records marked uncertain count, not those of dead processes. *)
LooksUncertain(k) == jobs[k] = "uncertain"

(* _jobs() probes each record's lock; the caller treats an unlocked or      *)
(* uncertain record as work nobody has accounted for.                       *)
LooksUnresolved(k) ==
    jobs[k] # "none" /\ (jobs[k] = "uncertain" \/ registration[k] = None)

(* Slip: the scan forgets the maintenance record. *)
BlockedByJobs == \E k \in Jobs : LooksUnresolved(k)

Blocked == maint.id # None \/ \E k \in Jobs : LooksUnresolved(k)

JobEnter(j) == TakeAdmission(j, "asking", "scanning")
JobUnavailable(j) == AdmissionTimeout(j, "asking", "ended")

(* Slip: the shared lock is awaited after the admission block. *)
JobScanUnlocks(j) ==
    /\ pc[j] = "scanning"
    /\ ~Blocked
    /\ admission' = None
    /\ Goto(j, "sharing")
    /\ UNCHANGED <<exclusive, shared, registration, records, known, target, busy>>

JobScan(j) ==
    /\ pc[j] = "scanning"
    /\ ~Blocked
    /\ Goto(j, "sharing")
    /\ UNCHANGED <<locks, records, known, target, busy>>

LeaveBlocked(j, label) ==
    /\ pc[j] = "scanning"
    /\ Blocked
    /\ admission' = None
    /\ Goto(j, label)
    /\ UNCHANGED <<exclusive, shared, registration, records, known, target, busy>>

(* Slip: every retry starts with a new deadline. *)
JobAlwaysRetries(j) == LeaveBlocked(j, "asking")

JobRetry(j) == LeaveBlocked(j, "asking")
JobGivesUp(j) == LeaveBlocked(j, "ended")

(* Admission is still held while the shared lock is awaited. *)
JobShare(j) ==
    /\ pc[j] = "sharing"
    /\ exclusive = None
    /\ shared' = shared \cup {j}
    /\ Goto(j, "recording")
    /\ UNCHANGED <<admission, exclusive, registration, records, known, target, busy>>

JobShareTimeout(j) ==
    /\ pc[j] = "sharing"
    /\ exclusive # None
    /\ admission' = None
    /\ Goto(j, "ended")
    /\ UNCHANGED <<exclusive, shared, registration, records, known, target, busy>>

(* _write renames a new file into place: nobody holds a lock on it yet. *)
WriteJob(j, phase) ==
    /\ jobs' = [jobs EXCEPT ![j] = phase]
    /\ registration' = [registration EXCEPT ![j] = None]
    /\ UNCHANGED maint

JobRecord(j) ==
    /\ pc[j] = "recording"
    /\ WriteJob(j, "active")
    /\ Goto(j, "registering")
    /\ UNCHANGED <<admission, exclusive, shared, known, target, busy>>

JobRegister(j) ==
    /\ pc[j] = "registering"
    /\ registration[j] = None
    /\ registration' = [registration EXCEPT ![j] = j]
    /\ admission' = None
    /\ Goto(j, "working")
    /\ UNCHANGED <<exclusive, shared, records, known, target, busy>>

(* flock(registration, LOCK_EX | LOCK_NB) fails: the exception closes both  *)
(* descriptors and leaves the record that was just written.                 *)
JobRegisterBlocked(j) ==
    /\ pc[j] = "registering"
    /\ registration[j] # None
    /\ shared' = shared \ {j}
    /\ admission' = None
    /\ Goto(j, "ended")
    /\ UNCHANGED <<exclusive, registration, records, known, target, busy>>

-----------------------------------------------------------------------------
(* Gate.maintenance *)

MaintEnter(m) == TakeAdmission(m, "asking", "raising")
MaintUnavailable(m) == AdmissionTimeout(m, "asking", "ended")

(* Slip: another run's record is overwritten. *)
MaintRaiseOver(m) ==
    /\ pc[m] = "raising"
    /\ maint' = [id |-> m, phase |-> "waiting"]
    /\ admission' = None
    /\ Goto(m, "draining")
    /\ UNCHANGED <<exclusive, shared, registration, jobs, known, target, busy>>

(* Write the waiting record that stops new jobs. *)
MaintRaise(m) ==
    /\ pc[m] = "raising"
    /\ maint.id = None
    /\ maint' = [id |-> m, phase |-> "waiting"]
    /\ admission' = None
    /\ Goto(m, "draining")
    /\ UNCHANGED <<exclusive, shared, registration, jobs, known, target, busy>>

MaintRefused(m) ==
    /\ pc[m] = "raising"
    /\ maint.id # None
    /\ admission' = None
    /\ Goto(m, "ended")
    /\ UNCHANGED <<exclusive, shared, registration, records, known, target, busy>>

(* Slip: the lock excludes other cleanups but not jobs. *)
MaintAcquireEarly(m) ==
    /\ pc[m] = "draining"
    /\ exclusive = None
    /\ exclusive' = m
    /\ Goto(m, "granting")
    /\ UNCHANGED <<admission, shared, registration, records, known, target, busy>>

MaintAcquire(m) ==
    /\ pc[m] = "draining"
    /\ exclusive = None /\ shared = {}
    /\ exclusive' = m
    /\ Goto(m, "granting")
    /\ UNCHANGED <<admission, shared, registration, records, known, target, busy>>

MaintDrainTimeout(m) ==
    /\ pc[m] = "draining"
    /\ ~(exclusive = None /\ shared = {})
    /\ Goto(m, "withdrawing")
    /\ UNCHANGED <<locks, records, known, target, busy>>

MaintWithdrawEnter(m) == TakeAdmission(m, "withdrawing", "removing")
MaintWithdrawTimeout(m) == AdmissionTimeout(m, "withdrawing", "ended")

(* _remove: only the record with this id; otherwise it raises. *)
RemoveMaint(m) == maint' = IF maint.id = m THEN NoRecord ELSE maint

MaintWithdraw(m) ==
    /\ pc[m] = "removing"
    /\ RemoveMaint(m)
    /\ admission' = None
    /\ Goto(m, "ended")
    /\ UNCHANGED <<exclusive, shared, registration, jobs, known, target, busy>>

MaintGrantEnter(m) == TakeAdmission(m, "granting", "checking")
MaintGrantTimeout(m) == AdmissionTimeout(m, "granting", "finishing")

NoJobs == \A j \in Jobs : jobs[j] = "none"

(* Slip: the job records are not looked at again after the drain. *)
MaintGrantUnchecked(m) ==
    /\ pc[m] = "checking"
    /\ maint' = [id |-> m, phase |-> "active"]
    /\ admission' = None
    /\ Goto(m, "working")
    /\ UNCHANGED <<exclusive, shared, registration, jobs, known, target, busy>>

MaintGrant(m) ==
    /\ pc[m] = "checking"
    /\ NoJobs
    /\ maint' = [id |-> m, phase |-> "active"]
    /\ admission' = None
    /\ Goto(m, "working")
    /\ UNCHANGED <<exclusive, shared, registration, jobs, known, target, busy>>

(* A job record outlived its process lock: the lease is completed unused. *)
MaintGrantRefused(m) ==
    /\ pc[m] = "checking"
    /\ ~NoJobs
    /\ known' = [known EXCEPT ![m] = TRUE]
    /\ admission' = None
    /\ Goto(m, "finishing")
    /\ UNCHANGED <<exclusive, shared, registration, records, target, busy>>

(* A signal, or state that cannot be read or written: the handlers around   *)
(* the wait and around the grant run, and the outcome is not known.         *)
MaintInterrupted(m) ==
    /\ \/ /\ pc[m] = "draining"
          /\ Goto(m, "withdrawing")
          /\ UNCHANGED <<maint, admission>>
       \/ /\ pc[m] \in {"granting", "checking"}
          /\ Goto(m, "finishing")
          /\ admission' = IF pc[m] = "checking" THEN None ELSE admission
          /\ \/ UNCHANGED maint
             \/ pc[m] = "checking" /\ NoJobs /\ maint' = [id |-> m, phase |-> "active"]
    /\ UNCHANGED <<exclusive, shared, registration, jobs, known, target, busy>>

-----------------------------------------------------------------------------
(* The body of a lease, and the `finally` that ends it *)

StartWork(p) ==
    /\ pc[p] = "working"
    /\ ~known[p]
    /\ busy' = busy \cup {p}
    /\ UNCHANGED <<locks, records, pc, known, target>>

(* Containers, builds and prunes end when they end, owner or no owner. *)
EndWork(p) ==
    /\ p \in busy
    /\ busy' = busy \ {p}
    /\ UNCHANGED <<locks, records, pc, known, target>>

Complete(p) ==
    /\ pc[p] = "working"
    /\ p \notin busy
    /\ known' = [known EXCEPT ![p] = TRUE]
    /\ UNCHANGED <<locks, records, pc, target, busy>>

LeaveBody(p) ==
    /\ pc[p] = "working"
    /\ Goto(p, "finishing")
    /\ UNCHANGED <<locks, records, known, target, busy>>

(* maintain() adds the container's id to its record, once, before it starts *)
(* the container, and takes admission.lock for that inside the lease.       *)
MaintNoteEnter(m) ==
    /\ maint.phase = "active" /\ ~known[m]
    /\ m \notin busy
    /\ TakeAdmission(m, "working", "noting")

MaintNote(m) ==
    /\ pc[m] = "noting"
    /\ maint' = [id |-> m, phase |-> "named"]
    /\ admission' = None
    /\ Goto(m, "working")
    /\ UNCHANGED <<exclusive, shared, registration, jobs, known, target, busy>>

(* The write fails, or a signal arrives, before or after the rename.        *)
MaintNoteFails(m) ==
    /\ pc[m] = "noting"
    /\ maint' \in {maint, [id |-> m, phase |-> "named"]}
    /\ admission' = None
    /\ Goto(m, "working")
    /\ UNCHANGED <<exclusive, shared, registration, jobs, known, target, busy>>

FinishEnter(p) == TakeAdmission(p, "finishing", "finalising")
FinishTimeout(p) == AdmissionTimeout(p, "finishing", "closing")

(* Remove the record of known work; mark every other outcome uncertain,     *)
(* whatever the file holds by then.                                         *)
FinaliseJob(j) ==
    /\ pc[j] = "finalising"
    /\ WriteJob(j, IF known[j] THEN "none" ELSE "uncertain")
    /\ admission' = None
    /\ Goto(j, "closing")
    /\ UNCHANGED <<exclusive, shared, known, target, busy>>

FinaliseMaint(m) ==
    /\ pc[m] = "finalising"
    /\ IF known[m] THEN RemoveMaint(m)
                   ELSE maint' = [id |-> m, phase |-> "uncertain"]
    /\ admission' = None
    /\ Goto(m, "closing")
    /\ UNCHANGED <<exclusive, shared, registration, jobs, known, target, busy>>

(* Both closes of a job in one step: no step of another process separates   *)
(* them in a way a crash between them does not.                             *)
Close(p) ==
    /\ pc[p] = "closing"
    /\ exclusive' = IF exclusive = p THEN None ELSE exclusive
    /\ shared' = shared \ {p}
    /\ registration' =
           [j \in Jobs |-> IF registration[j] = p THEN None ELSE registration[j]]
    /\ Goto(p, "ended")
    /\ UNCHANGED <<admission, records, known, target, busy>>

-----------------------------------------------------------------------------
(* reconcile *)

(* Slip: daemon_operations_complete is not asked for. *)
DrainedOnly(p) == HasRecord(p) /\ pc[p] = "ended"

(* What the operator's evidence attests: the owner of the record is gone    *)
(* (participants_drained) and its daemon work is over                       *)
(* (daemon_operations_complete).                                            *)
Drained(p) == HasRecord(p) /\ pc[p] = "ended" /\ p \notin busy

ReconcileAsk(r) ==
    /\ pc[r] = "idle"
    /\ \E p \in Owners : Drained(p) /\ target' = [target EXCEPT ![r] = p]
    /\ Goto(r, "asking")
    /\ UNCHANGED <<locks, records, known, busy>>

ReconcileEnter(r) == TakeAdmission(r, "asking", "quiescing")
ReconcileUnavailable(r) == AdmissionTimeout(r, "asking", "ended")

ReconcileAcquire(r) ==
    /\ pc[r] = "quiescing"
    /\ exclusive = None /\ shared = {}
    /\ exclusive' = r
    /\ Goto(r, "auditing")
    /\ UNCHANGED <<admission, shared, registration, records, known, target, busy>>

ReconcileTimeout(r) ==
    /\ pc[r] = "quiescing"
    /\ ~(exclusive = None /\ shared = {})
    /\ admission' = None
    /\ Goto(r, "ended")
    /\ UNCHANGED <<exclusive, shared, registration, records, known, target, busy>>

(* The record is looked up again under both locks.  A refusal by the        *)
(* daemon's answers ends as Crash does: locks released, nothing removed.    *)
ReconcileApply(r) ==
    /\ pc[r] = "auditing"
    /\ IF target[r] \in Jobs
       THEN WriteJob(target[r], "none")
       ELSE RemoveMaint(target[r]) /\ UNCHANGED <<jobs, registration>>
    /\ exclusive' = None
    /\ admission' = None
    /\ Goto(r, "ended")
    /\ UNCHANGED <<shared, known, target, busy>>

-----------------------------------------------------------------------------
(* status probes the registration locks without holding admission.lock. *)

Probe(o) ==
    /\ pc[o] = "idle"
    /\ \E j \in Jobs :
           /\ jobs[j] # "none"
           /\ registration[j] = None
           /\ registration' = [registration EXCEPT ![j] = o]
    /\ Goto(o, "probing")
    /\ UNCHANGED <<admission, exclusive, shared, records, known, target, busy>>

ProbeEnd(o) ==
    /\ pc[o] = "probing"
    /\ registration' =
           [j \in Jobs |-> IF registration[j] = o THEN None ELSE registration[j]]
    /\ Goto(o, "idle")
    /\ UNCHANGED <<admission, exclusive, shared, records, known, target, busy>>

-----------------------------------------------------------------------------

Init ==
    /\ maint = NoRecord
    /\ jobs = [j \in Jobs |-> "none"]
    /\ admission = None
    /\ exclusive = None
    /\ shared = {}
    /\ registration = [j \in Jobs |-> None]
    /\ pc = [p \in Procs |-> "idle"]
    /\ known = [p \in Owners |-> FALSE]
    /\ target = [r \in Reconcilers |-> None]
    /\ busy = {}

JobAdmission(j) ==
    \/ JobEnter(j) \/ JobUnavailable(j)
    \/ JobScan(j) \/ JobRetry(j) \/ JobGivesUp(j)
    \/ JobShare(j) \/ JobShareTimeout(j)
    \/ JobRecord(j) \/ JobRegister(j) \/ JobRegisterBlocked(j)

MaintAdmission(m) ==
    \/ MaintEnter(m) \/ MaintUnavailable(m)
    \/ MaintRaise(m) \/ MaintRefused(m)
    \/ MaintAcquire(m) \/ MaintDrainTimeout(m)
    \/ MaintWithdrawEnter(m) \/ MaintWithdrawTimeout(m) \/ MaintWithdraw(m)
    \/ MaintGrantEnter(m) \/ MaintGrantTimeout(m)
    \/ MaintGrant(m) \/ MaintGrantRefused(m)

Body(p) ==
    StartWork(p) \/ EndWork(p) \/ Complete(p) \/ LeaveBody(p)

Finish(p) ==
    \/ FinishEnter(p) \/ FinishTimeout(p) \/ Close(p)
    \/ p \in Jobs /\ FinaliseJob(p)
    \/ p \in Maints /\ FinaliseMaint(p)

Reconcile(r) ==
    \/ ReconcileAsk(r) \/ ReconcileEnter(r) \/ ReconcileUnavailable(r)
    \/ ReconcileAcquire(r) \/ ReconcileTimeout(r) \/ ReconcileApply(r)

Naming(m) == MaintNoteEnter(m) \/ MaintNote(m) \/ MaintNoteFails(m)

(* What processes do before and after the bodies of their leases. *)
Outside ==
    \/ \E p \in Owners : Ask(p) \/ Finish(p)
    \/ \E j \in Jobs : JobAdmission(j)
    \/ \E m \in Maints : MaintAdmission(m) \/ MaintInterrupted(m)
    \/ \E r \in Reconcilers : Reconcile(r)
    \/ \E o \in Observers : Probe(o) \/ ProbeEnd(o)

Next ==
    \/ Outside
    \/ \E p \in Procs : Crash(p) \/ Recycle(p)
    \/ \E p \in Owners : Body(p)
    \/ \E m \in Maints : Naming(m)

Spec == Init /\ [][Next]_vars
-----------------------------------------------------------------------------
(* Properties *)

JobLabels == {"asking", "scanning", "sharing", "recording", "registering"}
MaintLabels == {"asking", "raising", "draining", "withdrawing", "removing",
                "granting", "checking", "noting"}
BodyLabels == {"idle", "working", "finishing", "finalising", "closing", "ended"}
(* "named" is "active" with a container_id. *)
Phases == {"none", "waiting", "active", "named", "uncertain"}

(* Every variable keeps its type, and a process only labels of its role.    *)
TypeOK ==
    /\ maint \in [id : Maints \cup {None}, phase : Phases]
    /\ jobs \in [Jobs -> Phases \ {"waiting", "named"}]
    /\ admission \in Procs \cup {None}
    /\ exclusive \in Procs \cup {None}
    /\ shared \subseteq Jobs
    /\ registration \in [Jobs -> Procs \cup {None}]
    /\ pc \in [Procs -> JobLabels \cup MaintLabels \cup BodyLabels
                         \cup {"quiescing", "auditing", "probing"}]
    /\ \A j \in Jobs : pc[j] \in JobLabels \cup BodyLabels
    /\ \A m \in Maints : pc[m] \in MaintLabels \cup BodyLabels
    /\ \A r \in Reconcilers :
           pc[r] \in {"idle", "asking", "quiescing", "auditing", "ended"}
    /\ \A o \in Observers : pc[o] \in {"idle", "probing", "ended"}
    /\ known \in [Owners -> BOOLEAN]
    /\ target \in [Reconcilers -> Owners \cup {None}]
    /\ busy \subseteq Owners

(* Cleanup never overlaps a job's daemon work or another cleanup, not even  *)
(* the work a dead process left running in the daemon.                      *)
WorkExclusion ==
    \A m \in Maints \cap busy : busy = {m}

(* Daemon work is never without a record that can still block admission:    *)
(* finalisation, withdrawal and reconciliation only clear finished work.    *)
BusyIsRecorded ==
    \A p \in busy : HasRecord(p)

(* A process that finalises or withdraws finds its own record on disk, so   *)
(* _remove never raises "gate record changed" and the unconditional write   *)
(* of an "active" or "uncertain" phase never overwrites another run's.      *)
OwnRecord ==
    /\ \A m \in Maints :
           pc[m] \in {"removing", "checking", "noting", "finalising"} => maint.id = m
    /\ \A j \in Jobs : pc[j] = "finalising" => jobs[j] # "none"

(* p cannot go on before q does, unless its deadline passes: it polls for a *)
(* lock that q holds.  A maintenance run may want admission.lock in its     *)
(* body as well, for the note of its container.                             *)
Awaits(p, q) ==
    \/ /\ \/ pc[p] \in {"asking", "withdrawing", "granting", "finishing"}
          \/ p \in Maints /\ pc[p] = "working"
       /\ q = admission
    \/ pc[p] = "sharing" /\ q = exclusive
    \/ pc[p] \in {"draining", "quiescing"} /\ q \in shared \cup {exclusive}

(* Some lock is awaited while another is held by jobs (gate.py:371), by     *)
(* draining and finishing maintenance (gate.py:417-442) and by reconcile    *)
(* (reconcile.py:63-64).  Processes that all wait for one another always    *)
(* have a reconcile among them that waits for activity.lock; jobs and       *)
(* maintenance runs alone never deadlock.  With reconcile they do: it       *)
(* awaits an owner at its finaliser, which awaits admission.lock, and only  *)
(* their deadlines part them.                                               *)
DeadlockNeedsReconcile ==
    \A S \in SUBSET {p \in Procs : \E q \in Procs : Awaits(p, q)} :
        S # {} /\ (\A p \in S : \E q \in S : Awaits(p, q))
            => \E r \in S \cap Reconcilers : pc[r] = "quiescing"

Unresolved(p) == HasRecord(p) /\ pc[p] = "ended"

(* docs/maintenance.md:54: "Missing receipts, signals, timeouts, wrapper    *)
(* crashes, or remaining clients leave admission blocked."  No job passes   *)
(* the scan while the record of an ended process is on disk.                *)
UnresolvedBlocks ==
    [][\A j \in Jobs : pc[j] = "scanning" /\ pc'[j] = "sharing"
                            => \A p \in Owners : ~Unresolved(p)]_vars

(* With `status` processes: a job gets past the record of an ended process  *)
(* only if that process was a job, and while somebody probes its lock.      *)
UnresolvedNeedsProbe ==
    [][\A j \in Jobs : pc[j] = "scanning" /\ pc'[j] = "sharing"
           => \A p \in Owners : Unresolved(p) => p \in Jobs /\ registration[p] \in Observers]_vars

(* The record of an ended process outlives whatever other processes do,     *)
(* their crashes included: it goes only with an operator who holds both     *)
(* locks and has audited this very owner.                                   *)
UnresolvedStays ==
    [][\A p \in Owners : Unresolved(p) /\ ~HasRecord(p)'
           => \E r \in Reconcilers : pc[r] = "auditing" /\ target[r] = p]_vars

(* What lets a drain end: from the moment the maintenance record is on disk *)
(* the jobs that hold the activity lock only become fewer, also those that  *)
(* had been through the scan before.                                        *)
DrainIsClosed ==
    [][maint.id # None => shared' \subseteq shared]_vars

(* Maintenance is refused for unresolved jobs only: the job records it      *)
(* finds after the drain all belong to ended processes; a job that is alive,*)
(* or still closing, has been waited for and is never mistaken for dead.    *)
RefusedOnlyForUnresolved ==
    \A m \in Maints : pc[m] = "checking" =>
        \A j \in Jobs : HasRecord(j) => Unresolved(j)

-----------------------------------------------------------------------------
(* The inductive invariant behind the safety properties *)

(* Labels at which a process is inside a `with self._admission(...)` block. *)
Admitted == {"scanning", "sharing", "recording", "registering", "raising",
             "removing", "checking", "noting", "finalising", "quiescing", "auditing"}

(* Labels at which a lease, or a claim to one, is held.                     *)
JobHolds == {"recording", "registering", "working", "finishing", "finalising",
             "closing"}
MaintHolds == {"granting", "checking", "working", "noting", "finishing",
               "finalising", "closing"}
Afterwards == {"working", "finishing", "finalising", "closing", "ended"}

AdmissionInv == \A p \in Procs : pc[p] \in Admitted <=> admission = p

SharedInv ==
    /\ \A j \in Jobs : pc[j] \in JobHolds <=> j \in shared
    /\ exclusive # None => shared = {}

ExclusiveInv ==
    /\ \A m \in Maints : pc[m] \in MaintHolds <=> exclusive = m
    /\ \A r \in Reconcilers : pc[r] = "auditing" <=> exclusive = r
    /\ exclusive \in Maints \cup Reconcilers \cup {None}

MaintRecordInv ==
    /\ \A m \in Maints :
           pc[m] \in (MaintHolds \ {"closing"})
                      \cup {"draining", "withdrawing", "removing"} => maint.id = m
    /\ \A j \in Jobs :
           pc[j] \in {"sharing", "recording", "registering"} => maint.id = None

JobRecordInv ==
    \A j \in Jobs :
        /\ pc[j] \in {"registering", "working", "finishing", "finalising"} => jobs[j] # "none"
        /\ jobs[j] # "none" => pc[j] \in Afterwards \cup {"registering"}

(* Cleanup is authorised, and its work goes on, while no job record exists. *)
GrantInv ==
    \A m \in Maints : pc[m] \in {"working", "noting"} \/ m \in busy => NoJobs

BusyInv ==
    /\ BusyIsRecorded
    /\ \A p \in busy : pc[p] \in Afterwards /\ ~known[p]

TargetInv ==
    \A r \in Reconcilers :
        pc[r] \in {"asking", "quiescing", "auditing"} =>
            target[r] \in Owners /\ pc[target[r]] = "ended" /\ target[r] \notin busy

(* Only its owner, or a `status` process, locks a job's record. *)
RegistrationInv ==
    \A k \in Jobs :
        /\ registration[k] \in {None, k} \cup Observers
        /\ registration[k] = k => pc[k] \in JobHolds \ {"recording", "registering"}

IInv ==
    /\ TypeOK
    /\ AdmissionInv
    /\ SharedInv
    /\ ExclusiveInv
    /\ MaintRecordInv
    /\ JobRecordInv
    /\ GrantInv
    /\ BusyInv
    /\ TargetInv
    /\ RegistrationInv

-----------------------------------------------------------------------------
(* Liveness *)

(* The steps of an admission that need nothing but the admission lock: all  *)
(* but those that end the drain.                                            *)
MaintProceeds(m) ==
    \/ MaintEnter(m) \/ MaintUnavailable(m)
    \/ MaintRaise(m) \/ MaintRefused(m)
    \/ MaintWithdrawEnter(m) \/ MaintWithdrawTimeout(m) \/ MaintWithdraw(m)
    \/ MaintGrantEnter(m) \/ MaintGrantTimeout(m)
    \/ MaintGrant(m) \/ MaintGrantRefused(m)

ReconcileProceeds(r) ==
    \/ ReconcileEnter(r) \/ ReconcileUnavailable(r)
    \/ ReconcileAcquire(r) \/ ReconcileTimeout(r) \/ ReconcileApply(r)

(* The calls return: every process is scheduled, a wait for a lock ends by  *)
(* the lock or by the deadline of _acquire, bodies end (jobs by --timeout), *)
(* and a job that finds admission blocked over and over gives up at its     *)
(* deadline.  Nothing makes the deadline of the drain pass: what is free    *)
(* for good is acquired.                                                    *)
CallFairness ==
    /\ \A j \in Jobs : WF_vars(JobAdmission(j)) /\ SF_vars(JobGivesUp(j))
    /\ \A m \in Maints :
           WF_vars(MaintProceeds(m)) /\ WF_vars(MaintAcquire(m)) /\ WF_vars(MaintNote(m))
    /\ \A p \in Owners : WF_vars(Finish(p)) /\ WF_vars(LeaveBody(p))
    /\ \A r \in Reconcilers : WF_vars(ReconcileProceeds(r))

CallSpec == Spec /\ CallFairness

(* Whatever the other processes do or where they die, a call to job() or    *)
(* maintenance() is granted or refused, or is in the drain, which the next  *)
(* property is about, and a lease that is being given up is given up.       *)
CallsReturn ==
    \A p \in Owners :
        pc[p] \notin {"idle", "working", "ended", "draining"}
            ~> pc[p] \in {"working", "ended", "draining"}

(* An operator who retries for ever takes the exclusive lock again and      *)
(* again, and may be first each time.                                       *)
OperatorsRest == <>[](\A r \in Reconcilers : exclusive # r)

(* A stream of new jobs cannot keep maintenance waiting: once its record is *)
(* on disk the drain ends without the deadline having to pass.              *)
DrainCompletes ==
    OperatorsRest => \A m \in Maints : pc[m] = "draining" ~> pc[m] # "draining"
=============================================================================
