---------------------------- MODULE JobLifecycle ----------------------------
(***************************************************************************)
(* One admitted job: ci_docker_job.run inside `with gate.job(...) as       *)
(* lease`, the process group it launches, and the daemon operations that   *)
(* group starts.                                                           *)
(*                                                                         *)
(* The job's command is the environment.  What docs/maintenance.md asks of *)
(* it is assumed: it writes the receipt (job-complete) only when its daemon*)
(* operations are over, starts none afterwards, and leaves no process in   *)
(* another session.  Everything else it may do: fail, be killed, leave     *)
(* children behind, or never write a receipt.                              *)
(***************************************************************************)
VARIABLES
    pc,        \* where run() is
    attempted, \* launch_attempted
    handle,    \* `process` is bound, so the group can be signalled
    known,     \* lease.known
    leader,    \* the launched command: "none", "running", "exited", "signalled"
    children,  \* other members of its process group are alive
    operation, \* a daemon operation the group started is still going on
    receipt    \* complete.json with this job's id and token exists

host == <<pc, attempted, handle, known>>
group == <<leader, children, operation, receipt>>
vars == <<pc, attempted, handle, known, leader, children, operation, receipt>>

GroupAlive == leader = "running" \/ children
Busy == GroupAlive \/ operation

Init ==
    /\ pc = "preparing"
    /\ attempted = FALSE /\ handle = FALSE /\ known = FALSE
    /\ leader = "none"
    /\ children = FALSE /\ operation = FALSE /\ receipt = FALSE
-----------------------------------------------------------------------------
(* run *)

(* preflight, measure, evaluate and the temporary directory. *)
Prepare ==
    /\ pc = "preparing"
    /\ pc' = "launching"
    /\ attempted' = TRUE
    /\ UNCHANGED <<handle, known, group>>

(* subprocess.Popen(command, start_new_session=True) *)
Launch ==
    /\ pc = "launching"
    /\ pc' = "waiting"
    /\ handle' = TRUE
    /\ leader' = "running"
    /\ UNCHANGED <<attempted, known, children, operation, receipt>>

(* A signal interrupts Popen after the child exists, or Popen fails. *)
LaunchInterrupted ==
    /\ pc = "launching"
    /\ pc' = "raising"
    /\ leader' \in {"none", "running"}
    /\ UNCHANGED <<attempted, handle, known, children, operation, receipt>>

(* process.wait returns: the leader is gone, its group may not be. *)
WaitReturns ==
    /\ pc = "waiting"
    /\ leader \in {"exited", "signalled"}
    /\ pc' = "judging"
    /\ UNCHANGED <<attempted, handle, known, group>>

WaitTimeout ==
    /\ pc = "waiting"
    /\ leader = "running"
    /\ pc' = "raising"
    /\ UNCHANGED <<attempted, handle, known, group>>

(* Slip: the process group is not looked at. *)
Receipted == receipt /\ leader = "exited"

Established == receipt /\ leader = "exited" /\ ~children

JudgeComplete ==
    /\ pc = "judging"
    /\ Established
    /\ known' = TRUE
    /\ pc' = "leaving"
    /\ UNCHANGED <<attempted, handle, group>>

JudgeUnresolved ==
    /\ pc = "judging"
    /\ ~Established
    /\ pc' = "raising"
    /\ UNCHANGED <<attempted, handle, known, group>>

Leave ==
    /\ pc = "leaving"
    /\ pc' = "left"
    /\ UNCHANGED <<attempted, handle, known, group>>

(* A failure, or the GateError a signal raises, outside Popen. *)
Interrupt ==
    /\ pc \in {"preparing", "waiting", "judging"}
    /\ pc' = "raising"
    /\ UNCHANGED <<attempted, handle, known, group>>

(* Slip: every failure completes the lease. *)
RaiseCompletes ==
    /\ pc = "raising"
    /\ known' = TRUE
    /\ pc' = "leaving"
    /\ UNCHANGED <<attempted, handle, group>>

(* except BaseException: a lease whose launch was never attempted is known; *)
(* otherwise what is left of the group is asked to stop.                    *)
RaiseUnattempted ==
    /\ pc = "raising"
    /\ ~attempted
    /\ known' = TRUE
    /\ pc' = "leaving"
    /\ UNCHANGED <<attempted, handle, group>>

RaiseAttempted ==
    /\ pc = "raising"
    /\ attempted
    /\ pc' = "leaving"
    /\ \/ UNCHANGED <<leader, children>>  \* ignored, or no handle to signal
       \/ /\ handle /\ GroupAlive
          /\ leader' = IF leader = "running" THEN "signalled" ELSE leader
          /\ children' \in {FALSE, children}
    /\ UNCHANGED <<attempted, handle, known, operation, receipt>>

(* SIGKILL or a host crash. *)
Crash ==
    /\ pc # "left"
    /\ pc' = "left"
    /\ UNCHANGED <<attempted, handle, known, group>>

Proceed ==
    \/ Prepare \/ Launch \/ LaunchInterrupted \/ WaitReturns \/ WaitTimeout
    \/ JudgeComplete \/ JudgeUnresolved \/ Leave \/ Interrupt
    \/ RaiseUnattempted \/ RaiseAttempted

Run == Proceed \/ Crash
-----------------------------------------------------------------------------
(* The command and its process group *)

OperationStarts ==
    /\ GroupAlive /\ ~receipt
    /\ operation' = TRUE
    /\ UNCHANGED <<host, leader, children, receipt>>

OperationEnds ==
    /\ operation
    /\ operation' = FALSE
    /\ UNCHANGED <<host, leader, children, receipt>>

(* ci_docker_job.complete *)
WriteReceipt ==
    /\ GroupAlive /\ ~operation
    /\ receipt' = TRUE
    /\ UNCHANGED <<host, leader, children, operation>>

Spawn ==
    /\ leader = "running"
    /\ children' = TRUE
    /\ UNCHANGED <<host, leader, operation, receipt>>

ChildrenEnd ==
    /\ children
    /\ children' = FALSE
    /\ UNCHANGED <<host, leader, operation, receipt>>

LeaderEnds ==
    /\ leader = "running"
    /\ leader' \in {"exited", "signalled"}
    /\ UNCHANGED <<host, children, operation, receipt>>

Command ==
    \/ OperationStarts \/ OperationEnds \/ WriteReceipt
    \/ Spawn \/ ChildrenEnd \/ LeaderEnds

Done == pc = "left" /\ ~Busy /\ UNCHANGED vars

Next == Run \/ Command \/ Done

Spec == Init /\ [][Next]_vars
-----------------------------------------------------------------------------
TypeOK ==
    /\ pc \in {"preparing", "launching", "waiting", "judging", "raising", "leaving",
               "left"}
    /\ leader \in {"none", "running", "exited", "signalled"}
    /\ attempted \in BOOLEAN /\ handle \in BOOLEAN /\ known \in BOOLEAN
    /\ children \in BOOLEAN /\ operation \in BOOLEAN /\ receipt \in BOOLEAN

(* The lease is completed only over a quiet process group and daemon: the   *)
(* command was never launched, or its receipt stands and nothing of its     *)
(* group is alive; and it stays quiet.                                      *)
KnownIsQuiet == known => ~Busy /\ (attempted => receipt)

(* Whatever the command does within its contract, and wherever run() is     *)
(* interrupted, the job is a lease body the gate's exclusion can rely on.   *)
B == INSTANCE LeaseBody WITH inside <- pc # "left", busy <- Busy
ImplementsLeaseBody == B!Spec
=============================================================================
