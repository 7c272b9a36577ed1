--------------------------- MODULE MaintenanceRun ---------------------------
(***************************************************************************)
(* One cleanup under the exclusive lease: ci_docker_maintenance.maintain   *)
(* inside `with gate.maintenance(...) as lease`, the LeaseServer thread it *)
(* runs, and the cleanup container, whose process asks that server before  *)
(* every mutating request (ci_utils/guard.py) and gives up by an exit code *)
(* (ci_utils/engine.py, ci_utils/cleanup.py).                              *)
(*                                                                         *)
(* The cleanup process is abstracted to its requests: it reads, decides on *)
(* a mutation, has the lease checked, sends the request, and takes the     *)
(* answer or fails.  The host trusts the exit code: anything but 0, 2, 3,  *)
(* 4 and 5 means that completion is not established.                       *)
(***************************************************************************)
EXTENDS Naturals

VARIABLES
    pc,        \* where maintain() is
    started,   \* `started`: docker start has been attempted
    known,     \* lease.known
    serving,   \* the LeaseServer answers
    expired,   \* its deadline has passed
    bound,     \* client_pid is the cleanup process
    container, \* "none", "created", "starting", "running", "exited"
    code,      \* exit code of the container, once it has exited
    client,    \* where the cleanup process is
    mutated,   \* engine.mutation_started
    request    \* the mutating request: "none", "running", "answered"

lease == <<started, known, serving, expired, bound>>
cleanup == <<client, mutated, request>>
vars == <<pc, lease, container, code, cleanup>>

Running == 254   \* no exit code yet
Killed == 137
KnownCodes == {0, 2, 3, 4, 5}

Busy == container \in {"starting", "running"} \/ request = "running"

Init ==
    /\ pc = "preparing"
    /\ started = FALSE /\ known = FALSE
    /\ serving = FALSE /\ expired = FALSE /\ bound = FALSE
    /\ container = "none" /\ code = Running
    /\ client = "off" /\ mutated = FALSE /\ request = "none"
-----------------------------------------------------------------------------
(* maintain *)

(* verify_image, preflight, snapshots; then LeaseServer.__enter__. *)
Prepare ==
    /\ pc = "preparing"
    /\ pc' = "creating"
    /\ serving' = TRUE
    /\ UNCHANGED <<started, known, expired, bound, container, code, cleanup>>

(* docker create *)
Create ==
    /\ pc = "creating"
    /\ pc' = "noting"
    /\ container' = "created"
    /\ UNCHANGED <<lease, code, cleanup>>

(* The container id goes into the record before anything can run. *)
Note ==
    /\ pc = "noting"
    /\ pc' = "starting"
    /\ started' = TRUE
    /\ UNCHANGED <<known, serving, expired, bound, container, code, cleanup>>

(* docker start is sent; its answer is StartReturns, or never comes. *)
Start ==
    /\ pc = "starting"
    /\ pc' = "awaiting"
    /\ container' = "starting"
    /\ UNCHANGED <<lease, code, cleanup>>

StartReturns ==
    /\ pc = "awaiting"
    /\ container \in {"running", "exited"}
    /\ pc' = "binding"
    /\ UNCHANGED <<lease, container, code, cleanup>>

(* Slip: the cleanup process is never bound. *)
BindNobody ==
    /\ pc = "binding"
    /\ pc' = "waiting"
    /\ UNCHANGED <<lease, container, code, cleanup>>

(* docker inspect: a container that has already exited has no pid to bind. *)
Bind ==
    /\ pc = "binding"
    /\ pc' = "waiting"
    /\ bound' = (container = "running")
    /\ UNCHANGED <<started, known, serving, expired, container, code, cleanup>>

WaitReturns ==
    /\ pc = "waiting"
    /\ container = "exited"
    /\ pc' = "judging"
    /\ UNCHANGED <<lease, container, code, cleanup>>

(* Slip: any exit code is taken for completion. *)
JudgeAnyCode ==
    /\ pc = "judging"
    /\ known' = TRUE
    /\ pc' = "closing"
    /\ UNCHANGED <<started, serving, expired, bound, container, code, cleanup>>

(* Terminal state, logs, terminal_result and lease.complete(). *)
JudgeComplete ==
    /\ pc = "judging"
    /\ code \in KnownCodes
    /\ known' = TRUE
    /\ pc' = "closing"
    /\ UNCHANGED <<started, serving, expired, bound, container, code, cleanup>>

JudgeUnresolved ==
    /\ pc = "judging"
    /\ code \notin KnownCodes
    /\ pc' = "raising"
    /\ serving' = FALSE
    /\ UNCHANGED <<started, known, expired, bound, container, code, cleanup>>

(* Later observations and docker rm; they may fail, the lease is complete. *)
CloseRun ==
    /\ pc = "closing"
    /\ serving' = FALSE
    /\ pc' = "leaving"
    /\ UNCHANGED <<started, known, expired, bound, container, code, cleanup>>

(* A Docker command fails or times out, its output is not what it should    *)
(* be, or a signal arrives: the server is closed on the way out.  A failing *)
(* docker create may have created the container.                            *)
Fail ==
    /\ pc \notin {"raising", "leaving", "left"}
    /\ pc' = "raising"
    /\ serving' = FALSE
    /\ container' \in IF pc = "creating" THEN {"none", "created"} ELSE {container}
    /\ UNCHANGED <<started, known, expired, bound, code, cleanup>>

(* except BaseException: nothing was started, so the outcome is known. *)
Raise ==
    /\ pc = "raising"
    /\ known' = (known \/ ~started)
    /\ pc' = "leaving"
    /\ UNCHANGED <<started, serving, expired, bound, container, code, cleanup>>

Leave ==
    /\ pc = "leaving"
    /\ pc' = "left"
    /\ UNCHANGED <<lease, container, code, cleanup>>

Crash ==
    /\ pc # "left"
    /\ pc' = "left"
    /\ serving' = FALSE
    /\ UNCHANGED <<started, known, expired, bound, container, code, cleanup>>

(* LeaseServer.deadline *)
Expire ==
    /\ serving /\ ~expired
    /\ expired' = TRUE
    /\ UNCHANGED <<pc, started, known, serving, bound, container, code, cleanup>>
-----------------------------------------------------------------------------
(* The container and the cleanup process in it *)

ContainerStarts ==
    /\ container = "starting"
    /\ container' = "running"
    /\ client' = "reading"
    /\ UNCHANGED <<pc, lease, code, mutated, request>>

StartRefused ==
    /\ container = "starting"
    /\ container' = "created"
    /\ UNCHANGED <<pc, lease, code, cleanup>>

(* The process ends, and the container with it. *)
Exit(status) ==
    /\ client' = "off"
    /\ container' = "exited"
    /\ code' = status
    /\ UNCHANGED <<pc, lease, mutated>>

(* Preflight, inventory and inspections have led to a candidate, or to the  *)
(* end of the last stage.                                                   *)
Decide ==
    /\ client = "reading"
    /\ client' \in {"checking", "concluding"}
    /\ UNCHANGED <<pc, lease, container, code, mutated, request>>

(* A read fails: an answer that rules cleanup out has a code of its own, a  *)
(* lost connection is code 3, and 6 once a mutation has started.            *)
ReadFails ==
    /\ client = "reading"
    /\ \E status \in {2, 3, 5} \cup (IF mutated THEN {6} ELSE {}) : Exit(status)
    /\ UNCHANGED request

(* What the server's Handler answers. *)
Live == serving /\ ~known /\ ~expired
Active == Live /\ bound

(* LeaseGuard.check *)
GuardPasses ==
    /\ client = "checking"
    /\ Active
    /\ client' = "cleared"
    /\ UNCHANGED <<pc, lease, container, code, mutated, request>>

(* Refused: no server, or a lease that is complete or has expired. *)
GuardRefused ==
    /\ client \in {"checking", "concluding"}
    /\ ~Live
    /\ Exit(IF mutated THEN 6 ELSE 4)
    /\ UNCHANGED request

(* Still pending after 30 seconds, or the query itself fails: its socket    *)
(* gives up after two seconds, whatever the server would have said.         *)
GuardTimeout ==
    /\ client \in {"checking", "concluding"}
    /\ Exit(IF mutated THEN 6 ELSE 4)
    /\ UNCHANGED request

Conclude ==
    /\ client = "concluding"
    /\ Active
    /\ Exit(0)
    /\ UNCHANGED request

(* Slip: mutation_started is set only once the daemon has answered. *)
SendUnmarked ==
    /\ client = "cleared"
    /\ client' = "sending"
    /\ request' = "running"
    /\ UNCHANGED <<pc, lease, container, code, mutated>>

(* Engine.remove and Engine.prune_cache *)
Send ==
    /\ client = "cleared"
    /\ client' = "sending"
    /\ mutated' = TRUE
    /\ request' = "running"
    /\ UNCHANGED <<pc, lease, container, code>>

DaemonAnswers ==
    /\ request = "running"
    /\ request' = "answered"
    /\ UNCHANGED <<pc, lease, container, code, client, mutated>>

(* Removed, or a skip: 404 and 409. *)
Take ==
    /\ client = "sending" /\ request = "answered"
    /\ client' = "reading"
    /\ request' = "none"
    /\ UNCHANGED <<pc, lease, container, code, mutated>>

(* A refused DELETE is code 5; a refused prune or an odd reply is code 6. *)
TakeError ==
    /\ client = "sending" /\ request = "answered"
    /\ \E status \in {5, 6} : Exit(status)
    /\ request' = "none"

(* The connection fails or the operation timer shuts it down: the daemon    *)
(* may go on with the request.                                              *)
Abandon ==
    /\ client = "sending" /\ request = "running"
    /\ Exit(IF mutated THEN 6 ELSE 3)
    /\ UNCHANGED request

(* engine.remaining() past the run deadline, or SIGTERM and SIGINT. *)
Interrupted ==
    /\ client # "off"
    /\ Exit(6)
    /\ UNCHANGED request

(* SIGKILL, the OOM killer, or an exception nobody catches. *)
Kill ==
    /\ client # "off"
    /\ Exit(Killed)
    /\ UNCHANGED request

Done == pc = "left" /\ ~Busy /\ UNCHANGED vars

HostProgress ==
    \/ Prepare \/ Create \/ Note \/ Start \/ StartReturns \/ Bind \/ WaitReturns
    \/ JudgeComplete \/ JudgeUnresolved \/ CloseRun \/ Raise \/ Leave

ClientProgress ==
    \/ Decide \/ GuardPasses \/ GuardRefused \/ Conclude \/ Send \/ Take

Host == HostProgress \/ Fail

(* Time, the container, the process in it and the daemon. *)
Elsewhere ==
    \/ Expire \/ ContainerStarts \/ StartRefused
    \/ ClientProgress \/ ReadFails \/ GuardTimeout \/ TakeError \/ Abandon
    \/ Interrupted \/ Kill \/ DaemonAnswers

Next == Host \/ Crash \/ Elsewhere \/ Done

Spec == Init /\ [][Next]_vars
-----------------------------------------------------------------------------
TypeOK ==
    /\ pc \in {"preparing", "creating", "noting", "starting", "awaiting", "binding",
               "waiting", "judging", "closing", "raising", "leaving", "left"}
    /\ started \in BOOLEAN /\ known \in BOOLEAN /\ mutated \in BOOLEAN
    /\ serving \in BOOLEAN /\ expired \in BOOLEAN /\ bound \in BOOLEAN
    /\ container \in {"none", "created", "starting", "running", "exited"}
    /\ code \in KnownCodes \cup {6, Killed, Running}
    /\ client \in {"off", "reading", "checking", "concluding", "cleared", "sending"}
    /\ request \in {"none", "running", "answered"}

(* An exit code the host accepts as established completion is never given   *)
(* while a request of the run is still going on in the daemon.              *)
CodeIsTruthful ==
    container = "exited" /\ code \in KnownCodes => request # "running"

(* Code 4 ("skipped") is given only by a run that changed nothing.          *)
SkippedIsUnchanged == container = "exited" /\ code = 4 => ~mutated

(* Whatever fails, in whatever order, the run is a lease body the gate's    *)
(* exclusion can rely on: lease.complete() only over a quiet daemon.        *)
B == INSTANCE LeaseBody WITH inside <- pc # "left", busy <- Busy
ImplementsLeaseBody == B!Spec
==============================================================================
