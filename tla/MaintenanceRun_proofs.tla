------------------------ MODULE MaintenanceRun_proofs ------------------------
(* A maintenance run keeps the lease contract: module LeaseBody. *)
EXTENDS MaintenanceRun, TLAPS

(* Before docker start there is no work; only a live cleanup process waits  *)
(* for an answer; an exit code the host accepts was given with no request   *)
(* left behind; the lease is completed at the end or unused.                *)
MInv ==
    /\ TypeOK
    /\ pc \in {"preparing", "creating", "noting"} => ~started
    /\ pc \in {"starting", "awaiting", "binding", "waiting", "judging", "closing"} =>
           started
    /\ ~started \/ pc \in {"preparing", "creating", "noting", "starting"} =>
           container \in {"none", "created"}
    /\ container \in {"none", "created", "starting"} =>
           client = "off" /\ request # "running" /\ ~mutated
    /\ client # "off" <=> container = "running"
    /\ request = "running" => mutated
    /\ container = "running" => (request = "running" => client = "sending")
    /\ CodeIsTruthful
    /\ SkippedIsUnchanged
    /\ pc = "judging" => container = "exited"
    /\ known => pc \in {"closing", "raising", "leaving", "left"} /\ ~Busy
    /\ known /\ started => container = "exited"

LEMMA RunStep == MInv /\ [Next]_vars => MInv'
<1>. SUFFICES ASSUME MInv, [Next]_vars PROVE MInv'
  OBVIOUS
<1>. USE DEF MInv, TypeOK, CodeIsTruthful, SkippedIsUnchanged, Busy, KnownCodes, Killed,
             Running, lease, cleanup, vars
<1>1. CASE UNCHANGED vars
  BY <1>1
<1>2. CASE Prepare
  BY <1>2 DEF Prepare
<1>3. CASE Create
  BY <1>3 DEF Create
<1>4. CASE Note
  BY <1>4 DEF Note
<1>5. CASE Start
  BY <1>5 DEF Start
<1>6. CASE StartReturns
  BY <1>6 DEF StartReturns
<1>7. CASE Bind
  BY <1>7 DEF Bind
<1>8. CASE WaitReturns
  BY <1>8 DEF WaitReturns
<1>9. CASE JudgeComplete
  BY <1>9 DEF JudgeComplete
<1>10. CASE JudgeUnresolved
  <2>1. serving' \in BOOLEAN
    BY <1>10 DEF JudgeUnresolved
  <2>2. /\ pc = "judging" /\ code \notin KnownCodes /\ pc' = "raising"
        /\ UNCHANGED <<started, known, expired, bound, container, code, cleanup>>
    BY <1>10 DEF JudgeUnresolved
  <2>. QED
    BY <2>1, <2>2
<1>11. CASE CloseRun
  <2>1. serving' \in BOOLEAN
    BY <1>11 DEF CloseRun
  <2>2. /\ pc = "closing" /\ pc' = "leaving"
        /\ UNCHANGED <<started, known, expired, bound, container, code, cleanup>>
    BY <1>11 DEF CloseRun
  <2>. QED
    BY <2>1, <2>2
<1>12. CASE Raise
  BY <1>12 DEF Raise
<1>13. CASE Leave
  BY <1>13 DEF Leave
<1>14. CASE Fail
  <2>1. serving' \in BOOLEAN
    BY <1>14 DEF Fail
  <2>2. /\ pc \notin {"raising", "leaving", "left"} /\ pc' = "raising"
        /\ container' \in IF pc = "creating" THEN {"none", "created"} ELSE {container}
        /\ UNCHANGED <<started, known, expired, bound, code, cleanup>>
    BY <1>14 DEF Fail
  <2>. QED
    BY <2>1, <2>2
<1>15. CASE Crash
  <2>1. serving' \in BOOLEAN
    BY <1>15 DEF Crash
  <2>2. /\ pc # "left" /\ pc' = "left"
        /\ UNCHANGED <<started, known, expired, bound, container, code, cleanup>>
    BY <1>15 DEF Crash
  <2>. QED
    BY <2>1, <2>2
<1>16. CASE Expire
  BY <1>16 DEF Expire
<1>17. CASE ContainerStarts
  BY <1>17 DEF ContainerStarts
<1>18. CASE StartRefused
  BY <1>18 DEF StartRefused
<1>19. CASE Decide
  BY <1>19 DEF Decide
<1>20. CASE GuardPasses
  BY <1>20 DEF GuardPasses
<1>21. CASE Send
  BY <1>21 DEF Send
<1>22. CASE Take
  BY <1>22 DEF Take
<1>23. CASE ReadFails
  BY <1>23 DEF ReadFails, Exit
<1>24. CASE GuardRefused
  BY <1>24 DEF GuardRefused, Exit
<1>25. CASE GuardTimeout
  BY <1>25 DEF GuardTimeout, Exit
<1>26. CASE Conclude
  BY <1>26 DEF Conclude, Exit
<1>27. CASE TakeError
  BY <1>27 DEF TakeError, Exit
<1>28. CASE Abandon
  BY <1>28 DEF Abandon, Exit
<1>29. CASE Interrupted
  BY <1>29 DEF Interrupted, Exit
<1>30. CASE Kill
  BY <1>30 DEF Kill, Exit
<1>31. CASE DaemonAnswers
  BY <1>31 DEF DaemonAnswers
<1>32. CASE Done
  BY <1>32 DEF Done
<1>. QED
  BY <1>1, <1>2, <1>3, <1>4, <1>5, <1>6, <1>7, <1>8, <1>9, <1>10, <1>11,
     <1>12, <1>13, <1>14, <1>15, <1>16, <1>17, <1>18, <1>19, <1>20, <1>21, <1>22,
     <1>23, <1>24, <1>25, <1>26, <1>27, <1>28, <1>29, <1>30, <1>31, <1>32
     DEF Next, Host, HostProgress, Elsewhere, ClientProgress

(* The invariant holds throughout. *)
THEOREM RunInvariance == Spec => []MInv
<1>1. Init => MInv
  BY DEF Init, MInv, TypeOK, CodeIsTruthful, SkippedIsUnchanged, Busy, KnownCodes,
     Killed, Running
<1>. QED
  BY <1>1, RunStep, PTL DEF Spec

(* An exit code the host accepts leaves no request running. *)
THEOREM RunCodeIsTruthful == Spec => []CodeIsTruthful
<1>1. MInv => CodeIsTruthful
  BY DEF MInv
<1>. QED
  BY <1>1, RunInvariance, PTL

(* A step of the run is a step of the lease contract, or none. *)
LEMMA RunKeepsLease == MInv /\ [Next]_vars => [B!Next]_(B!bvars)
<1>. SUFFICES ASSUME MInv, [Next]_vars PROVE [B!Next]_(B!bvars)
  OBVIOUS
<1>. USE DEF MInv, TypeOK, CodeIsTruthful, Busy, KnownCodes, Killed, Running, lease,
             cleanup, vars, B!bvars, B!Next, B!StartWork, B!EndWork, B!Complete,
             B!LeaveBody
<1>1. CASE UNCHANGED vars
  BY <1>1
<1>2. CASE Prepare
  BY <1>2 DEF Prepare
<1>3. CASE Create
  BY <1>3 DEF Create
<1>4. CASE Note
  BY <1>4 DEF Note
<1>5. CASE Start
  BY <1>5 DEF Start
<1>6. CASE StartReturns
  BY <1>6 DEF StartReturns
<1>7. CASE Bind
  BY <1>7 DEF Bind
<1>8. CASE WaitReturns
  BY <1>8 DEF WaitReturns
<1>9. CASE JudgeComplete
  BY <1>9 DEF JudgeComplete
<1>10. CASE JudgeUnresolved
  BY <1>10 DEF JudgeUnresolved
<1>11. CASE CloseRun
  BY <1>11 DEF CloseRun
<1>12. CASE Raise
  BY <1>12 DEF Raise
<1>13. CASE Leave
  BY <1>13 DEF Leave
<1>14. CASE Fail
  BY <1>14 DEF Fail
<1>15. CASE Crash
  BY <1>15 DEF Crash
<1>16. CASE Expire
  BY <1>16 DEF Expire
<1>17. CASE ContainerStarts
  BY <1>17 DEF ContainerStarts
<1>18. CASE StartRefused
  BY <1>18 DEF StartRefused
<1>19. CASE Decide
  BY <1>19 DEF Decide
<1>20. CASE GuardPasses
  BY <1>20 DEF GuardPasses
<1>21. CASE Send
  BY <1>21 DEF Send
<1>22. CASE Take
  BY <1>22 DEF Take
<1>23. CASE ReadFails
  BY <1>23 DEF ReadFails, Exit
<1>24. CASE GuardRefused
  BY <1>24 DEF GuardRefused, Exit
<1>25. CASE GuardTimeout
  BY <1>25 DEF GuardTimeout, Exit
<1>26. CASE Conclude
  BY <1>26 DEF Conclude, Exit
<1>27. CASE TakeError
  BY <1>27 DEF TakeError, Exit
<1>28. CASE Abandon
  BY <1>28 DEF Abandon, Exit
<1>29. CASE Interrupted
  BY <1>29 DEF Interrupted, Exit
<1>30. CASE Kill
  BY <1>30 DEF Kill, Exit
<1>31. CASE DaemonAnswers
  BY <1>31 DEF DaemonAnswers
<1>32. CASE Done
  BY <1>32 DEF Done
<1>. QED
  BY <1>1, <1>2, <1>3, <1>4, <1>5, <1>6, <1>7, <1>8, <1>9, <1>10, <1>11,
     <1>12, <1>13, <1>14, <1>15, <1>16, <1>17, <1>18, <1>19, <1>20, <1>21, <1>22,
     <1>23, <1>24, <1>25, <1>26, <1>27, <1>28, <1>29, <1>30, <1>31, <1>32
     DEF Next, Host, HostProgress, Elsewhere, ClientProgress

(* The run implements the lease contract. *)
THEOREM RunImplementsLeaseBody == Spec => ImplementsLeaseBody
<1>1. Init => B!Init
  BY DEF Init, B!Init, Busy
<1>. QED
  BY <1>1, RunKeepsLease, RunInvariance, PTL DEF Spec, B!Spec, ImplementsLeaseBody
=============================================================================
