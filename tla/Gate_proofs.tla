----------------------------- MODULE Gate_proofs -----------------------------
(***************************************************************************)
(* Proofs about Gate for every set of processes: its inductive invariant,  *)
(* the safety properties that follow from it, and that Gate implements     *)
(* Admission.  At the end, that a host with a real job and a real cleanup  *)
(* in it implements Gate, and what that gives for the two.                 *)
(***************************************************************************)
EXTENDS HostRun, TLAPS

USE Roles DEF Owners, Procs

(* A step keeps every variable in its type. *)
LEMMA TypeStep == TypeOK /\ [Next]_vars => TypeOK'
<1>. SUFFICES ASSUME TypeOK, [Next]_vars PROVE TypeOK'
  OBVIOUS
<1>. USE DEF TypeOK, locks, records, Goto, JobLabels, MaintLabels, BodyLabels, Phases
<1>1. ASSUME NEW p \in Procs, Crash(p) PROVE TypeOK'
  BY <1>1 DEF Crash
<1>2. ASSUME NEW p \in Procs, Recycle(p) PROVE TypeOK'
  BY <1>2 DEF Recycle
<1>3. ASSUME NEW p \in Owners, Ask(p) PROVE TypeOK'
  BY <1>3 DEF Ask
<1>4. ASSUME NEW p \in Owners, StartWork(p) PROVE TypeOK'
  BY <1>4 DEF StartWork
<1>5. ASSUME NEW p \in Owners, EndWork(p) PROVE TypeOK'
  BY <1>5 DEF EndWork
<1>6. ASSUME NEW p \in Owners, Complete(p) PROVE TypeOK'
  BY <1>6 DEF Complete
<1>7. ASSUME NEW p \in Owners, LeaveBody(p) PROVE TypeOK'
  BY <1>7 DEF LeaveBody
<1>8. ASSUME NEW p \in Owners, FinishEnter(p) PROVE TypeOK'
  BY <1>8 DEF FinishEnter, TakeAdmission
<1>9. ASSUME NEW p \in Owners, FinishTimeout(p) PROVE TypeOK'
  BY <1>9 DEF FinishTimeout, AdmissionTimeout
<1>10. ASSUME NEW p \in Owners, Close(p) PROVE TypeOK'
  BY <1>10 DEF Close
<1>11. ASSUME NEW j \in Jobs, FinaliseJob(j) PROVE TypeOK'
  BY <1>11 DEF FinaliseJob, WriteJob
<1>12. ASSUME NEW m \in Maints, FinaliseMaint(m) PROVE TypeOK'
  BY <1>12 DEF FinaliseMaint, RemoveMaint, NoRecord
<1>13. ASSUME NEW j \in Jobs, JobEnter(j) PROVE TypeOK'
  BY <1>13 DEF JobEnter, TakeAdmission
<1>14. ASSUME NEW j \in Jobs, JobUnavailable(j) PROVE TypeOK'
  BY <1>14 DEF JobUnavailable, AdmissionTimeout
<1>15. ASSUME NEW j \in Jobs, JobScan(j) PROVE TypeOK'
  BY <1>15 DEF JobScan, Blocked
<1>16. ASSUME NEW j \in Jobs, JobRetry(j) PROVE TypeOK'
  BY <1>16 DEF JobRetry, LeaveBlocked
<1>17. ASSUME NEW j \in Jobs, JobGivesUp(j) PROVE TypeOK'
  BY <1>17 DEF JobGivesUp, LeaveBlocked
<1>18. ASSUME NEW j \in Jobs, JobShare(j) PROVE TypeOK'
  BY <1>18 DEF JobShare
<1>19. ASSUME NEW j \in Jobs, JobShareTimeout(j) PROVE TypeOK'
  BY <1>19 DEF JobShareTimeout
<1>20. ASSUME NEW j \in Jobs, JobRecord(j) PROVE TypeOK'
  BY <1>20 DEF JobRecord, WriteJob
<1>21. ASSUME NEW j \in Jobs, JobRegister(j) PROVE TypeOK'
  BY <1>21 DEF JobRegister
<1>22. ASSUME NEW j \in Jobs, JobRegisterBlocked(j) PROVE TypeOK'
  BY <1>22 DEF JobRegisterBlocked
<1>23. ASSUME NEW m \in Maints, MaintEnter(m) PROVE TypeOK'
  BY <1>23 DEF MaintEnter, TakeAdmission
<1>24. ASSUME NEW m \in Maints, MaintUnavailable(m) PROVE TypeOK'
  BY <1>24 DEF MaintUnavailable, AdmissionTimeout
<1>25. ASSUME NEW m \in Maints, MaintRaise(m) PROVE TypeOK'
  BY <1>25 DEF MaintRaise
<1>26. ASSUME NEW m \in Maints, MaintRefused(m) PROVE TypeOK'
  BY <1>26 DEF MaintRefused
<1>27. ASSUME NEW m \in Maints, MaintAcquire(m) PROVE TypeOK'
  BY <1>27 DEF MaintAcquire
<1>28. ASSUME NEW m \in Maints, MaintDrainTimeout(m) PROVE TypeOK'
  BY <1>28 DEF MaintDrainTimeout
<1>29. ASSUME NEW m \in Maints, MaintWithdrawEnter(m) PROVE TypeOK'
  BY <1>29 DEF MaintWithdrawEnter, TakeAdmission
<1>30. ASSUME NEW m \in Maints, MaintWithdrawTimeout(m) PROVE TypeOK'
  BY <1>30 DEF MaintWithdrawTimeout, AdmissionTimeout
<1>31. ASSUME NEW m \in Maints, MaintWithdraw(m) PROVE TypeOK'
  BY <1>31 DEF MaintWithdraw, RemoveMaint, NoRecord
<1>32. ASSUME NEW m \in Maints, MaintGrantEnter(m) PROVE TypeOK'
  BY <1>32 DEF MaintGrantEnter, TakeAdmission
<1>33. ASSUME NEW m \in Maints, MaintGrantTimeout(m) PROVE TypeOK'
  BY <1>33 DEF MaintGrantTimeout, AdmissionTimeout
<1>34. ASSUME NEW m \in Maints, MaintGrant(m) PROVE TypeOK'
  BY <1>34 DEF MaintGrant, NoJobs
<1>35. ASSUME NEW m \in Maints, MaintGrantRefused(m) PROVE TypeOK'
  BY <1>35 DEF MaintGrantRefused
<1>36. ASSUME NEW r \in Reconcilers, ReconcileAsk(r) PROVE TypeOK'
  BY <1>36 DEF ReconcileAsk, Drained
<1>37. ASSUME NEW r \in Reconcilers, ReconcileEnter(r) PROVE TypeOK'
  BY <1>37 DEF ReconcileEnter, TakeAdmission
<1>38. ASSUME NEW r \in Reconcilers, ReconcileUnavailable(r) PROVE TypeOK'
  BY <1>38 DEF ReconcileUnavailable, AdmissionTimeout
<1>39. ASSUME NEW r \in Reconcilers, ReconcileAcquire(r) PROVE TypeOK'
  BY <1>39 DEF ReconcileAcquire
<1>40. ASSUME NEW r \in Reconcilers, ReconcileTimeout(r) PROVE TypeOK'
  BY <1>40 DEF ReconcileTimeout
<1>41. ASSUME NEW r \in Reconcilers, ReconcileApply(r) PROVE TypeOK'
  BY <1>41 DEF ReconcileApply, WriteJob, RemoveMaint, NoRecord
<1>42. ASSUME NEW o \in Observers, Probe(o) PROVE TypeOK'
  BY <1>42 DEF Probe
<1>43. ASSUME NEW o \in Observers, ProbeEnd(o) PROVE TypeOK'
  BY <1>43 DEF ProbeEnd
<1>44. ASSUME NEW m \in Maints, MaintInterrupted(m) PROVE TypeOK'
  BY <1>44 DEF MaintInterrupted
<1>45. ASSUME NEW m \in Maints, MaintNoteEnter(m) PROVE TypeOK'
  BY <1>45 DEF MaintNoteEnter, TakeAdmission
<1>46. ASSUME NEW m \in Maints, MaintNote(m) PROVE TypeOK'
  BY <1>46 DEF MaintNote
<1>48. ASSUME NEW m \in Maints, MaintNoteFails(m) PROVE TypeOK'
  BY <1>48 DEF MaintNoteFails
<1>47. CASE UNCHANGED vars
  BY <1>47 DEF vars
<1>. QED
  BY <1>1, <1>2, <1>3, <1>4, <1>5, <1>6, <1>7, <1>8, <1>9, <1>10, <1>11, <1>12,
       <1>13, <1>14, <1>15, <1>16, <1>17, <1>18, <1>19, <1>20, <1>21, <1>22, <1>23,
       <1>24, <1>25, <1>26, <1>27, <1>28, <1>29, <1>30, <1>31, <1>32, <1>33, <1>34,
       <1>35, <1>36, <1>37, <1>38, <1>39, <1>40, <1>41, <1>42, <1>43, <1>44, <1>45,
     <1>46, <1>47, <1>48
     DEF Next, Outside, Naming, Body, Finish, JobAdmission, MaintAdmission, Reconcile

(* A step keeps the inductive invariant. *)
LEMMA InvStep == IInv /\ [Next]_vars => IInv'
<1>. SUFFICES ASSUME IInv, [Next]_vars PROVE IInv'
  OBVIOUS
<1>. TypeOK /\ TypeOK'
  BY TypeStep DEF IInv
<1>. USE DEF TypeOK, AdmissionInv, SharedInv, ExclusiveInv, MaintRecordInv,
         JobRecordInv, GrantInv, BusyInv, BusyIsRecorded, TargetInv,
         RegistrationInv, locks, records, Goto, JobLabels, MaintLabels, BodyLabels, Phases,
         Admitted, JobHolds, MaintHolds, Afterwards, HasRecord, NoJobs, IInv
<1>1. ASSUME NEW p \in Procs, Crash(p) PROVE IInv'
  BY <1>1 DEF Crash
<1>2. ASSUME NEW p \in Procs, Recycle(p) PROVE IInv'
  <2>0. p \notin busy
    BY <1>2 DEF Recycle
  <2>1. AdmissionInv'
    BY <1>2, <2>0 DEF Recycle
  <2>2. SharedInv'
    BY <1>2, <2>0 DEF Recycle
  <2>3. ExclusiveInv'
    BY <1>2, <2>0 DEF Recycle
  <2>4. MaintRecordInv'
    BY <1>2, <2>0 DEF Recycle
  <2>5. JobRecordInv'
    BY <1>2, <2>0 DEF Recycle
  <2>6. GrantInv'
    BY <1>2, <2>0 DEF Recycle
  <2>7. BusyInv'
    <3>. SUFFICES ASSUME NEW q \in busy
                  PROVE (HasRecord(q) /\ pc[q] \in Afterwards /\ ~known[q])'
      BY <1>2 DEF Recycle
    <3>1. q # p /\ q \in Owners
      BY <2>0
    <3>2. pc'[q] = pc[q] /\ known'[q] = known[q] /\ jobs' = jobs /\ maint' = maint
      BY <1>2, <3>1 DEF Recycle
    <3>. QED
      BY <3>1, <3>2
  <2>8. TargetInv'
    BY <1>2, <2>0 DEF Recycle
  <2>9. RegistrationInv'
    BY <1>2 DEF Recycle
  <2>. HIDE DEF TypeOK, AdmissionInv, SharedInv, ExclusiveInv, MaintRecordInv,
       JobRecordInv, GrantInv, BusyInv, TargetInv, RegistrationInv
  <2>. QED
    BY <2>1, <2>2, <2>3, <2>4, <2>5, <2>6, <2>7, <2>8, <2>9 DEF IInv
<1>3. ASSUME NEW p \in Owners, Ask(p) PROVE IInv'
  BY <1>3 DEF Ask
<1>4. ASSUME NEW p \in Owners, StartWork(p) PROVE IInv'
  BY <1>4 DEF StartWork
<1>5. ASSUME NEW p \in Owners, EndWork(p) PROVE IInv'
  BY <1>5 DEF EndWork
<1>6. ASSUME NEW p \in Owners, Complete(p) PROVE IInv'
  BY <1>6 DEF Complete
<1>7. ASSUME NEW p \in Owners, LeaveBody(p) PROVE IInv'
  BY <1>7 DEF LeaveBody
<1>8. ASSUME NEW p \in Owners, FinishEnter(p) PROVE IInv'
  BY <1>8 DEF FinishEnter, TakeAdmission
<1>9. ASSUME NEW p \in Owners, FinishTimeout(p) PROVE IInv'
  BY <1>9 DEF FinishTimeout, AdmissionTimeout
<1>10. ASSUME NEW p \in Owners, Close(p) PROVE IInv'
  BY <1>10 DEF Close
<1>11. ASSUME NEW j \in Jobs, FinaliseJob(j) PROVE IInv'
  BY <1>11 DEF FinaliseJob, WriteJob
<1>12. ASSUME NEW m \in Maints, FinaliseMaint(m) PROVE IInv'
  BY <1>12 DEF FinaliseMaint, RemoveMaint, NoRecord
<1>13. ASSUME NEW j \in Jobs, JobEnter(j) PROVE IInv'
  BY <1>13 DEF JobEnter, TakeAdmission
<1>14. ASSUME NEW j \in Jobs, JobUnavailable(j) PROVE IInv'
  BY <1>14 DEF JobUnavailable, AdmissionTimeout
<1>15. ASSUME NEW j \in Jobs, JobScan(j) PROVE IInv'
  BY <1>15 DEF JobScan, Blocked
<1>16. ASSUME NEW j \in Jobs, JobRetry(j) PROVE IInv'
  BY <1>16 DEF JobRetry, LeaveBlocked
<1>17. ASSUME NEW j \in Jobs, JobGivesUp(j) PROVE IInv'
  BY <1>17 DEF JobGivesUp, LeaveBlocked
<1>18. ASSUME NEW j \in Jobs, JobShare(j) PROVE IInv'
  BY <1>18 DEF JobShare
<1>19. ASSUME NEW j \in Jobs, JobShareTimeout(j) PROVE IInv'
  BY <1>19 DEF JobShareTimeout
<1>20. ASSUME NEW j \in Jobs, JobRecord(j) PROVE IInv'
  BY <1>20 DEF JobRecord, WriteJob
<1>21. ASSUME NEW j \in Jobs, JobRegister(j) PROVE IInv'
  BY <1>21 DEF JobRegister
<1>22. ASSUME NEW j \in Jobs, JobRegisterBlocked(j) PROVE IInv'
  BY <1>22 DEF JobRegisterBlocked
<1>23. ASSUME NEW m \in Maints, MaintEnter(m) PROVE IInv'
  BY <1>23 DEF MaintEnter, TakeAdmission
<1>24. ASSUME NEW m \in Maints, MaintUnavailable(m) PROVE IInv'
  BY <1>24 DEF MaintUnavailable, AdmissionTimeout
<1>25. ASSUME NEW m \in Maints, MaintRaise(m) PROVE IInv'
  BY <1>25 DEF MaintRaise
<1>26. ASSUME NEW m \in Maints, MaintRefused(m) PROVE IInv'
  BY <1>26 DEF MaintRefused
<1>27. ASSUME NEW m \in Maints, MaintAcquire(m) PROVE IInv'
  BY <1>27 DEF MaintAcquire
<1>28. ASSUME NEW m \in Maints, MaintDrainTimeout(m) PROVE IInv'
  BY <1>28 DEF MaintDrainTimeout
<1>29. ASSUME NEW m \in Maints, MaintWithdrawEnter(m) PROVE IInv'
  BY <1>29 DEF MaintWithdrawEnter, TakeAdmission
<1>30. ASSUME NEW m \in Maints, MaintWithdrawTimeout(m) PROVE IInv'
  BY <1>30 DEF MaintWithdrawTimeout, AdmissionTimeout
<1>31. ASSUME NEW m \in Maints, MaintWithdraw(m) PROVE IInv'
  BY <1>31 DEF MaintWithdraw, RemoveMaint, NoRecord
<1>32. ASSUME NEW m \in Maints, MaintGrantEnter(m) PROVE IInv'
  BY <1>32 DEF MaintGrantEnter, TakeAdmission
<1>33. ASSUME NEW m \in Maints, MaintGrantTimeout(m) PROVE IInv'
  BY <1>33 DEF MaintGrantTimeout, AdmissionTimeout
<1>34. ASSUME NEW m \in Maints, MaintGrant(m) PROVE IInv'
  BY <1>34 DEF MaintGrant, NoJobs
<1>35. ASSUME NEW m \in Maints, MaintGrantRefused(m) PROVE IInv'
  BY <1>35 DEF MaintGrantRefused
<1>36. ASSUME NEW r \in Reconcilers, ReconcileAsk(r) PROVE IInv'
  BY <1>36 DEF ReconcileAsk, Drained
<1>37. ASSUME NEW r \in Reconcilers, ReconcileEnter(r) PROVE IInv'
  BY <1>37 DEF ReconcileEnter, TakeAdmission
<1>38. ASSUME NEW r \in Reconcilers, ReconcileUnavailable(r) PROVE IInv'
  BY <1>38 DEF ReconcileUnavailable, AdmissionTimeout
<1>39. ASSUME NEW r \in Reconcilers, ReconcileAcquire(r) PROVE IInv'
  BY <1>39 DEF ReconcileAcquire
<1>40. ASSUME NEW r \in Reconcilers, ReconcileTimeout(r) PROVE IInv'
  BY <1>40 DEF ReconcileTimeout
<1>41. ASSUME NEW r \in Reconcilers, ReconcileApply(r) PROVE IInv'
  BY <1>41 DEF ReconcileApply, WriteJob, RemoveMaint, NoRecord
<1>42. ASSUME NEW o \in Observers, Probe(o) PROVE IInv'
  BY <1>42 DEF Probe
<1>43. ASSUME NEW o \in Observers, ProbeEnd(o) PROVE IInv'
  BY <1>43 DEF ProbeEnd
<1>44. ASSUME NEW m \in Maints, MaintInterrupted(m) PROVE IInv'
  BY <1>44 DEF MaintInterrupted
<1>45. ASSUME NEW m \in Maints, MaintNoteEnter(m) PROVE IInv'
  BY <1>45 DEF MaintNoteEnter, TakeAdmission
<1>46. ASSUME NEW m \in Maints, MaintNote(m) PROVE IInv'
  BY <1>46 DEF MaintNote
<1>48. ASSUME NEW m \in Maints, MaintNoteFails(m) PROVE IInv'
  BY <1>48 DEF MaintNoteFails
<1>47. CASE UNCHANGED vars
  BY <1>47 DEF vars
<1>. QED
  BY <1>1, <1>2, <1>3, <1>4, <1>5, <1>6, <1>7, <1>8, <1>9, <1>10, <1>11, <1>12,
       <1>13, <1>14, <1>15, <1>16, <1>17, <1>18, <1>19, <1>20, <1>21, <1>22, <1>23,
       <1>24, <1>25, <1>26, <1>27, <1>28, <1>29, <1>30, <1>31, <1>32, <1>33, <1>34,
       <1>35, <1>36, <1>37, <1>38, <1>39, <1>40, <1>41, <1>42, <1>43, <1>44, <1>45,
     <1>46, <1>47, <1>48
     DEF Next, Outside, Naming, Body, Finish, JobAdmission, MaintAdmission, Reconcile

(* The invariant holds when nothing has run yet.                            *)
LEMMA InitInv == Init => IInv
  BY DEF Init, IInv, TypeOK, AdmissionInv, SharedInv, ExclusiveInv, MaintRecordInv,
     JobRecordInv, GrantInv, BusyInv, BusyIsRecorded, TargetInv, RegistrationInv, NoRecord, Admitted,
     JobHolds, MaintHolds, Afterwards, JobLabels, MaintLabels, BodyLabels, Phases

(* The invariant holds throughout. *)
THEOREM Invariance == Spec => []IInv
<1>. QED
  BY InitInv, InvStep, PTL DEF Spec

(* Every variable keeps its type. *)
THEOREM TypeCorrect == Spec => []TypeOK
<1>1. IInv => TypeOK
  BY DEF IInv
<1>. QED
  BY <1>1, Invariance, PTL

(* While a cleanup works, nobody else does: its record is the one in        *)
(* maintenance.json, and no job has one.                                    *)
LEMMA ExclusiveWork == IInv => WorkExclusion
<1>. SUFFICES ASSUME IInv, NEW m \in Maints \cap busy, NEW p \in busy
              PROVE p = m
  BY DEF WorkExclusion
<1>1. maint.id = m /\ NoJobs
  BY DEF IInv, BusyInv, BusyIsRecorded, HasRecord, GrantInv
<1>2. HasRecord(p) /\ p \in Owners
  BY DEF IInv, BusyInv, BusyIsRecorded, TypeOK
<1>. QED
  BY <1>1, <1>2 DEF HasRecord, NoJobs

(* Cleanup work never overlaps a job's work or another cleanup's, for any   *)
(* number of processes, crashes and reconciliations.                        *)
THEOREM WorkIsExclusive == Spec => []WorkExclusion
  BY ExclusiveWork, Invariance, PTL

(* No record is cleared while the work it stands for goes on. *)
THEOREM BusyStaysRecorded == Spec => []BusyIsRecorded
<1>1. IInv => BusyIsRecorded
  BY DEF IInv, BusyInv
<1>. QED
  BY <1>1, Invariance, PTL

(* Finalisation and withdrawal find the record they wrote. *)
THEOREM FinalisesOwnRecord == Spec => []OwnRecord
<1>1. IInv => OwnRecord
  BY DEF IInv, OwnRecord, MaintRecordInv, JobRecordInv, MaintHolds
<1>. QED
  BY <1>1, Invariance, PTL

(* Whoever awaits the shared lock awaits somebody who is about to close.     *)
LEMMA SharingEnds ==
    ASSUME IInv, NEW j \in Jobs, pc[j] = "sharing", exclusive # None
    PROVE  pc[exclusive] = "closing"
<1>1. maint.id = None /\ admission = j
  BY DEF IInv, MaintRecordInv, AdmissionInv, Admitted
<1>2. CASE exclusive \in Maints
  BY <1>1, <1>2 DEF IInv, ExclusiveInv, MaintRecordInv, MaintHolds
<1>3. CASE exclusive \in Reconcilers
  BY <1>1, <1>3 DEF IInv, ExclusiveInv, AdmissionInv, Admitted
<1>. QED
  BY <1>2, <1>3 DEF IInv, ExclusiveInv

(* Processes that wait for one another, each for another of them, include a *)
(* reconcile that waits for activity.lock under admission.lock.             *)
THEOREM DeadlocksNeedReconcile == Spec => []DeadlockNeedsReconcile
<1>1. IInv => DeadlockNeedsReconcile
  <2>. SUFFICES ASSUME IInv, NEW S \in SUBSET Procs, S # {},
                       \A p \in S : \E q \in S : Awaits(p, q),
                       \A r \in S \cap Reconcilers : pc[r] # "quiescing"
                PROVE  FALSE
    BY DEF DeadlockNeedsReconcile
  <2>. None \notin S
    OBVIOUS
  <2>1. ASSUME NEW p \in S PROVE pc[p] # "quiescing"
    BY <2>1 DEF IInv, TypeOK, JobLabels, MaintLabels, BodyLabels
  <2>2. ASSUME NEW p \in S, pc[p] = "sharing" PROVE FALSE
    <3>1. p \in Jobs
      BY <2>2 DEF IInv, TypeOK, MaintLabels, BodyLabels
    <3>2. exclusive \in S
      BY <2>2 DEF Awaits
    <3>3. pc[exclusive] = "closing"
      BY <2>2, <3>1, <3>2, SharingEnds
    <3>. QED
      BY <3>2, <3>3 DEF Awaits
  <2>3. admission \notin S
    <3>. SUFFICES ASSUME admission \in S PROVE FALSE
      OBVIOUS
    <3>1. pc[admission] \in Admitted
      BY DEF IInv, AdmissionInv
    <3>2. pc[admission] \in {"sharing", "quiescing"}
      BY <3>1 DEF Awaits, Admitted
    <3>. QED
      BY <2>1, <2>2, <3>2
  <2>4. ASSUME NEW p \in S PROVE pc[p] = "draining" /\ \E q \in S : q \in shared \cup {exclusive}
    BY <2>1, <2>2, <2>3 DEF Awaits
  <2>5. PICK q \in S : q \in shared \cup {exclusive}
    BY <2>4
  <2>6. pc[q] = "draining"
    BY <2>4
  <2>7. CASE q \in shared
    BY <2>6, <2>7 DEF IInv, SharedInv, TypeOK, JobHolds
  <2>8. CASE q = exclusive
    BY <2>6, <2>8 DEF IInv, ExclusiveInv, MaintHolds
  <2>. QED
    BY <2>5, <2>7, <2>8
<1>. QED
  BY <1>1, Invariance, PTL

(* After the drain, only dead or uncertain jobs are left on record. *)
THEOREM RefusalHasCause == Spec => []RefusedOnlyForUnresolved
<1>1. IInv => RefusedOnlyForUnresolved
  BY DEF IInv, RefusedOnlyForUnresolved, HasRecord, Unresolved, ExclusiveInv, SharedInv,
     JobRecordInv, MaintHolds, JobHolds, Afterwards, AdmissionInv, Admitted
<1>. QED
  BY <1>1, Invariance, PTL

(* Only JobScan takes a job past the scan, and it finds nothing blocking. *)
LEMMA ScanIsClear ==
    ASSUME TypeOK, [Next]_vars, NEW j \in Jobs, pc[j] = "scanning", pc'[j] = "sharing"
    PROVE  ~Blocked
<1>. USE DEF TypeOK, Goto
<1>1. CASE UNCHANGED vars
  BY <1>1 DEF vars
<1>2. ASSUME NEW p \in Procs, Crash(p) \/ Recycle(p) PROVE FALSE
  BY <1>2 DEF Crash, Recycle
<1>3. ASSUME NEW p \in Owners, Ask(p) \/ Body(p) PROVE FALSE
  BY <1>3 DEF Ask, Body, StartWork, EndWork, Complete, LeaveBody
<1>4. ASSUME NEW p \in Owners, Finish(p) PROVE FALSE
  BY <1>4 DEF Finish, FinishEnter, FinishTimeout, Close, FinaliseJob, FinaliseMaint,
     TakeAdmission, AdmissionTimeout
<1>5. ASSUME NEW k \in Jobs, JobAdmission(k) PROVE ~Blocked
  BY <1>5 DEF JobAdmission, JobEnter, JobUnavailable, JobScan, JobRetry, JobGivesUp,
     LeaveBlocked, JobShare, JobShareTimeout, JobRecord, JobRegister,
     JobRegisterBlocked, TakeAdmission, AdmissionTimeout
<1>6. ASSUME NEW m \in Maints, MaintAdmission(m) \/ MaintInterrupted(m) PROVE FALSE
  BY <1>6 DEF MaintInterrupted, MaintAdmission, MaintEnter, MaintUnavailable, MaintRaise, MaintRefused,
     MaintAcquire, MaintDrainTimeout, MaintWithdrawEnter, MaintWithdrawTimeout,
     MaintWithdraw, MaintGrantEnter, MaintGrantTimeout, MaintGrant, MaintGrantRefused,
     TakeAdmission, AdmissionTimeout
<1>7. ASSUME NEW r \in Reconcilers, Reconcile(r) PROVE FALSE
  BY <1>7 DEF Reconcile, ReconcileAsk, ReconcileEnter, ReconcileUnavailable,
     ReconcileAcquire, ReconcileTimeout, ReconcileApply, TakeAdmission, AdmissionTimeout
<1>8. ASSUME NEW o \in Observers, Probe(o) \/ ProbeEnd(o) PROVE FALSE
  BY <1>8 DEF Probe, ProbeEnd
<1>9. ASSUME NEW m \in Maints, Naming(m) PROVE FALSE
  BY <1>9 DEF Naming, MaintNoteEnter, MaintNote, MaintNoteFails, TakeAdmission
<1>. QED
  BY <1>1, <1>2, <1>3, <1>4, <1>5, <1>6, <1>7, <1>8, <1>9 DEF Next, Outside

(* A job that gets past the record of an ended process has been misled by a *)
(* probe of its lock, whatever the number of `status` processes.            *)
THEOREM OnlyProbesMislead == Spec => UnresolvedNeedsProbe
<1>1. IInv /\ [Next]_vars =>
          [\A j \in Jobs : pc[j] = "scanning" /\ pc'[j] = "sharing"
              => \A p \in Owners : Unresolved(p) => p \in Jobs /\ registration[p] \in Observers]_vars
  <2>. SUFFICES ASSUME IInv, [Next]_vars, NEW j \in Jobs, pc[j] = "scanning",
                       pc'[j] = "sharing", NEW p \in Owners, Unresolved(p)
                PROVE p \in Jobs /\ registration[p] \in Observers
    OBVIOUS
  <2>1. ~Blocked
    BY ScanIsClear DEF IInv
  <2>2. p \in Jobs
    BY <2>1 DEF Blocked, Unresolved, HasRecord
  <2>3. registration[p] # None
    BY <2>1, <2>2 DEF Blocked, LooksUnresolved, Unresolved, HasRecord
  <2>. QED
    BY <2>2, <2>3 DEF IInv, RegistrationInv, Unresolved, JobHolds
<1>. QED
  BY <1>1, Invariance, PTL DEF Spec, UnresolvedNeedsProbe

(* Without a `status` process no job is admitted past the record of a dead  *)
(* process.  The assumption is needed: a probe makes the dead job look      *)
(* alive.                                                                   *)
THEOREM UnresolvedBlocksJobs ==
    ASSUME Observers = {} PROVE Spec => UnresolvedBlocks
<1>1. [\A j \in Jobs : pc[j] = "scanning" /\ pc'[j] = "sharing"
           => \A p \in Owners : Unresolved(p) => p \in Jobs /\ registration[p] \in Observers]_vars
      => [\A j \in Jobs : pc[j] = "scanning" /\ pc'[j] = "sharing"
              => \A p \in Owners : ~Unresolved(p)]_vars
  OBVIOUS
<1>. QED
  BY <1>1, OnlyProbesMislead, PTL DEF UnresolvedNeedsProbe, UnresolvedBlocks

(* What a step of anybody does to the record of an ended process.           *)
LEMMA EndedKeepsRecord ==
    ASSUME IInv, [Next]_vars, NEW p \in Owners, Unresolved(p), ~HasRecord(p)'
    PROVE  \E r \in Reconcilers : pc[r] = "auditing" /\ target[r] = p
<1>. USE DEF IInv, TypeOK, Goto, HasRecord, Unresolved, NoRecord
<1>1. CASE UNCHANGED records
  BY <1>1 DEF records
<1>2. ASSUME NEW r \in Reconcilers, ReconcileApply(r)
      PROVE  pc[r] = "auditing" /\ target[r] = p
  BY <1>2 DEF ReconcileApply, WriteJob, RemoveMaint
<1>3. ASSUME NEW j \in Jobs, JobRecord(j) PROVE FALSE
  BY <1>3 DEF JobRecord, WriteJob
<1>4. ASSUME NEW j \in Jobs, FinaliseJob(j) PROVE FALSE
  BY <1>4 DEF FinaliseJob, WriteJob
<1>5. ASSUME NEW m \in Maints, MaintRaise(m) PROVE FALSE
  BY <1>5 DEF MaintRaise
<1>6. ASSUME NEW m \in Maints, MaintWithdraw(m) PROVE FALSE
  BY <1>6 DEF MaintWithdraw, RemoveMaint
<1>7. ASSUME NEW m \in Maints, MaintGrant(m) \/ Naming(m) \/ MaintInterrupted(m) PROVE FALSE
  BY <1>7 DEF MaintGrant, Naming, MaintNoteEnter, MaintNote, MaintNoteFails, MaintInterrupted,
     TakeAdmission, records, MaintRecordInv, MaintHolds
<1>8. ASSUME NEW m \in Maints, FinaliseMaint(m) PROVE FALSE
  BY <1>8 DEF FinaliseMaint, RemoveMaint, MaintRecordInv, MaintHolds
<1>9. ASSUME NEW q \in Procs, Crash(q) \/ Recycle(q) PROVE UNCHANGED records
  BY <1>9 DEF Crash, Recycle
<1>10. ASSUME NEW q \in Owners, Ask(q) \/ Body(q) \/ FinishEnter(q) \/ FinishTimeout(q) \/ Close(q)
       PROVE  UNCHANGED records
  BY <1>10 DEF Ask, Body, StartWork, EndWork, Complete, LeaveBody, FinishEnter,
     FinishTimeout, Close, TakeAdmission, AdmissionTimeout
<1>11. ASSUME NEW j \in Jobs, JobAdmission(j), ~JobRecord(j) PROVE UNCHANGED records
  BY <1>11 DEF JobAdmission, JobEnter, JobUnavailable, JobScan, JobRetry, JobGivesUp,
     LeaveBlocked, JobShare, JobShareTimeout, JobRegister, JobRegisterBlocked,
     TakeAdmission, AdmissionTimeout
<1>12. ASSUME NEW m \in Maints, MaintAdmission(m), ~MaintRaise(m), ~MaintWithdraw(m), ~MaintGrant(m)
       PROVE  UNCHANGED records
  BY <1>12 DEF MaintAdmission, MaintEnter, MaintUnavailable, MaintRefused, MaintAcquire,
     MaintDrainTimeout, MaintWithdrawEnter, MaintWithdrawTimeout, MaintGrantEnter,
     MaintGrantTimeout, MaintGrantRefused, TakeAdmission, AdmissionTimeout, records
<1>13. ASSUME NEW r \in Reconcilers, Reconcile(r), ~ReconcileApply(r) PROVE UNCHANGED records
  BY <1>13 DEF Reconcile, ReconcileAsk, ReconcileEnter, ReconcileUnavailable,
     ReconcileAcquire, ReconcileTimeout, TakeAdmission, AdmissionTimeout
<1>14. ASSUME NEW o \in Observers, Probe(o) \/ ProbeEnd(o) PROVE UNCHANGED records
  BY <1>14 DEF Probe, ProbeEnd
<1>15. CASE UNCHANGED vars
  BY <1>15, <1>1 DEF vars, records
<1>. QED
  BY <1>1, <1>2, <1>3, <1>4, <1>5, <1>6, <1>7, <1>8, <1>9, <1>10, <1>11, <1>12, <1>13, <1>14,
     <1>15 DEF Next, Outside, Naming, Finish

(* The record of an ended process goes only with an operator's audit of it. *)
THEOREM RecordsOutliveProcesses == Spec => UnresolvedStays
<1>1. IInv /\ [Next]_vars =>
          [\A p \in Owners : Unresolved(p) /\ ~HasRecord(p)'
               => \E r \in Reconcilers : pc[r] = "auditing" /\ target[r] = p]_vars
  BY EndedKeepsRecord
<1>. QED
  BY <1>1, Invariance, PTL DEF Spec, UnresolvedStays

(* From the announcement of a maintenance run on, no job enters.            *)
THEOREM DrainAdmitsNobody == Spec => DrainIsClosed
<1>1. IInv /\ [Next]_vars => [maint.id # None => shared' \subseteq shared]_vars
  <2>. SUFFICES ASSUME IInv, [Next]_vars, maint.id # None PROVE shared' \subseteq shared
    OBVIOUS
  <2>1. ASSUME NEW j \in Jobs, JobAdmission(j) PROVE shared' \subseteq shared
    BY <2>1 DEF JobAdmission, JobEnter, JobUnavailable, JobScan, JobRetry, JobGivesUp,
       LeaveBlocked, JobShare, JobShareTimeout, JobRecord, JobRegister, JobRegisterBlocked,
       TakeAdmission, AdmissionTimeout, locks, IInv, MaintRecordInv
  <2>2. ASSUME NEW m \in Maints, MaintAdmission(m) \/ MaintInterrupted(m) \/ Naming(m)
        PROVE  shared' \subseteq shared
    BY <2>2 DEF MaintAdmission, MaintEnter, MaintUnavailable, MaintRaise, MaintRefused,
       MaintAcquire, MaintDrainTimeout, MaintWithdrawEnter, MaintWithdrawTimeout, MaintWithdraw,
       MaintGrantEnter, MaintGrantTimeout, MaintGrant, MaintGrantRefused, MaintInterrupted,
       Naming, MaintNoteEnter, MaintNote, MaintNoteFails, TakeAdmission, AdmissionTimeout, locks
  <2>3. ASSUME NEW p \in Procs, Crash(p) \/ Recycle(p) PROVE shared' \subseteq shared
    BY <2>3 DEF Crash, Recycle, locks
  <2>4. ASSUME NEW p \in Owners, Ask(p) \/ Body(p) \/ Finish(p) PROVE shared' \subseteq shared
    BY <2>4 DEF Ask, Body, StartWork, EndWork, Complete, LeaveBody, Finish, FinishEnter,
       FinishTimeout, Close, FinaliseJob, FinaliseMaint, TakeAdmission, AdmissionTimeout, locks
  <2>5. ASSUME NEW r \in Reconcilers, Reconcile(r) PROVE shared' \subseteq shared
    BY <2>5 DEF Reconcile, ReconcileAsk, ReconcileEnter, ReconcileUnavailable, ReconcileAcquire,
       ReconcileTimeout, ReconcileApply, TakeAdmission, AdmissionTimeout, locks
  <2>6. ASSUME NEW o \in Observers, Probe(o) \/ ProbeEnd(o) PROVE shared' \subseteq shared
    BY <2>6 DEF Probe, ProbeEnd
  <2>7. CASE UNCHANGED vars
    BY <2>7 DEF vars
  <2>. QED
    BY <2>1, <2>2, <2>3, <2>4, <2>5, <2>6, <2>7 DEF Next, Outside
<1>. QED
  BY <1>1, Invariance, PTL DEF Spec, DrainIsClosed

(* Every step of the gate is an abstract step or none. *)
LEMMA StepRefines == IInv /\ [Next]_vars => [A!Next]_(A!avars)
<1>. SUFFICES ASSUME IInv, [Next]_vars PROVE [A!Next]_(A!avars)
  OBVIOUS
<1>. TypeOK
  BY DEF IInv
<1>. USE DEF TypeOK, locks, records, Goto, A!avars
<1>1. CASE UNCHANGED vars
  BY <1>1 DEF vars, Leased
<1>2. ASSUME NEW p \in Procs, Crash(p) PROVE [A!Next]_(A!avars)
  <2>1. CASE p \in Owners /\ pc[p] \in {"working", "noting"}
    <3>1. A!Revoke(p)
      BY <1>2, <2>1 DEF Crash, Leased, A!Revoke
    <3>. QED
      BY <2>1, <3>1 DEF A!Next
  <2>2. CASE ~(p \in Owners /\ pc[p] \in {"working", "noting"})
    BY <1>2, <2>2 DEF Crash, Leased
  <2>. QED
    BY <2>1, <2>2
<1>3. ASSUME NEW p \in Procs, Recycle(p) PROVE UNCHANGED A!avars
  BY <1>3 DEF Recycle, Leased
<1>4. ASSUME NEW p \in Owners, Ask(p) PROVE UNCHANGED A!avars
  BY <1>4 DEF Ask, Leased
<1>5. ASSUME NEW p \in Owners, Body(p) PROVE A!Next
  <2>1. CASE StartWork(p)
    BY <2>1 DEF StartWork, Leased, A!Start, A!Next
  <2>2. CASE EndWork(p)
    BY <2>2 DEF EndWork, Leased, A!End, A!Next
  <2>3. CASE Complete(p)
    BY <2>3 DEF Complete, Leased, A!Revoke, A!Next
  <2>4. CASE LeaveBody(p)
    BY <2>4 DEF LeaveBody, Leased, A!Revoke, A!Next
  <2>. QED
    BY <1>5, <2>1, <2>2, <2>3, <2>4 DEF Body
<1>6. ASSUME NEW p \in Owners, Finish(p) PROVE [A!Next]_(A!avars)
  <2>1. CASE FinishEnter(p) \/ FinishTimeout(p) \/ Close(p)
    BY <2>1 DEF FinishEnter, FinishTimeout, Close, TakeAdmission, AdmissionTimeout, Leased
  <2>2. CASE p \in Jobs /\ FinaliseJob(p)
    <3>1. CASE known[p]
      <4>1. p \notin busy /\ p \notin Leased
        BY <2>2, <3>1 DEF IInv, BusyInv, FinaliseJob, Leased
      <4>2. A!Clear(p)
        BY <2>2, <3>1, <4>1 DEF FinaliseJob, WriteJob, A!Clear, Leased
      <4>. QED
        BY <2>2, <4>2 DEF A!Next
    <3>2. CASE ~known[p]
      <4>1. jobs[p] # "none"
        BY <2>2 DEF IInv, JobRecordInv, FinaliseJob
      <4>. QED
        BY <2>2, <3>2, <4>1 DEF FinaliseJob, WriteJob, Leased
    <3>. QED
      BY <3>1, <3>2
  <2>3. CASE p \in Maints /\ FinaliseMaint(p)
    <3>1. maint.id = p
      BY <2>3 DEF IInv, MaintRecordInv, MaintHolds, FinaliseMaint
    <3>2. CASE known[p]
      <4>1. p \notin busy /\ p \notin Leased
        BY <2>3, <3>2 DEF IInv, BusyInv, FinaliseMaint, Leased
      <4>2. A!Clear(p)
        BY <2>3, <3>1, <3>2, <4>1 DEF FinaliseMaint, RemoveMaint, NoRecord, A!Clear, Leased
      <4>. QED
        BY <2>3, <4>2 DEF A!Next
    <3>3. CASE ~known[p]
      BY <2>3, <3>1, <3>3 DEF FinaliseMaint, Leased
    <3>. QED
      BY <3>2, <3>3
  <2>. QED
    BY <1>6, <2>1, <2>2, <2>3 DEF Finish
<1>7. ASSUME NEW j \in Jobs, JobAdmission(j) PROVE [A!Next]_(A!avars)
  <2>1. CASE JobRecord(j)
    <3>1. jobs[j] = "none" /\ maint.id = None
      BY <2>1 DEF IInv, JobRecordInv, MaintRecordInv, Afterwards, JobRecord
    <3>2. A!Open(j)
      BY <2>1, <3>1 DEF JobRecord, WriteJob, A!Open, Leased
    <3>. QED
      BY <3>2 DEF A!Next
  <2>2. CASE JobRegister(j)
    <3>1. jobs[j] # "none"
      BY <2>2 DEF IInv, JobRecordInv, JobRegister
    <3>2. A!Grant(j) \/ UNCHANGED A!avars
      BY <2>2, <3>1 DEF JobRegister, A!Grant, A!Recorded, Leased
    <3>. QED
      BY <3>2 DEF A!Next
  <2>3. CASE ~JobRecord(j) /\ ~JobRegister(j)
    BY <1>7, <2>3 DEF JobAdmission, JobEnter, JobUnavailable, JobScan, JobRetry,
       JobGivesUp, LeaveBlocked, JobShare, JobShareTimeout, JobRegisterBlocked,
       TakeAdmission, AdmissionTimeout, Leased
  <2>. QED
    BY <2>1, <2>2, <2>3
<1>8. ASSUME NEW m \in Maints, MaintAdmission(m) PROVE [A!Next]_(A!avars)
  <2>1. CASE MaintRaise(m)
    BY <2>1 DEF MaintRaise, A!Raise, A!Next, Leased
  <2>2. CASE MaintWithdraw(m)
    <3>1. m \notin busy /\ m \notin Leased
      BY <2>2 DEF IInv, BusyInv, Afterwards, MaintWithdraw, Leased
    <3>2. maint.id = m
      BY <2>2 DEF IInv, MaintRecordInv, MaintWithdraw
    <3>3. A!Clear(m)
      BY <2>2, <3>1, <3>2 DEF MaintWithdraw, RemoveMaint, NoRecord, A!Clear, Leased
    <3>. QED
      BY <3>3 DEF A!Next
  <2>3. CASE MaintGrant(m)
    <3>1. maint.id = m
      BY <2>3 DEF IInv, MaintRecordInv, MaintHolds, MaintGrant
    <3>2. A!Grant(m) \/ UNCHANGED A!avars
      BY <2>3, <3>1 DEF MaintGrant, NoJobs, A!Grant, A!Recorded, Leased
    <3>. QED
      BY <3>2 DEF A!Next
  <2>4. CASE MaintGrantRefused(m)
    BY <2>4 DEF MaintGrantRefused, Leased
  <2>5. CASE \/ MaintEnter(m) \/ MaintUnavailable(m) \/ MaintRefused(m)
             \/ MaintAcquire(m) \/ MaintDrainTimeout(m) \/ MaintWithdrawEnter(m)
             \/ MaintWithdrawTimeout(m) \/ MaintGrantEnter(m) \/ MaintGrantTimeout(m)
    BY <2>5 DEF MaintEnter, MaintUnavailable, MaintRefused, MaintAcquire,
       MaintDrainTimeout, MaintWithdrawEnter, MaintWithdrawTimeout, MaintGrantEnter,
       MaintGrantTimeout, TakeAdmission, AdmissionTimeout, Leased
  <2>. QED
    BY <1>8, <2>1, <2>2, <2>3, <2>4, <2>5 DEF MaintAdmission
<1>9. ASSUME NEW r \in Reconcilers, Reconcile(r) PROVE [A!Next]_(A!avars)
  <2>1. CASE ReconcileApply(r)
    <3>0. target[r] \in Owners /\ target[r] \notin busy /\ target[r] \notin Leased
      BY <2>1 DEF IInv, TargetInv, ReconcileApply, Leased
    <3>1. PICK p \in Owners : p = target[r] /\ p \notin busy /\ p \notin Leased
      BY <3>0
    <3>2. A!Clear(p)
      <4>1. CASE p \in Jobs
        BY <2>1, <3>1, <4>1 DEF ReconcileApply, WriteJob, A!Clear, Leased
      <4>2. CASE p \in Maints
        BY <2>1, <3>1, <4>2
           DEF ReconcileApply, RemoveMaint, NoRecord, A!Clear, Leased
      <4>. QED
        BY <3>1, <4>1, <4>2
    <3>. QED
      BY <3>1, <3>2 DEF A!Next
  <2>2. CASE ~ReconcileApply(r)
    BY <1>9, <2>2 DEF Reconcile, ReconcileAsk, ReconcileEnter, ReconcileUnavailable,
       ReconcileAcquire, ReconcileTimeout, TakeAdmission, AdmissionTimeout, Leased
  <2>. QED
    BY <2>1, <2>2
<1>10. ASSUME NEW o \in Observers, Probe(o) \/ ProbeEnd(o) PROVE UNCHANGED A!avars
  BY <1>10 DEF Probe, ProbeEnd, Leased
<1>11. ASSUME NEW m \in Maints, MaintInterrupted(m) PROVE UNCHANGED A!avars
  <2>1. CASE pc[m] = "draining"
    BY <1>11, <2>1 DEF MaintInterrupted, Leased
  <2>2. CASE pc[m] # "draining"
    <3>1. maint.id = m
      BY <1>11, <2>2 DEF IInv, MaintRecordInv, MaintHolds, MaintInterrupted
    <3>. QED
      BY <1>11, <2>2, <3>1 DEF MaintInterrupted, Leased
  <2>. QED
    BY <2>1, <2>2
<1>12. ASSUME NEW m \in Maints, Naming(m)
       PROVE  UNCHANGED A!avars
  <2>1. CASE MaintNoteEnter(m)
    BY <2>1 DEF MaintNoteEnter, TakeAdmission, Leased
  <2>2. CASE MaintNote(m)
    <3>1. maint.id = m
      BY <2>2 DEF IInv, MaintRecordInv, MaintHolds, MaintNote
    <3>. QED
      BY <2>2, <3>1 DEF MaintNote, Leased
  <2>3. CASE MaintNoteFails(m)
    <3>1. maint.id = m
      BY <2>3 DEF IInv, MaintRecordInv, MaintHolds, MaintNoteFails
    <3>. QED
      BY <2>3, <3>1 DEF MaintNoteFails, Leased
  <2>. QED
    BY <1>12, <2>1, <2>2, <2>3 DEF Naming
<1>. QED
  BY <1>1, <1>2, <1>3, <1>4, <1>5, <1>6, <1>7, <1>8, <1>9, <1>10, <1>11, <1>12 DEF Next, Outside

(* The gate implements the abstract admission protocol. *)
THEOREM GateImplementsAdmission == Spec => ImplementsAdmission
<1>1. Init => A!Init
  BY DEF Init, NoRecord, A!Init, Leased
<1>. QED
  BY <1>1, StepRefines, Invariance, PTL DEF Spec, A!Spec, ImplementsAdmission

-----------------------------------------------------------------------------
(* One host: HostRun *)

(* The theorems about the two bodies, read for this host.  Those about the  *)
(* storage that a job needs, in the same module, are not used: there are no *)
(* devices and no paths here.                                               *)
JP == INSTANCE JobLifecycle_proofs
      WITH pc <- jpc, known <- completed, Devices <- {}, Paths <- {}, Absent <- None,
           Configurations <- {}, Fillings <- {}, Reserve <- 1, CriticalPercent <- 1,
           sources <- None, driver <- None, root <- None, mount <- None, disk <- None,
           filesystems <- None, next <- None, roomy <- None
MP == INSTANCE MaintenanceRun_proofs WITH pc <- mpc, known <- finished

(* What is proved of run() by itself, for the run() of this host: a step    *)
(* keeps its invariant and is a step of the contract of a body.             *)
LEMMA JobFacts ==
    ASSUME JP!JInv, J!Next
    PROVE  JP!JInv' /\ [J!B!Next]_(J!B!bvars)
<1>1. JP!Next
  BY DEF J!Next, J!Run, J!Proceed, J!Command, JP!Next, JP!Run, JP!Proceed, JP!Command,
     J!Prepare, JP!Prepare, J!Launch, JP!Launch, J!LaunchInterrupted,
     JP!LaunchInterrupted, J!WaitReturns, JP!WaitReturns, J!WaitTimeout, JP!WaitTimeout,
     J!JudgeComplete, JP!JudgeComplete, J!JudgeUnresolved, JP!JudgeUnresolved,
     J!Established, JP!Established, J!Leave, JP!Leave, J!Interrupt, JP!Interrupt,
     J!RaiseUnattempted, JP!RaiseUnattempted, J!RaiseAttempted, JP!RaiseAttempted,
     J!Crash, JP!Crash, J!OperationStarts, JP!OperationStarts, J!OperationEnds,
     JP!OperationEnds, J!WriteReceipt, JP!WriteReceipt, J!Spawn, JP!Spawn,
     J!ChildrenEnd, JP!ChildrenEnd, J!LeaderEnds, JP!LeaderEnds, J!Done, JP!Done,
     J!Busy, JP!Busy, J!GroupAlive, JP!GroupAlive, J!host, JP!host, J!group, JP!group,
     J!vars, JP!vars
<1>2. JP!JInv' /\ [JP!B!Next]_(JP!B!bvars)
  BY <1>1, JP!JobStep, JP!JobKeepsLease
<1>. QED
  BY <1>2 DEF J!B!Next, J!B!bvars, J!B!StartWork, J!B!EndWork, J!B!Complete, J!B!LeaveBody,
     JP!B!Next, JP!B!bvars, JP!B!StartWork, JP!B!EndWork, JP!B!Complete, JP!B!LeaveBody,
     J!Busy, JP!Busy, J!GroupAlive, JP!GroupAlive

(* The same for maintain() and its container.                               *)
LEMMA MaintFacts ==
    ASSUME MP!MInv, M!Next
    PROVE  MP!MInv' /\ [M!B!Next]_(M!B!bvars)
<1>1. MP!Next
  BY DEF M!Next, M!Host, M!HostProgress, M!Elsewhere, M!ClientProgress, MP!Next,
     MP!Host, MP!HostProgress, MP!Elsewhere, MP!ClientProgress, M!Prepare, MP!Prepare,
     M!Create, MP!Create, M!Note, MP!Note, M!Start, MP!Start, M!StartReturns,
     MP!StartReturns, M!Bind, MP!Bind, M!WaitReturns, MP!WaitReturns, M!JudgeComplete,
     MP!JudgeComplete, M!JudgeUnresolved, MP!JudgeUnresolved, M!CloseRun, MP!CloseRun,
     M!Fail, MP!Fail, M!Raise, MP!Raise, M!Leave, MP!Leave, M!Crash, MP!Crash, M!Expire,
     MP!Expire, M!ContainerStarts, MP!ContainerStarts, M!StartRefused, MP!StartRefused,
     M!Exit, MP!Exit, M!Decide, MP!Decide, M!ReadFails, MP!ReadFails, M!Live, MP!Live,
     M!Active, MP!Active, M!GuardPasses, MP!GuardPasses,
     M!GuardRefused, MP!GuardRefused, M!GuardTimeout, MP!GuardTimeout, M!Conclude,
     MP!Conclude, M!Send, MP!Send, M!DaemonAnswers, MP!DaemonAnswers, M!Take, MP!Take,
     M!TakeError, MP!TakeError, M!Abandon, MP!Abandon, M!Interrupted, MP!Interrupted,
     M!Kill, MP!Kill, M!Done, MP!Done, M!Busy, MP!Busy, M!KnownCodes, MP!KnownCodes,
     M!Running, MP!Running, M!Killed, MP!Killed, M!lease, MP!lease, M!cleanup,
     MP!cleanup, M!vars, MP!vars
<1>2. MP!MInv' /\ [MP!B!Next]_(MP!B!bvars)
  BY <1>1, MP!RunStep, MP!RunKeepsLease
<1>. QED
  BY <1>2 DEF M!B!Next, M!B!bvars, M!B!StartWork, M!B!EndWork, M!B!Complete, M!B!LeaveBody,
     MP!B!Next, MP!B!bvars, MP!B!StartWork, MP!B!EndWork, MP!B!Complete, MP!B!LeaveBody,
     M!Busy, MP!Busy

USE HostAssumption

(* Labels of an owner whose body is over. *)
Past == {"finishing", "finalising", "closing", "ended"}

(* What a step outside the bodies does to the owner of a lease. *)
Moves(p) ==
    /\ pc[p] \in {"working", "noting"} => pc'[p] = pc[p]
    /\ pc[p] \in Past => pc'[p] \in Past
    /\ pc[p] \in Before => pc'[p] \in Before \cup Past \cup {"working"}
    /\ known'[p] = known[p] \/ (p \in Maints /\ pc[p] \in Before /\ pc'[p] \in Past)
    /\ p \in busy' <=> p \in busy

(* Only its own body, and a crash, take a process out of the body; nobody   *)
(* else touches its lease or its work.                                      *)
LEMMA OutsideMoves ==
    ASSUME TypeOK, Outside, NEW p \in Owners
    PROVE  Moves(p)
<1>. USE DEF TypeOK, Moves, Goto, Before, Past, JobLabels, MaintLabels, BodyLabels, locks, records
<1>1. ASSUME NEW q \in Owners, Ask(q) \/ FinishEnter(q) \/ FinishTimeout(q) \/ Close(q) PROVE Moves(p)
  BY <1>1 DEF Ask, FinishEnter, FinishTimeout, Close, TakeAdmission, AdmissionTimeout
<1>2. ASSUME NEW j \in Jobs, FinaliseJob(j) PROVE Moves(p)
  BY <1>2 DEF FinaliseJob
<1>3. ASSUME NEW m \in Maints, FinaliseMaint(m) PROVE Moves(p)
  BY <1>3 DEF FinaliseMaint
<1>4. ASSUME NEW j \in Jobs, JobAdmission(j) PROVE Moves(p)
  BY <1>4 DEF JobAdmission, JobEnter, JobUnavailable, JobScan, JobRetry, JobGivesUp,
     LeaveBlocked, JobShare, JobShareTimeout, JobRecord, JobRegister, JobRegisterBlocked,
     TakeAdmission, AdmissionTimeout
<1>5. ASSUME NEW m \in Maints, MaintAdmission(m) PROVE Moves(p)
  BY <1>5 DEF MaintAdmission, MaintEnter, MaintUnavailable, MaintRaise, MaintRefused,
     MaintAcquire, MaintDrainTimeout, MaintWithdrawEnter, MaintWithdrawTimeout, MaintWithdraw,
     MaintGrantEnter, MaintGrantTimeout, MaintGrant, MaintGrantRefused, TakeAdmission,
     AdmissionTimeout
<1>6. ASSUME NEW m \in Maints, MaintInterrupted(m) PROVE Moves(p)
  BY <1>6 DEF MaintInterrupted
<1>7. ASSUME NEW r \in Reconcilers, Reconcile(r) PROVE Moves(p)
  BY <1>7 DEF Reconcile, ReconcileAsk, ReconcileEnter, ReconcileUnavailable, ReconcileAcquire,
     ReconcileTimeout, ReconcileApply, TakeAdmission, AdmissionTimeout
<1>8. ASSUME NEW o \in Observers, Probe(o) \/ ProbeEnd(o) PROVE Moves(p)
  BY <1>8 DEF Probe, ProbeEnd
<1>. QED
  BY <1>1, <1>2, <1>3, <1>4, <1>5, <1>6, <1>7, <1>8 DEF Outside, Finish

(* Nobody else touches the record of a cleanup that is in its body, or has  *)
(* work left.                                                               *)
LEMMA RecordKept ==
    ASSUME IInv, NEW m \in Maints, pc[m] = "working" \/ m \in busy,
           Outside \/ \E q \in Maints \ {m} : Naming(q)
    PROVE  maint' = maint \/ (maint'.phase = "uncertain" /\ pc[m] = "finalising")
<1>1. maint.id = m
  BY DEF IInv, MaintRecordInv, MaintHolds, BusyInv, BusyIsRecorded, HasRecord
<1>2. pc[m] \in Afterwards
  BY DEF IInv, BusyInv, Afterwards
<1>. USE <1>1, <1>2 DEF IInv, TypeOK, Goto, Afterwards, records, MaintRecordInv, MaintHolds
<1>3. ASSUME NEW q \in Owners, Ask(q) \/ FinishEnter(q) \/ FinishTimeout(q) \/ Close(q)
      PROVE maint' = maint
  BY <1>3 DEF Ask, FinishEnter, FinishTimeout, Close, TakeAdmission, AdmissionTimeout
<1>4. ASSUME NEW j \in Jobs, FinaliseJob(j) PROVE maint' = maint
  BY <1>4 DEF FinaliseJob, WriteJob
<1>5. ASSUME NEW q \in Maints, FinaliseMaint(q)
      PROVE  maint'.phase = "uncertain" /\ pc[m] = "finalising"
  <2>1. q = m
    BY <1>5 DEF FinaliseMaint
  <2>2. ~known[m]
    BY <1>5, <2>1 DEF FinaliseMaint, BusyInv
  <2>. QED
    BY <1>5, <2>1, <2>2 DEF FinaliseMaint
<1>6. ASSUME NEW j \in Jobs, JobAdmission(j) PROVE maint' = maint
  BY <1>6 DEF JobAdmission, JobEnter, JobUnavailable, JobScan, JobRetry, JobGivesUp,
     LeaveBlocked, JobShare, JobShareTimeout, JobRecord, WriteJob, JobRegister,
     JobRegisterBlocked, TakeAdmission, AdmissionTimeout
<1>7. ASSUME NEW q \in Maints, MaintAdmission(q) PROVE maint' = maint
  BY <1>7 DEF MaintAdmission, MaintEnter, MaintUnavailable, MaintRaise, MaintRefused,
     MaintAcquire, MaintDrainTimeout, MaintWithdrawEnter, MaintWithdrawTimeout, MaintWithdraw,
     RemoveMaint, MaintGrantEnter, MaintGrantTimeout, MaintGrant, MaintGrantRefused,
     TakeAdmission, AdmissionTimeout
<1>8. ASSUME NEW q \in Maints, MaintInterrupted(q) PROVE maint' = maint
  BY <1>8 DEF MaintInterrupted
<1>9. ASSUME NEW r \in Reconcilers, Reconcile(r) PROVE maint' = maint
  <2>1. CASE ReconcileApply(r)
    <3>1. target[r] # m
      BY <2>1 DEF ReconcileApply, TargetInv
    <3>. QED
      BY <2>1, <3>1 DEF ReconcileApply, WriteJob, RemoveMaint
  <2>2. CASE ~ReconcileApply(r)
    BY <1>9, <2>2 DEF Reconcile, ReconcileAsk, ReconcileEnter, ReconcileUnavailable,
       ReconcileAcquire, ReconcileTimeout, TakeAdmission, AdmissionTimeout
  <2>. QED
    BY <2>1, <2>2
<1>10. ASSUME NEW o \in Observers, Probe(o) \/ ProbeEnd(o) PROVE maint' = maint
  BY <1>10 DEF Probe, ProbeEnd
<1>11. ASSUME NEW q \in Maints \ {m}, Naming(q) PROVE maint' = maint
  BY <1>11 DEF Naming, MaintNoteEnter, MaintNote, MaintNoteFails, TakeAdmission
<1>. QED
  BY <1>3, <1>4, <1>5, <1>6, <1>7, <1>8, <1>9, <1>10, <1>11 DEF Outside, Finish

(* What is in a set already, or is not in it anyway. *)
LEMMA SameSet ==
    ASSUME NEW S, NEW e
    PROVE  (e \in S => S \cup {e} = S) /\ (e \notin S => S \ {e} = S)
  OBVIOUS

(* A body step of the contract is a step of the gate, or none. *)
LEMMA BodyStep ==
    ASSUME TypeOK, NEW p \in Owners,
           NEW inside \in BOOLEAN, NEW stays \in BOOLEAN,
           NEW works \in BOOLEAN, NEW completes \in BOOLEAN,
           inside => pc[p] = "working", ~inside => ~stays,
           \/ inside /\ ~known[p] /\ works /\ (stays <=> inside) /\ (completes <=> known[p])
           \/ ~works /\ (stays <=> inside) /\ (completes <=> known[p])
           \/ inside /\ p \notin busy /\ completes /\ (stays <=> inside) /\ (works <=> p \in busy)
           \/ ~stays /\ (works <=> p \in busy) /\ (completes <=> known[p])
           \/ (stays <=> inside) /\ (works <=> p \in busy) /\ (completes <=> known[p]),
           Seen(p, completes, works),
           IF inside /\ ~stays THEN Goto(p, "finishing") ELSE UNCHANGED pc
    PROVE  Body(p) \/ UNCHANGED vars
<1>. USE DEF TypeOK, Seen, Goto, Body, locks, records, vars
<1>a. ASSUME works <=> p \in busy PROVE busy' = busy
  <2>1. CASE p \in busy
    <3>1. busy' = busy \cup {p}
      BY <1>a, <2>1
    <3>. QED
      BY <2>1, <3>1, SameSet, Zenon
  <2>2. CASE p \notin busy
    <3>1. busy' = busy \ {p}
      BY <1>a, <2>2
    <3>. QED
      BY <2>2, <3>1, SameSet, Zenon
  <2>. QED
    BY <2>1, <2>2
<1>b. ASSUME completes <=> known[p] PROVE known' = known
  BY <1>b
<1>1. CASE inside /\ ~known[p] /\ works /\ (stays <=> inside) /\ (completes <=> known[p])
  BY <1>1 DEF StartWork
<1>2. CASE ~works /\ (stays <=> inside) /\ (completes <=> known[p])
  BY <1>2 DEF EndWork
<1>3. CASE inside /\ p \notin busy /\ completes /\ (stays <=> inside) /\ (works <=> p \in busy)
  BY <1>a, <1>b, <1>3 DEF Complete
<1>4. CASE ~stays /\ (works <=> p \in busy) /\ (completes <=> known[p])
  BY <1>a, <1>b, <1>4 DEF LeaveBody
<1>5. CASE (stays <=> inside) /\ (works <=> p \in busy) /\ (completes <=> known[p])
  BY <1>a, <1>b, <1>5
<1>. QED
  BY <1>1, <1>2, <1>3, <1>4, <1>5

(* A step of run() or of its command is a body step of the gate, or none.   *)
LEMMA JobMoves ==
    ASSUME IInv, JP!JInv, JobCoupled, JobBody \/ JobCommand
    PROVE  (Body(Job) \/ UNCHANGED vars) /\ JP!JInv' /\ JobCoupled'
<1>1. J!Next /\ Seen(Job, completed', J!Busy')
  BY DEF JobBody, JobCommand, J!Next, J!Run
<1>2. JP!JInv' /\ [J!B!Next]_(J!B!bvars)
  BY <1>1, JobFacts
<1>3. jpc # "left" => pc[Job] = "working"
  BY DEF JobBody, JobCommand, JobCoupled, J!Init, J!Command, J!OperationStarts, J!OperationEnds,
     J!WriteReceipt, J!Spawn, J!ChildrenEnd, J!LeaderEnds, J!GroupAlive
<1>4. jpc = "left" => jpc' = "left"
  BY <1>2 DEF J!B!Next, J!B!bvars, J!B!StartWork, J!B!EndWork, J!B!Complete, J!B!LeaveBody
<1>5. IF jpc # "left" /\ jpc' = "left" THEN Goto(Job, "finishing") ELSE UNCHANGED pc
  BY DEF JobBody, JobCommand, JobCoupled, J!Command, J!OperationStarts, J!OperationEnds,
     J!WriteReceipt, J!Spawn, J!ChildrenEnd, J!LeaderEnds, J!host
<1>6. Body(Job) \/ UNCHANGED vars
  <2>. PICK inside \in BOOLEAN, stays \in BOOLEAN, works \in BOOLEAN, completes \in BOOLEAN :
           /\ inside <=> jpc # "left"
           /\ stays <=> jpc' # "left"
           /\ works <=> J!Busy'
           /\ completes = completed'
    BY <1>2 DEF JP!JInv, JP!TypeOK
  <2>1. Seen(Job, completes, works)
    BY <1>1 DEF Seen
  <2>2. \/ inside /\ ~known[Job] /\ works /\ (stays <=> inside) /\ (completes <=> known[Job])
        \/ ~works /\ (stays <=> inside) /\ (completes <=> known[Job])
        \/ inside /\ Job \notin busy /\ completes /\ (stays <=> inside) /\ (works <=> Job \in busy)
        \/ ~stays /\ (works <=> Job \in busy) /\ (completes <=> known[Job])
        \/ (stays <=> inside) /\ (works <=> Job \in busy) /\ (completes <=> known[Job])
    BY <1>2 DEF JobCoupled, J!B!Next, J!B!bvars, J!B!StartWork, J!B!EndWork, J!B!Complete, J!B!LeaveBody
  <2>. QED
    BY <1>3, <1>4, <1>5, <2>1, <2>2, BodyStep DEF IInv
<1>7. JobCoupled'
  <2>. USE DEF IInv, TypeOK
  <2>1. known'[Job] = completed' /\ (Job \in busy' <=> J!Busy')
    BY <1>1 DEF Seen
  <2>2. pc[Job] \notin Before
    BY <1>3 DEF JobCoupled, J!Init, Before, JobLabels, MaintLabels
  <2>3. pc'[Job] = (IF jpc # "left" /\ jpc' = "left" THEN "finishing" ELSE pc[Job])
    BY <1>5 DEF Goto
  <2>4. pc'[Job] \notin Before
    BY <2>2, <2>3 DEF Before, JobLabels, MaintLabels
  <2>. QED
    BY <1>3, <1>4, <2>1, <2>3, <2>4 DEF JobCoupled
<1>. QED
  BY <1>2, <1>6, <1>7

(* The job while others move, and while the gate does. *)
LEMMA JobRests ==
    ASSUME IInv, JobCoupled, UNCHANGED jvars, Moves(Job)
    PROVE  JobCoupled'
<1>. USE DEF IInv, TypeOK, Moves
<1>1. J!Init' = J!Init /\ J!Busy' = J!Busy /\ jpc' = jpc /\ completed' = completed
  BY DEF jvars, J!Init, J!Busy, J!GroupAlive
<1>2. pc[Job] \in Before \cup Past \cup {"working"}
  BY DEF Before, Past, JobLabels, BodyLabels
<1>3. pc'[Job] \in Before => pc[Job] \in Before
  BY <1>2 DEF Before, Past, JobLabels, MaintLabels
<1>4. pc[Job] # "working" /\ pc'[Job] = "working" => pc[Job] \in Before
  BY <1>2 DEF Past
<1>. QED
  BY <1>1, <1>2, <1>3, <1>4 DEF JobCoupled, J!Init

(* A crash of the job leaves what it has started as it is.                  *)
LEMMA JobGone ==
    ASSUME IInv, JP!JInv, JobCoupled, JobCrash
    PROVE  JP!JInv' /\ JobCoupled'
<1>. USE DEF IInv, TypeOK
<1>1. pc'[Job] = "ended" /\ known' = known /\ busy' = busy
  BY DEF JobCrash, Crash, Goto
<1>2. CASE pc[Job] = "working"
  <2>1. J!Crash
    BY <1>2 DEF JobCrash
  <2>2. JP!JInv'
    BY <2>1, JobFacts DEF J!Next, J!Run
  <2>3. jpc' = "left" /\ completed' = completed /\ J!Busy' = J!Busy
    BY <2>1 DEF J!Crash, J!Busy, J!GroupAlive, J!group
  <2>. QED
    BY <1>1, <2>2, <2>3 DEF JobCoupled, Before, JobLabels, MaintLabels
<1>3. CASE pc[Job] # "working"
  <2>1. UNCHANGED jvars
    BY <1>3 DEF JobCrash
  <2>2. JP!JInv'
    BY <2>1 DEF jvars, JP!JInv, JP!TypeOK, JP!KnownIsQuiet, JP!Busy, JP!GroupAlive
  <2>3. J!Init' = J!Init /\ J!Busy' = J!Busy /\ jpc' = jpc /\ completed' = completed
    BY <2>1 DEF jvars, J!Init, J!Busy, J!GroupAlive
  <2>. QED
    BY <1>1, <1>3, <2>2, <2>3 DEF JobCoupled, Before, JobLabels, MaintLabels
<1>. QED
  BY <1>2, <1>3

(* A later job starts from nothing: the id is reused when its record, and   *)
(* so its work, is gone.                                                    *)
LEMMA JobRenewed ==
    ASSUME IInv, JobRecycle
    PROVE  JP!JInv' /\ JobCoupled'
<1>. USE DEF IInv, TypeOK
<1>1. Job \notin busy
  BY DEF JobRecycle, Recycle, BusyInv, BusyIsRecorded
<1>2. pc'[Job] = "idle" /\ known'[Job] = FALSE /\ busy' = busy
  BY DEF JobRecycle, Recycle, Goto
<1>3. J!Init'
  BY DEF JobRecycle, J!Init
<1>4. ~J!Busy' /\ JP!JInv'
  BY <1>3 DEF J!Init, J!Busy, J!GroupAlive, JP!JInv, JP!TypeOK, JP!KnownIsQuiet, JP!Busy,
     JP!GroupAlive
<1>. QED
  BY <1>1, <1>2, <1>3, <1>4 DEF JobCoupled, J!Init

(* Only docker start begins work where there was none. *)
LEMMA OnlyStartBusies ==
    ASSUME MP!MInv, M!Next, ~M!Busy, M!Busy'
    PROVE  M!Start
<1>. USE DEF MP!MInv, MP!TypeOK, M!Busy
<1>1. ASSUME M!HostProgress \/ M!Fail, ~M!Start PROVE FALSE
  BY <1>1 DEF M!HostProgress, M!Prepare, M!Create, M!Note, M!StartReturns, M!Bind, M!WaitReturns,
     M!JudgeComplete, M!JudgeUnresolved, M!CloseRun, M!Raise, M!Leave, M!Fail, M!lease, M!cleanup
<1>2. ASSUME M!Elsewhere PROVE FALSE
  BY <1>2 DEF M!Elsewhere, M!ClientProgress, M!Expire, M!ContainerStarts, M!StartRefused, M!Exit,
     M!Decide, M!ReadFails, M!GuardPasses, M!GuardRefused, M!GuardTimeout, M!Conclude, M!Send,
     M!DaemonAnswers, M!Take, M!TakeError, M!Abandon, M!Interrupted, M!Kill, M!lease, M!cleanup
<1>3. ASSUME M!Crash \/ M!Done PROVE FALSE
  BY <1>3 DEF M!Crash, M!Done, M!lease, M!cleanup, M!vars
<1>. QED
  BY <1>1, <1>2, <1>3 DEF M!Next, M!Host

(* What has not begun does nothing. *)
LEMMA IdleElsewhere ==
    ASSUME M!Init, M!Elsewhere
    PROVE  FALSE
  BY DEF M!Init, M!Elsewhere, M!ClientProgress, M!Expire, M!ContainerStarts, M!StartRefused,
     M!Exit, M!Decide, M!ReadFails, M!GuardPasses, M!GuardRefused, M!GuardTimeout, M!Conclude,
     M!Send, M!DaemonAnswers, M!Take, M!TakeError, M!Abandon, M!Interrupted, M!Kill, M!lease,
     M!cleanup

(* The container and the daemon do not move maintain() itself.              *)
LEMMA ElsewhereLeavesHost ==
    ASSUME M!Elsewhere
    PROVE  mpc' = mpc
  BY DEF M!Elsewhere, M!ClientProgress, M!Expire, M!ContainerStarts, M!StartRefused,
     M!Exit, M!Decide, M!ReadFails, M!GuardPasses, M!GuardRefused, M!GuardTimeout, M!Conclude,
     M!Send, M!DaemonAnswers, M!Take, M!TakeError, M!Abandon, M!Interrupted, M!Kill, M!lease,
     M!cleanup

(* A step of maintain() or of its container is a body step of the gate,     *)
(* or none: the daemon may answer while the id is being written.            *)
LEMMA MaintMoves ==
    ASSUME IInv, MP!MInv, MaintCoupled, MaintBody \/ MaintElsewhere
    PROVE  (Body(Maint) \/ UNCHANGED vars) /\ MP!MInv' /\ MaintCoupled'
<1>1. M!Next /\ Seen(Maint, finished', M!Busy')
  BY DEF MaintBody, MaintElsewhere, M!Next
<1>2. MP!MInv' /\ [M!B!Next]_(M!B!bvars)
  BY <1>1, MaintFacts
<1>3. /\ mpc = "left" => mpc' = "left"
      /\ pc[Maint] = "noting" => mpc' = mpc
  BY <1>2, ElsewhereLeavesHost
     DEF MaintBody, MaintElsewhere, M!B!Next, M!B!bvars, M!B!StartWork, M!B!EndWork, M!B!Complete,
         M!B!LeaveBody
<1>4. known[Maint] = finished
  BY IdleElsewhere DEF MaintBody, MaintElsewhere, MaintCoupled
<1>5. mpc # "left" => pc[Maint] \in {"working", "noting"}
  BY IdleElsewhere DEF MaintBody, MaintElsewhere, MaintCoupled
<1>6. IF mpc # "left" /\ mpc' = "left" THEN Goto(Maint, "finishing") ELSE UNCHANGED pc
  BY ElsewhereLeavesHost DEF MaintBody, MaintElsewhere, MaintCoupled
<1>7. CASE pc[Maint] = "noting"
  <2>1. mpc = "noting" /\ mpc' = "noting"
    BY <1>3, <1>7 DEF MaintCoupled
  <2>2. ~M!Busy /\ ~M!Busy' /\ finished = FALSE /\ finished' = FALSE
    BY <1>2, <2>1 DEF MP!MInv, MP!TypeOK, M!Busy
  <2>3. busy' = busy /\ known' = known /\ pc' = pc
    <3>1. Maint \notin busy /\ busy' = busy \ {Maint}
      BY <1>1, <2>2 DEF Seen, MaintCoupled
    <3>2. busy' = busy
      BY <3>1, SameSet, Zenon
    <3>. QED
      BY <1>1, <1>4, <1>6, <2>1, <2>2, <3>2 DEF Seen, IInv, TypeOK
  <2>4. UNCHANGED vars
    BY <1>1, <2>3 DEF Seen, vars, locks, records
  <2>5. MaintCoupled'
    BY <1>4, <1>7, <2>1, <2>2, <2>3 DEF MaintCoupled, Before, JobLabels, MaintLabels
  <2>. QED
    BY <1>2, <2>4, <2>5
<1>8. CASE pc[Maint] # "noting"
  <2>1. Body(Maint) \/ UNCHANGED vars
    <3>. PICK inside \in BOOLEAN, stays \in BOOLEAN, works \in BOOLEAN, completes \in BOOLEAN :
             /\ inside <=> mpc # "left"
             /\ stays <=> mpc' # "left"
             /\ works <=> M!Busy'
             /\ completes = finished'
      BY <1>2 DEF MP!MInv, MP!TypeOK
    <3>1. Seen(Maint, completes, works)
      BY <1>1 DEF Seen
    <3>2. \/ inside /\ ~known[Maint] /\ works /\ (stays <=> inside) /\ (completes <=> known[Maint])
          \/ ~works /\ (stays <=> inside) /\ (completes <=> known[Maint])
          \/ inside /\ Maint \notin busy /\ completes /\ (stays <=> inside) /\ (works <=> Maint \in busy)
          \/ ~stays /\ (works <=> Maint \in busy) /\ (completes <=> known[Maint])
          \/ (stays <=> inside) /\ (works <=> Maint \in busy) /\ (completes <=> known[Maint])
      BY <1>2, <1>4 DEF MaintCoupled, M!B!Next, M!B!bvars, M!B!StartWork, M!B!EndWork, M!B!Complete,
         M!B!LeaveBody
    <3>. QED
      BY <1>3, <1>5, <1>6, <1>8, <3>1, <3>2, BodyStep DEF IInv
  <2>2. MaintCoupled'
    <3>. USE DEF IInv, TypeOK
    <3>1. known'[Maint] = finished' /\ (Maint \in busy' <=> M!Busy')
      BY <1>1 DEF Seen
    <3>2. pc[Maint] \notin Before
      BY <1>5, IdleElsewhere DEF MaintBody, MaintElsewhere, MaintCoupled, Before, JobLabels, MaintLabels
    <3>3. pc'[Maint] = (IF mpc # "left" /\ mpc' = "left" THEN "finishing" ELSE pc[Maint])
      BY <1>6 DEF Goto
    <3>4. pc'[Maint] \notin Before /\ pc'[Maint] # "noting"
      BY <1>8, <3>2, <3>3 DEF Before, JobLabels, MaintLabels
    <3>. QED
      BY <1>3, <1>5, <1>8, <3>1, <3>3, <3>4 DEF MaintCoupled
  <2>. QED
    BY <1>2, <2>1, <2>2
<1>. QED
  BY <1>7, <1>8

(* The cleanup while others move, and while the gate does. *)
LEMMA MaintRests ==
    ASSUME IInv, MaintCoupled, UNCHANGED mvars, Moves(Maint)
    PROVE  MaintCoupled'
<1>. USE DEF IInv, TypeOK, Moves
<1>1. M!Init' = M!Init /\ M!Busy' = M!Busy /\ mpc' = mpc /\ finished' = finished
  BY DEF mvars, M!Init, M!Busy, M!Running
<1>2. pc[Maint] \in Before \cup Past \cup {"working", "noting"}
  BY DEF Before, Past, MaintLabels, BodyLabels
<1>3. pc'[Maint] \in Before => pc[Maint] \in Before /\ known'[Maint] = known[Maint]
  BY <1>2 DEF Before, Past, JobLabels, MaintLabels
<1>4. pc'[Maint] = "noting" => pc[Maint] = "noting"
  BY <1>2 DEF Before, Past, JobLabels, MaintLabels
<1>5. pc'[Maint] = "working" => (pc[Maint] \in Before \/ pc[Maint] = "working")
                                /\ known'[Maint] = known[Maint]
  BY <1>2 DEF Before, Past, JobLabels, MaintLabels
<1>6. M!Init => mpc = "preparing" /\ finished = FALSE
  BY DEF M!Init
<1>7. M!Init' \/ known'[Maint] = finished'
  BY <1>1 DEF MaintCoupled
<1>8. pc'[Maint] \in {"working", "noting"} => mpc' # "left" /\ known'[Maint] = finished'
  BY <1>1, <1>4, <1>5, <1>6 DEF MaintCoupled, Before, Past, JobLabels, MaintLabels
<1>9. pc'[Maint] \notin {"working", "noting"} => mpc' = "left" \/ M!Init'
  BY <1>1 DEF MaintCoupled
<1>. QED
  BY <1>1, <1>3, <1>4, <1>7, <1>8, <1>9 DEF MaintCoupled

(* The write of the container's id, in the gate's terms and in the          *)
(* cleanup's.                                                               *)
LEMMA MaintNames ==
    ASSUME IInv, MP!MInv, MaintCoupled, NamingInv, MaintNaming
    PROVE  MP!MInv' /\ MaintCoupled' /\ NamingInv'
<1>. USE DEF IInv, TypeOK
<1>0. Maint \notin Jobs /\ busy' = busy /\ known' = known
  BY DEF MaintNaming, MaintNoteEnter, MaintNote, MaintNoteFails, TakeAdmission
<1>1. CASE mpc = "noting" /\ MaintNoteEnter(Maint) /\ UNCHANGED mvars
  <2>1. pc[Maint] = "working" /\ pc'[Maint] = "noting" /\ maint' = maint
    BY <1>1 DEF MaintNoteEnter, TakeAdmission, Goto, records
  <2>2. M!Init' = M!Init /\ M!Busy' = M!Busy /\ mpc' = mpc /\ finished' = finished
    BY <1>1 DEF mvars, M!Init, M!Busy, M!Running
  <2>3. MP!MInv'
    BY <1>1 DEF mvars, MP!MInv, MP!TypeOK, MP!CodeIsTruthful, MP!SkippedIsUnchanged, MP!Busy,
       MP!KnownCodes, MP!Killed, MP!Running
  <2>. QED
    BY <1>0, <1>1, <2>1, <2>2, <2>3 DEF MaintCoupled, NamingInv, Before, JobLabels, MaintLabels
<1>2. CASE MaintNote(Maint) /\ M!Note
  <2>1. pc[Maint] = "noting" /\ pc'[Maint] = "working" /\ maint'.phase = "named"
    BY <1>2 DEF MaintNote, Goto
  <2>2. MP!MInv'
    BY <1>2, MaintFacts DEF M!Next, M!Host, M!HostProgress
  <2>3. M!Busy' = M!Busy /\ mpc' = "starting" /\ finished' = finished
    BY <1>2 DEF M!Note, M!Busy, M!cleanup
  <2>. QED
    BY <1>0, <2>1, <2>2, <2>3 DEF MaintCoupled, NamingInv, Before, JobLabels, MaintLabels
<1>3. CASE MaintNoteFails(Maint) /\ M!Fail
  <2>1. pc[Maint] = "noting" /\ pc'[Maint] = "working"
    BY <1>3 DEF MaintNoteFails, Goto
  <2>2. MP!MInv'
    BY <1>3, MaintFacts DEF M!Next, M!Host
  <2>3. mpc = "noting"
    BY <2>1 DEF MaintCoupled
  <2>4. M!Busy' = M!Busy /\ mpc' = "raising" /\ finished' = finished
    BY <1>3, <2>3 DEF M!Fail, M!Busy, M!cleanup
  <2>5. ~M!Busy
    BY <2>3 DEF MP!MInv, MP!TypeOK, M!Busy
  <2>. QED
    BY <1>0, <2>1, <2>2, <2>4, <2>5 DEF MaintCoupled, NamingInv, Before, JobLabels, MaintLabels
<1>. QED
  BY <1>1, <1>2, <1>3 DEF MaintNaming

(* A crash of the maintenance process leaves its container running.         *)
LEMMA MaintGone ==
    ASSUME IInv, MP!MInv, MaintCoupled, MaintCrash
    PROVE  MP!MInv' /\ MaintCoupled'
<1>. USE DEF IInv, TypeOK
<1>1. pc'[Maint] = "ended" /\ known' = known /\ busy' = busy
  BY DEF MaintCrash, Crash, Goto
<1>2. CASE pc[Maint] \in {"working", "noting"}
  <2>1. M!Crash
    BY <1>2 DEF MaintCrash
  <2>2. MP!MInv'
    BY <2>1, MaintFacts DEF M!Next
  <2>3. mpc' = "left" /\ finished' = finished /\ M!Busy' = M!Busy
    BY <2>1 DEF M!Crash, M!Busy, M!cleanup
  <2>. QED
    BY <1>1, <1>2, <2>2, <2>3 DEF MaintCoupled, Before, JobLabels, MaintLabels
<1>3. CASE pc[Maint] \notin {"working", "noting"}
  <2>1. UNCHANGED mvars
    BY <1>3 DEF MaintCrash
  <2>2. MP!MInv'
    BY <2>1 DEF mvars, MP!MInv, MP!TypeOK, MP!CodeIsTruthful, MP!SkippedIsUnchanged, MP!Busy,
       MP!KnownCodes, MP!Killed, MP!Running
  <2>3. M!Init' = M!Init /\ M!Busy' = M!Busy /\ mpc' = mpc /\ finished' = finished
    BY <2>1 DEF mvars, M!Init, M!Busy, M!Running
  <2>. QED
    BY <1>1, <1>3, <2>2, <2>3 DEF MaintCoupled, Before, JobLabels, MaintLabels
<1>. QED
  BY <1>2, <1>3

(* A later cleanup starts from nothing.                                     *)
LEMMA MaintRenewed ==
    ASSUME IInv, MaintRecycle
    PROVE  MP!MInv' /\ MaintCoupled' /\ Maint \notin busy'
<1>. USE DEF IInv, TypeOK
<1>1. Maint \notin busy
  BY DEF MaintRecycle, Recycle, BusyInv, BusyIsRecorded
<1>2. pc'[Maint] = "idle" /\ known'[Maint] = FALSE /\ busy' = busy
  BY DEF MaintRecycle, Recycle, Goto
<1>3. M!Init'
  BY DEF MaintRecycle, M!Init, M!Running
<1>4. ~M!Busy' /\ MP!MInv' /\ finished' = FALSE /\ mpc' # "left"
  BY <1>3 DEF M!Init, M!Busy, M!Running, MP!MInv, MP!TypeOK, MP!CodeIsTruthful,
     MP!SkippedIsUnchanged, MP!Busy, MP!KnownCodes, MP!Killed, MP!Running
<1>. QED
  BY <1>1, <1>2, <1>3, <1>4 DEF MaintCoupled

(* A step of one leaves what the gate has of the other. *)
LEMMA Apart ==
    ASSUME IInv, NEW p \in {Job, Maint}, NEW q \in Procs, q # p,
           \/ Crash(q) \/ Recycle(q)
           \/ q \in Owners /\ Body(q)
           \/ q \in Maints /\ Naming(q)
    PROVE  Moves(p)
<1>. USE DEF IInv, TypeOK, Goto
<1>. DEFINE Same == pc'[p] = pc[p] /\ known'[p] = known[p] /\ (p \in busy' <=> p \in busy)
<1>a. ASSUME Crash(q)
      PROVE  Same
  BY <1>a DEF Crash
<1>b. ASSUME Recycle(q)
      PROVE  Same
  <2>1. p \in Jobs \cup Maints
    OBVIOUS
  <2>2. pc'[p] = pc[p] /\ busy' = busy
    BY <1>b, <2>1 DEF Recycle
  <2>3. known'[p] = known[p]
    BY <1>b, <2>1 DEF Recycle
  <2>. QED
    BY <2>2, <2>3
<1>c. ASSUME q \in Owners /\ (StartWork(q) \/ EndWork(q))
      PROVE  Same
  BY <1>c DEF StartWork, EndWork
<1>d. ASSUME q \in Owners /\ (Complete(q) \/ LeaveBody(q))
      PROVE  Same
  BY <1>d DEF Complete, LeaveBody
<1>e. ASSUME q \in Maints /\ Naming(q)
      PROVE  Same
  BY <1>e DEF Naming, MaintNoteEnter, MaintNote, MaintNoteFails, TakeAdmission
<1>1. Same
  BY <1>a, <1>b, <1>c, <1>d, <1>e DEF Body
<1>2. pc[p] \in Before => pc'[p] \in Before \cup Past \cup {"working"}
  BY <1>1
<1>. QED
  BY <1>1, <1>2 DEF Moves

(* The steps of all other processes are steps of the gate.                  *)
LEMMA OthersMove ==
    ASSUME IInv, Others, NEW p \in {Job, Maint}
    PROVE  Moves(p) /\ Next
<1>1. CASE Outside
  BY <1>1, OutsideMoves DEF IInv, Next
<1>2. ASSUME NEW q \in Procs \ {Job, Maint}, Crash(q) \/ Recycle(q) PROVE Moves(p) /\ Next
  BY <1>2, Apart DEF Next
<1>3. ASSUME NEW q \in Owners \ {Job, Maint}, Body(q) PROVE Moves(p) /\ Next
  BY <1>3, Apart DEF Next
<1>4. ASSUME NEW q \in Maints \ {Maint}, Naming(q) PROVE Moves(p) /\ Next
  BY <1>4, Apart DEF Next
<1>. QED
  BY <1>1, <1>2, <1>3, <1>4 DEF Others

(* The name stays on disk while others move. *)
LEMMA NameStays ==
    ASSUME IInv, MaintCoupled, NamingInv, Moves(Maint), UNCHANGED mvars,
           \/ maint' = maint
           \/ Outside
           \/ \E q \in Maints \ {Maint} : Naming(q)
    PROVE  NamingInv'
<1>. USE DEF IInv, TypeOK
<1>1. mpc' = mpc
  BY DEF mvars
<1>2. pc'[Maint] = "working" /\ mpc = "starting" => pc[Maint] = "working"
  BY DEF Moves, MaintCoupled, M!Init, Before, Past, MaintLabels, BodyLabels
<1>3. pc[Maint] = "working" \/ Maint \in busy
          => maint' = maint \/ (maint'.phase = "uncertain" /\ pc[Maint] = "finalising")
  BY RecordKept
<1>. QED
  BY <1>1, <1>2, <1>3 DEF NamingInv, Moves

(* Every step of the host is one of the gate or none, and keeps what the    *)
(* gate and the bodies know of each other.                                  *)
LEMMA HostMoves ==
    ASSUME HInv, JP!JInv, MP!MInv, [HostNext]_hostvars
    PROVE  [Next]_vars /\ JobCoupled' /\ MaintCoupled' /\ NamingInv' /\ JP!JInv' /\ MP!MInv'
<1>. IInv /\ JobCoupled /\ MaintCoupled /\ NamingInv
  BY DEF HInv
<1>0. Job # Maint /\ Job \in Procs /\ Maint \in Procs
  OBVIOUS
<1>a. ASSUME UNCHANGED jvars PROVE JP!JInv'
  BY <1>a DEF jvars, JP!JInv, JP!TypeOK, JP!KnownIsQuiet, JP!Busy, JP!GroupAlive
<1>b. ASSUME UNCHANGED mvars PROVE MP!MInv'
  BY <1>b DEF mvars, MP!MInv, MP!TypeOK, MP!CodeIsTruthful, MP!SkippedIsUnchanged, MP!Busy,
     MP!KnownCodes, MP!Killed, MP!Running
<1>1. CASE Others
  <2>1. UNCHANGED jvars /\ UNCHANGED mvars
    BY <1>1 DEF Others
  <2>2. Moves(Job) /\ Moves(Maint) /\ Next
    BY <1>1, OthersMove
  <2>3. NamingInv'
    <3>1. CASE Outside \/ \E q \in Maints \ {Maint} : Naming(q)
      BY <2>1, <2>2, <3>1, NameStays
    <3>2. CASE \/ \E p \in Procs \ {Job, Maint} : Crash(p) \/ Recycle(p)
               \/ \E p \in Owners \ {Job, Maint} : Body(p)
      <4>1. maint' = maint
        BY <3>2 DEF Crash, Recycle, Body, StartWork, EndWork, Complete, LeaveBody, records
      <4>. QED
        BY <2>1, <2>2, <4>1, NameStays
    <3>. QED
      BY <1>1, <3>1, <3>2 DEF Others
  <2>. QED
    BY <1>a, <1>b, <2>1, <2>2, <2>3, JobRests, MaintRests
<1>2. CASE JobBody \/ JobCommand
  <2>1. UNCHANGED mvars /\ maint' = maint
    BY <1>2 DEF JobBody, JobCommand, Seen, records
  <2>2. (Body(Job) \/ UNCHANGED vars) /\ JP!JInv' /\ JobCoupled'
    BY <1>2, JobMoves
  <2>3. Moves(Maint)
    <3>1. CASE Body(Job)
      BY <1>0, <3>1, Apart
    <3>2. CASE UNCHANGED vars
      BY <3>2 DEF vars, Moves
    <3>. QED
      BY <2>2, <3>1, <3>2
  <2>4. [Next]_vars
    BY <2>2 DEF Next
  <2>. QED
    BY <1>b, <2>1, <2>2, <2>3, <2>4, MaintRests, NameStays
<1>3. CASE JobCrash \/ JobRecycle
  <2>1. UNCHANGED mvars /\ maint' = maint /\ (Crash(Job) \/ Recycle(Job))
    BY <1>3 DEF JobCrash, JobRecycle, Crash, Recycle, records
  <2>2. JP!JInv' /\ JobCoupled'
    BY <1>3, JobGone, JobRenewed
  <2>3. Moves(Maint)
    BY <1>0, <2>1, Apart
  <2>4. Next
    BY <1>0, <2>1 DEF Next
  <2>. QED
    BY <1>b, <2>1, <2>2, <2>3, <2>4, MaintRests, NameStays
<1>4. CASE MaintBody \/ MaintElsewhere
  <2>1. UNCHANGED jvars /\ maint' = maint
    BY <1>4 DEF MaintBody, MaintElsewhere, Seen, records
  <2>2. (Body(Maint) \/ UNCHANGED vars) /\ MP!MInv' /\ MaintCoupled'
    BY <1>4, MaintMoves
  <2>3. Moves(Job)
    <3>1. CASE Body(Maint)
      BY <1>0, <3>1, Apart
    <3>2. CASE UNCHANGED vars
      BY <3>2 DEF vars, Moves
    <3>. QED
      BY <2>2, <3>1, <3>2
  <2>4. [Next]_vars
    BY <2>2 DEF Next
  <2>5. NamingInv'
    <3>1. pc'[Maint] = "working" => pc[Maint] = "working"
      BY <1>4 DEF MaintBody, MaintElsewhere, Goto, IInv, TypeOK
    <3>2. mpc' = "starting" => mpc = "starting"
      BY <1>4, ElsewhereLeavesHost DEF MaintBody, MaintElsewhere, M!Host, M!HostProgress, M!Prepare,
         M!Create, M!Start, M!StartReturns, M!Bind, M!WaitReturns, M!JudgeComplete,
         M!JudgeUnresolved, M!CloseRun, M!Raise, M!Leave, M!Fail
    <3>3. ASSUME Maint \in busy', Maint \notin busy PROVE maint.phase = "named"
      <4>1. M!Start
        BY <1>4, <2>2, <3>3, OnlyStartBusies DEF MaintCoupled, MaintBody, MaintElsewhere, M!Next
      <4>2. mpc = "starting" /\ pc[Maint] = "working"
        BY <1>4, <4>1, ElsewhereLeavesHost DEF MaintBody, MaintElsewhere, M!Start
      <4>. QED
        BY <4>2 DEF NamingInv
    <3>. QED
      BY <2>1, <3>1, <3>2, <3>3 DEF NamingInv
  <2>. QED
    BY <1>a, <2>1, <2>2, <2>3, <2>4, <2>5, JobRests
<1>5. CASE MaintNaming
  <2>1. UNCHANGED jvars /\ Naming(Maint)
    BY <1>5 DEF MaintNaming, Naming
  <2>2. Moves(Job)
    BY <1>0, <2>1, Apart
  <2>3. Next
    BY <2>1 DEF Next
  <2>. QED
    BY <1>5, <1>a, <2>1, <2>2, <2>3, JobRests, MaintNames
<1>6. CASE MaintCrash
  <2>1. UNCHANGED jvars /\ maint' = maint /\ busy' = busy /\ pc'[Maint] = "ended" /\ Crash(Maint)
    BY <1>6 DEF MaintCrash, Crash, Goto, records, IInv, TypeOK
  <2>2. Moves(Job)
    BY <1>0, <2>1, Apart
  <2>3. NamingInv'
    BY <2>1 DEF NamingInv
  <2>. QED
    BY <1>6, <1>a, <2>1, <2>2, <2>3, JobRests, MaintGone DEF Next
<1>7. CASE MaintRecycle
  <2>1. UNCHANGED jvars /\ pc'[Maint] = "idle" /\ Recycle(Maint)
    BY <1>7 DEF MaintRecycle, Recycle, Goto, IInv, TypeOK
  <2>2. Moves(Job)
    BY <1>0, <2>1, Apart
  <2>3. MP!MInv' /\ MaintCoupled' /\ NamingInv'
    BY <1>7, <2>1, MaintRenewed DEF NamingInv
  <2>. QED
    BY <1>0, <1>a, <2>1, <2>2, <2>3, JobRests DEF Next
<1>8. CASE UNCHANGED hostvars
  <2>1. UNCHANGED vars /\ UNCHANGED jvars /\ UNCHANGED mvars
    BY <1>8 DEF hostvars
  <2>2. Moves(Job) /\ Moves(Maint) /\ maint' = maint
    BY <2>1 DEF vars, Moves
  <2>. QED
    BY <1>a, <1>b, <2>1, <2>2, JobRests, MaintRests, NameStays
<1>. QED
  BY <1>1, <1>2, <1>3, <1>4, <1>5, <1>6, <1>7, <1>8 DEF HostNext

(* With it the gate's own invariant is kept.                                *)
LEMMA HostStep ==
    ASSUME HInv, JP!JInv, MP!MInv, [HostNext]_hostvars
    PROVE  [Next]_vars /\ HInv' /\ JP!JInv' /\ MP!MInv'
<1>1. [Next]_vars /\ JobCoupled' /\ MaintCoupled' /\ NamingInv' /\ JP!JInv' /\ MP!MInv'
  BY HostMoves
<1>2. IInv'
  BY <1>1, InvStep DEF HInv
<1>. QED
  BY <1>1, <1>2 DEF HInv

(* A host on which nothing has run yet.                                     *)
LEMMA HostBegins == HostInit => HInv /\ JP!JInv /\ MP!MInv
<1>. SUFFICES ASSUME HostInit PROVE HInv /\ JP!JInv /\ MP!MInv
  OBVIOUS
<1>1. IInv
  BY InitInv DEF HostInit
<1>2. JP!JInv /\ ~J!Busy /\ completed = FALSE
  BY DEF HostInit, J!Init, J!Busy, J!GroupAlive, JP!JInv, JP!TypeOK, JP!KnownIsQuiet, JP!Busy, JP!GroupAlive
<1>3. MP!MInv /\ ~M!Busy /\ finished = FALSE
  BY DEF HostInit, M!Init, M!Busy, M!Running, MP!MInv, MP!TypeOK, MP!CodeIsTruthful,
     MP!SkippedIsUnchanged, MP!Busy, MP!KnownCodes, MP!Killed, MP!Running
<1>. QED
  BY <1>1, <1>2, <1>3 DEF HostInit, Init, HInv, JobCoupled, MaintCoupled, NamingInv

(* What the gate, run() and maintain() know holds throughout.               *)
THEOREM HostInvariance == HostSpec => [](HInv /\ JP!JInv /\ MP!MInv)
  BY HostBegins, HostStep, PTL DEF HostSpec

(* The gate with a real job and a real cleanup in it is a gate. *)
THEOREM HostImplementsGate == HostSpec => ImplementsGate
<1>1. HostInit => Init
  BY DEF HostInit
<1>. QED
  BY <1>1, HostStep, HostInvariance, PTL DEF HostSpec, ImplementsGate, Spec

(* While the cleanup may still run, no command of the job, no child of it   *)
(* and no operation it has started is left, for any number of other         *)
(* processes, crashes and reconciliations.                                  *)
THEOREM CleanupRunsAlone == HostSpec => []CleanupIsAlone
<1>1. HInv => CleanupIsAlone
  <2>. SUFFICES ASSUME HInv, M!Busy PROVE busy = {Maint} /\ ~J!Busy
    BY DEF CleanupIsAlone, M!Busy, J!Busy, J!GroupAlive
  <2>1. Maint \in busy
    BY DEF HInv, MaintCoupled
  <2>2. busy = {Maint}
    BY <2>1, ExclusiveWork DEF HInv, WorkExclusion
  <2>. QED
    BY <2>2 DEF HInv, JobCoupled
<1>. QED
  BY <1>1, HostInvariance, PTL

(* A cleanup that may still run is on disk with the id of its container.    *)
THEOREM CleanupIsTraced == HostSpec => []TracedOnDisk
<1>1. HInv => TracedOnDisk
  BY DEF HInv, MaintCoupled, M!Busy, NamingInv, TracedOnDisk, IInv, TypeOK, BusyInv, BusyIsRecorded, HasRecord
<1>. QED
  BY <1>1, HostInvariance, PTL

(* What is proved of the container's exit code by itself holds on the host. *)
THEOREM HostCodeIsTruthful == HostSpec => []CodeIsTruthful
<1>1. MP!MInv => CodeIsTruthful
  BY DEF MP!MInv, MP!CodeIsTruthful, MP!KnownCodes, CodeIsTruthful, M!CodeIsTruthful, M!KnownCodes
<1>. QED
  BY <1>1, HostInvariance, PTL
=============================================================================
