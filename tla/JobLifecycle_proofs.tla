------------------------- MODULE JobLifecycle_proofs -------------------------
(* The job's lifecycle keeps the lease contract (module LeaseBody), and the *)
(* check of capacity adds to it without changing it.                       *)
EXTENDS JobRun, TLAPS

(* Nothing exists before the launch; the receipt ends the daemon work; a    *)
(* completed lease is quiet and is not completed twice.                     *)
JInv ==
    /\ TypeOK
    /\ pc = "preparing" => ~attempted
    /\ pc \in {"launching", "waiting", "judging"} => attempted
    /\ pc \in {"preparing", "launching"} \/ ~attempted => leader = "none"
    /\ leader = "none" => ~children /\ ~operation /\ ~receipt
    /\ receipt => ~operation
    /\ known => pc \in {"leaving", "left"}
    /\ KnownIsQuiet

LEMMA JobStep == JInv /\ [Next]_vars => JInv'
<1>. SUFFICES ASSUME JInv, [Next]_vars PROVE JInv'
  OBVIOUS
<1>. USE DEF JInv, TypeOK, KnownIsQuiet, Busy, GroupAlive, host, group, vars
<1>1. CASE UNCHANGED vars
  BY <1>1
<1>2. CASE Prepare
  BY <1>2 DEF Prepare
<1>3. CASE Launch
  BY <1>3 DEF Launch
<1>4. CASE LaunchInterrupted
  BY <1>4 DEF LaunchInterrupted
<1>5. CASE WaitReturns
  BY <1>5 DEF WaitReturns
<1>6. CASE WaitTimeout
  BY <1>6 DEF WaitTimeout
<1>7. CASE JudgeComplete
  BY <1>7 DEF JudgeComplete, Established
<1>8. CASE JudgeUnresolved
  BY <1>8 DEF JudgeUnresolved, Established
<1>9. CASE Leave
  BY <1>9 DEF Leave
<1>10. CASE Interrupt
  BY <1>10 DEF Interrupt
<1>11. CASE RaiseUnattempted
  BY <1>11 DEF RaiseUnattempted
<1>12. CASE RaiseAttempted
  <2>1. /\ pc = "raising" /\ attempted /\ pc' = "leaving"
        /\ UNCHANGED <<attempted, handle, known, operation, receipt>>
    BY <1>12 DEF RaiseAttempted
  <2>2. CASE UNCHANGED <<leader, children>>
    BY <2>1, <2>2
  <2>3. CASE leader' = (IF leader = "running" THEN "signalled" ELSE leader)
             /\ (children' = FALSE \/ children' = children)
    <3>1. CASE leader = "running"
      BY <2>1, <2>3, <3>1
    <3>2. CASE leader # "running"
      <4>1. leader' = leader
        BY <2>3, <3>2
      <4>2. CASE children' = children
        BY <2>1, <4>1, <4>2
      <4>3. CASE children' = FALSE
        <5>1. ~children' /\ children' \in BOOLEAN
          BY <4>3
        <5>. QED
          BY <2>1, <4>1, <5>1
      <4>. QED
        BY <2>3, <4>2, <4>3
    <3>. QED
      BY <3>1, <3>2
  <2>. QED
    BY <1>12, <2>2, <2>3, Zenon DEF RaiseAttempted
<1>13. CASE Crash
  BY <1>13 DEF Crash
<1>14. CASE OperationStarts
  BY <1>14 DEF OperationStarts
<1>15. CASE OperationEnds
  BY <1>15 DEF OperationEnds
<1>16. CASE WriteReceipt
  BY <1>16 DEF WriteReceipt
<1>17. CASE Spawn
  BY <1>17 DEF Spawn
<1>18. CASE ChildrenEnd
  BY <1>18 DEF ChildrenEnd
<1>19. CASE LeaderEnds
  BY <1>19 DEF LeaderEnds
<1>20. CASE Done
  BY <1>20 DEF Done
<1>. QED
  BY <1>1, <1>2, <1>3, <1>4, <1>5, <1>6, <1>7, <1>8, <1>9, <1>10, <1>11, <1>12, <1>13, <1>14, <1>15, <1>16, <1>17, <1>18, <1>19, <1>20 DEF Next, Run, Proceed, Command

(* The invariant holds throughout. *)
THEOREM JobInvariance == Spec => []JInv
<1>1. Init => JInv
  BY DEF Init, JInv, TypeOK, KnownIsQuiet, Busy, GroupAlive
<1>. QED
  BY <1>1, JobStep, PTL DEF Spec

(* The lease is completed only over a quiet process group and daemon. *)
THEOREM JobKnownIsQuiet == Spec => []KnownIsQuiet
<1>1. JInv => KnownIsQuiet
  BY DEF JInv
<1>. QED
  BY <1>1, JobInvariance, PTL

(* A step of the job is a step of the lease contract, or none. *)
LEMMA JobKeepsLease == JInv /\ [Next]_vars => [B!Next]_(B!bvars)
<1>. SUFFICES ASSUME JInv, [Next]_vars PROVE [B!Next]_(B!bvars)
  OBVIOUS
<1>. USE DEF JInv, TypeOK, KnownIsQuiet, Busy, GroupAlive, host, group, vars,
             B!bvars, B!Next, B!StartWork, B!EndWork, B!Complete, B!LeaveBody
<1>1. CASE UNCHANGED vars
  BY <1>1
<1>2. CASE Prepare
  BY <1>2 DEF Prepare
<1>3. CASE Launch
  BY <1>3 DEF Launch
<1>4. CASE LaunchInterrupted
  BY <1>4 DEF LaunchInterrupted
<1>5. CASE WaitReturns
  BY <1>5 DEF WaitReturns
<1>6. CASE WaitTimeout
  BY <1>6 DEF WaitTimeout
<1>7. CASE JudgeComplete
  BY <1>7 DEF JudgeComplete, Established
<1>8. CASE JudgeUnresolved
  BY <1>8 DEF JudgeUnresolved, Established
<1>9. CASE Leave
  BY <1>9 DEF Leave
<1>10. CASE Interrupt
  BY <1>10 DEF Interrupt
<1>11. CASE RaiseUnattempted
  BY <1>11 DEF RaiseUnattempted
<1>12. CASE RaiseAttempted
  BY <1>12 DEF RaiseAttempted
<1>13. CASE Crash
  BY <1>13 DEF Crash
<1>14. CASE OperationStarts
  BY <1>14 DEF OperationStarts
<1>15. CASE OperationEnds
  BY <1>15 DEF OperationEnds
<1>16. CASE WriteReceipt
  BY <1>16 DEF WriteReceipt
<1>17. CASE Spawn
  BY <1>17 DEF Spawn
<1>18. CASE ChildrenEnd
  BY <1>18 DEF ChildrenEnd
<1>19. CASE LeaderEnds
  BY <1>19 DEF LeaderEnds
<1>20. CASE Done
  BY <1>20 DEF Done
<1>. QED
  BY <1>1, <1>2, <1>3, <1>4, <1>5, <1>6, <1>7, <1>8, <1>9, <1>10, <1>11, <1>12, <1>13, <1>14, <1>15, <1>16, <1>17, <1>18, <1>19, <1>20 DEF Next, Run, Proceed, Command

(* The job implements the lease contract. *)
THEOREM JobImplementsLeaseBody == Spec => ImplementsLeaseBody
<1>1. Init => B!Init
  BY DEF Init, B!Init, Busy, GroupAlive
<1>. QED
  BY <1>1, JobKeepsLease, JobInvariance, PTL DEF Spec, B!Spec, ImplementsLeaseBody
-----------------------------------------------------------------------------
(* JobRun *)

(* What has been measured had been so since the lease was admitted, and the *)
(* paths before `next` have been measured.                                  *)
MeasuredInv ==
    /\ sources \in Configurations
    /\ mount \in [Paths -> Devices] /\ disk \in [Devices -> Fillings]
    /\ next \in Nat /\ next <= Len(StoragePaths) + 1
    /\ next > 0 =>
           /\ driver \in {"overlay2", "containerd"}
           /\ driver = "containerd" => sources.containerd # Absent
           /\ sources.docker = root
    /\ \A i \in 1..(next - 1) : mount[StoragePaths[i]] \in DOMAIN filesystems
    /\ \A d \in Devices : HasRoom(disk[d]) => d \in roomy
    /\ \A d \in DOMAIN filesystems :
           /\ d \in Devices /\ filesystems[d] \in Fillings
           /\ HasRoom(filesystems[d]) => d \in roomy

RInv ==
    /\ JInv
    /\ MeasuredInv
    /\ LaunchHadRoom

(* The configured paths, by their place in the order of measurement. *)
LEMMA PathOrder ==
    ASSUME sources \in Configurations
    PROVE  /\ StoragePaths \in Seq(Paths)
           /\ Len(StoragePaths) >= 1
           /\ StoragePaths[1] = sources.docker
           /\ sources.containerd # Absent =>
                  \E i \in 1..Len(StoragePaths) : StoragePaths[i] = sources.containerd
           /\ \A j \in DOMAIN sources.other :
                  \E i \in 1..Len(StoragePaths) : StoragePaths[i] = sources.other[j]
<1>1. /\ sources.docker \in Paths
      /\ sources.containerd \in Paths \cup {Absent}
      /\ sources.other \in Seq(Paths)
  BY StorageAssumption
<1>2. CASE sources.containerd = Absent
  <2>1. StoragePaths = <<sources.docker>> \o sources.other
    BY <1>1, <1>2 DEF StoragePaths
  <2>2. ASSUME NEW j \in DOMAIN sources.other
        PROVE  j + 1 \in 1..Len(StoragePaths) /\ StoragePaths[j + 1] = sources.other[j]
    BY <1>1, <2>1
  <2>3. /\ StoragePaths \in Seq(Paths) /\ Len(StoragePaths) >= 1
        /\ StoragePaths[1] = sources.docker
    BY <1>1, <2>1
  <2>4. \A j \in DOMAIN sources.other :
            \E i \in 1..Len(StoragePaths) : StoragePaths[i] = sources.other[j]
    BY <2>2
  <2>. QED
    BY <1>2, <2>3, <2>4
<1>3. CASE sources.containerd # Absent
  <2>1. /\ StoragePaths = <<sources.docker, sources.containerd>> \o sources.other
        /\ sources.containerd \in Paths
    BY <1>1, <1>3 DEF StoragePaths
  <2>2. ASSUME NEW j \in DOMAIN sources.other
        PROVE  j + 2 \in 1..Len(StoragePaths) /\ StoragePaths[j + 2] = sources.other[j]
    BY <1>1, <2>1
  <2>3. 2 \in 1..Len(StoragePaths) /\ StoragePaths[2] = sources.containerd
    BY <1>1, <2>1
  <2>4. /\ StoragePaths \in Seq(Paths) /\ Len(StoragePaths) >= 1
        /\ StoragePaths[1] = sources.docker
    BY <1>1, <2>1
  <2>5. \A j \in DOMAIN sources.other :
            \E i \in 1..Len(StoragePaths) : StoragePaths[i] = sources.other[j]
    BY <2>2
  <2>. QED
    BY <2>3, <2>4, <2>5
<1>. QED
  BY <1>2, <1>3

(* What evaluate lets pass has room. *)
LEMMA AdmissibleHasRoom ==
    ASSUME NEW f \in Fillings, Accounted(f), ~Critical(f)
    PROVE  HasRoom(f)
<1>1. f.total \in Nat /\ f.used \in Nat /\ f.available \in Nat
  BY StorageAssumption
<1>. QED
  BY <1>1, StorageAssumption DEF Accounted, Critical, HasRoom

LEMMA RunStep == RInv /\ [RunNext]_runvars => RInv'
<1>. SUFFICES ASSUME RInv, [RunNext]_runvars PROVE RInv'
  OBVIOUS
<1>1. /\ StoragePaths \in Seq(Paths) /\ Len(StoragePaths) \in Nat
      /\ Len(StoragePaths) >= 1
  BY PathOrder DEF RInv, MeasuredInv
<1>2. CASE UNCHANGED runvars
  <2>1. JInv'
    BY <1>2, JobStep DEF RInv, runvars
  <2>2. MeasuredInv'
    BY <1>2 DEF RInv, MeasuredInv, runvars, storage, layout, StoragePaths
  <2>3. LaunchHadRoom'
    BY <1>2 DEF RInv, LaunchHadRoom, runvars, storage, layout, vars
  <2>. QED
    BY <2>1, <2>2, <2>3 DEF RInv
<1>3. CASE CheckLayout
  <2>1. JInv'
    BY <1>3, JobStep DEF RInv, CheckLayout
  <2>2. MeasuredInv'
    <3>1. /\ next' = 1 /\ UNCHANGED <<sources, driver, root, mount, disk, filesystems, roomy>>
          /\ driver \in {"overlay2", "containerd"}
          /\ driver = "containerd" => sources.containerd # Absent
          /\ sources.docker = root
      BY <1>3 DEF CheckLayout, layout
    <3>2. StoragePaths' = StoragePaths
      BY <3>1 DEF StoragePaths
    <3>3. next' \in Nat /\ next' <= Len(StoragePaths') + 1 /\ 1..(next' - 1) = {}
      BY <1>1, <3>1, <3>2
    <3>. QED
      BY <3>1, <3>2, <3>3 DEF RInv, MeasuredInv
  <2>3. LaunchHadRoom'
    BY <1>3 DEF RInv, LaunchHadRoom, CheckLayout, layout, vars
  <2>. QED
    BY <2>1, <2>2, <2>3 DEF RInv
<1>4. CASE MeasurePath
  <2>. DEFINE seen == DOMAIN filesystems
              met == mount[StoragePaths[next]]
  <2>1. JInv'
    BY <1>4, JobStep DEF RInv, MeasurePath
  <2>2. /\ next \in 1..Len(StoragePaths) /\ next' = next + 1
        /\ UNCHANGED <<layout, disk, roomy>>
        /\ filesystems' = [d \in seen \cup {met} |->
                               IF d \in seen THEN filesystems[d] ELSE disk[d]]
    BY <1>4 DEF MeasurePath
  <2>3. StoragePaths' = StoragePaths /\ met \in Devices
    <3>1. StoragePaths[next] \in Paths
      BY <1>1, <2>2
    <3>2. StoragePaths' = StoragePaths
      BY <2>2 DEF StoragePaths, layout
    <3>. QED
      BY <3>1, <3>2 DEF RInv, MeasuredInv
  <2>4. MeasuredInv'
    <3>1. \A i \in 1..(next' - 1) : mount'[StoragePaths'[i]] \in DOMAIN filesystems'
      <4>. SUFFICES ASSUME NEW i \in 1..next
                    PROVE  mount[StoragePaths[i]] \in seen \cup {met}
        BY <2>2, <2>3 DEF layout
      <4>1. CASE i = next
        BY <4>1
      <4>2. CASE i # next
        BY <4>2, <2>2 DEF RInv, MeasuredInv
      <4>. QED
        BY <4>1, <4>2
    <3>2. ASSUME NEW d \in DOMAIN filesystems'
          PROVE  /\ d \in Devices /\ filesystems'[d] \in Fillings
                 /\ HasRoom(filesystems'[d]) => d \in roomy'
      <4>1. CASE d \in seen
        BY <2>2, <4>1 DEF RInv, MeasuredInv
      <4>2. CASE d \notin seen
        BY <2>2, <2>3, <4>2 DEF RInv, MeasuredInv
      <4>. QED
        BY <4>1, <4>2
    <3>. QED
      BY <1>1, <2>2, <2>3, <3>1, <3>2 DEF RInv, MeasuredInv, layout
  <2>5. LaunchHadRoom'
    BY <1>4, <2>2 DEF RInv, LaunchHadRoom, MeasurePath, layout, vars
  <2>. QED
    BY <2>1, <2>4, <2>5 DEF RInv
<1>5. CASE Lifecycle
  <2>1. JInv' /\ UNCHANGED storage /\ Next
    BY <1>5, JobStep DEF RInv, Lifecycle
  <2>2. MeasuredInv'
    BY <2>1 DEF RInv, MeasuredInv, storage, layout, StoragePaths
  <2>3. LaunchHadRoom'
    <3>1. CASE attempted' = attempted
      BY <2>1, <3>1 DEF RInv, LaunchHadRoom, storage, layout
    <3>2. CASE attempted' # attempted
      <4>1. Prepare
        BY <2>1, <3>2 DEF Next, Run, Proceed, Command, Done, Launch, LaunchInterrupted, WaitReturns,
           WaitTimeout, JudgeComplete, JudgeUnresolved, Leave, Interrupt, RaiseUnattempted,
           RaiseAttempted, Crash, OperationStarts, OperationEnds, WriteReceipt, Spawn,
           ChildrenEnd, LeaderEnds, host, vars
      <4>2. Admissible
        BY <1>5, <4>1 DEF Lifecycle, Prepare
      <4>3. next > Len(StoragePaths) /\ next = Len(StoragePaths) + 1
        BY <1>1, <4>2 DEF Admissible, RInv, MeasuredInv
      <4>4. \A i \in 1..Len(StoragePaths) : mount[StoragePaths[i]] \in roomy
        <5>. SUFFICES ASSUME NEW i \in 1..Len(StoragePaths)
                      PROVE  mount[StoragePaths[i]] \in roomy
          OBVIOUS
        <5>. DEFINE d == mount[StoragePaths[i]]
        <5>1. d \in DOMAIN filesystems
          BY <1>1, <4>3 DEF RInv, MeasuredInv
        <5>2. Accounted(filesystems[d]) /\ ~Critical(filesystems[d])
          BY <4>2, <5>1 DEF Admissible
        <5>3. filesystems[d] \in Fillings /\ (HasRoom(filesystems[d]) => d \in roomy)
          BY <5>1 DEF RInv, MeasuredInv
        <5>. QED
          BY <5>2, <5>3, AdmissibleHasRoom
      <4>5. sources \in Configurations
        BY DEF RInv, MeasuredInv
      <4>6. mount[sources.docker] \in roomy
        BY <1>1, <4>4, <4>5, PathOrder
      <4>7. sources.containerd # Absent => mount[sources.containerd] \in roomy
        BY <4>4, <4>5, PathOrder
      <4>8. \A j \in DOMAIN sources.other : mount[sources.other[j]] \in roomy
        BY <4>4, <4>5, PathOrder
      <4>9. /\ driver \in {"overlay2", "containerd"}
            /\ driver = "containerd" => sources.containerd # Absent
            /\ sources.docker = root
        BY <1>1, <4>3 DEF RInv, MeasuredInv
      <4>10. UNCHANGED <<sources, driver, root, mount, roomy>>
        BY <2>1 DEF storage, layout
      <4>. QED
        BY <4>6, <4>7, <4>8, <4>9, <4>10 DEF LaunchHadRoom
    <3>. QED
      BY <3>1, <3>2
  <2>. QED
    BY <2>1, <2>2, <2>3 DEF RInv
<1>6. ASSUME NEW d \in Devices, Write(d) PROVE RInv'
  <2>1. JInv'
    BY <1>6, JobStep DEF RInv, Write
  <2>2. PICK f \in Fillings : /\ disk' = [disk EXCEPT ![d] = f]
                              /\ roomy' = IF HasRoom(f) THEN roomy \cup {d} ELSE roomy
    BY <1>6 DEF Write
  <2>3. /\ UNCHANGED <<layout, filesystems, next, vars>> /\ StoragePaths' = StoragePaths
        /\ roomy \subseteq roomy'
    BY <1>6, <2>2 DEF Write, layout, StoragePaths
  <2>4. \A e \in Devices : HasRoom(disk'[e]) => e \in roomy'
    BY <2>2 DEF RInv, MeasuredInv
  <2>5. MeasuredInv'
    BY <2>2, <2>3, <2>4 DEF RInv, MeasuredInv, layout
  <2>6. LaunchHadRoom'
    BY <2>3 DEF RInv, LaunchHadRoom, layout, vars
  <2>. QED
    BY <2>1, <2>5, <2>6 DEF RInv
<1>. QED
  BY <1>2, <1>3, <1>4, <1>5, <1>6 DEF RunNext

LEMMA RunInvariance == RunSpec => []RInv
<1>1. RunInit => RInv
  <2>. SUFFICES ASSUME RunInit PROVE RInv
    OBVIOUS
  <2>1. JInv
    BY DEF RunInit, Init, JInv, TypeOK, KnownIsQuiet, Busy, GroupAlive
  <2>2. Len(StoragePaths) \in Nat
    BY PathOrder DEF RunInit
  <2>3. MeasuredInv
    BY <2>2 DEF RunInit, MeasuredInv
  <2>4. LaunchHadRoom
    BY DEF RunInit, Init, LaunchHadRoom
  <2>. QED
    BY <2>1, <2>3, <2>4 DEF RInv
<1>. QED
  BY <1>1, RunStep, PTL DEF RunSpec

(* A command is launched only where every filesystem the daemon's storage   *)
(* is configured to use had room, for any number of paths and disks.        *)
THEOREM CapacityBeforeLaunch == RunSpec => []LaunchHadRoom
<1>1. RInv => LaunchHadRoom
  BY DEF RInv
<1>. QED
  BY <1>1, RunInvariance, PTL

(* The check of capacity only adds steps before the launch: what holds of   *)
(* JobLifecycle, the lease contract included, holds of JobRun.              *)
THEOREM RunIsJobLifecycle == RunSpec => Spec
<1>1. RunInit => Init
  BY DEF RunInit
<1>2. [RunNext]_runvars => [Next]_vars
  BY DEF RunNext, runvars, CheckLayout, MeasurePath, Lifecycle, Write
<1>. QED
  BY <1>1, <1>2, PTL DEF RunSpec, Spec
=============================================================================
