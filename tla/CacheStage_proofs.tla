-------------------------- MODULE CacheStage_proofs --------------------------
(***************************************************************************)
(* Proofs about CacheStage for every set of records, every policy, every    *)
(* clock and every scenario.                                                *)
(***************************************************************************)
EXTENDS CacheStage, FiniteSetTheorems, WellFoundedInduction, TLAPS

USE CacheAssumption

(* More seconds are at least as many ticks. *)
LEMMA TicksGrow ==
    ASSUME NEW s \in Nat, NEW t \in Nat, s >= t
    PROVE  s * TicksPerSecond >= t * TicksPerSecond
  OBVIOUS

LEMMA WholeSeconds ==
    ASSUME NEW x \in Nat, NEW t \in Nat, NEW s \in Nat, t # 0, x >= s * t
    PROVE  x \div t \in Nat /\ x \div t >= s
  OBVIOUS

(* Rounding to seconds never shortens the age. *)
LEMMA UnusedIsLongEnough ==
    ASSUME now \in Nat
    PROVE  Unused \in Nat /\ Unused >= MaxUnusedAge
<1>. DEFINE x == now - Threshold + TicksPerSecond - 1
<1>1. MaxUnusedAge * TicksPerSecond \in Nat
  OBVIOUS
<1>2. x \in Nat /\ x >= MaxUnusedAge * TicksPerSecond
  BY <1>1 DEF Threshold
<1>. HIDE DEF x
<1>3. x \div TicksPerSecond \in Nat /\ x \div TicksPerSecond >= MaxUnusedAge
  BY <1>2, WholeSeconds
<1>. QED
  BY <1>3 DEF Unused, x

(* A step keeps the part that does not depend on who else is there. *)
LEMMA RunInvStep == RunInv /\ [Next]_vars => RunInv'
<1>. SUFFICES ASSUME RunInv, [Next]_vars PROVE RunInv'
  OBVIOUS
<1>. USE DEF RunInv, TypeOK, RequestInv, SelectionInv, CodeIsTruthful, Capable, Known,
             records, policy, client, daemon
<1>1. CASE Preflight
  BY <1>1 DEF Preflight
<1>2. CASE PreflightFails
  BY <1>2 DEF PreflightFails, Fail
<1>3. CASE ReachStage
  <2>1. mutated' \in BOOLEAN
    BY <1>3 DEF ReachStage
  <2>2. /\ pc = "stages" /\ pc' \in {"observing", "done"} /\ (Capable \/ mode = "off")
        /\ UNCHANGED <<present, inUse, shared, last, now, mode, include_internal, filters,
                       stage, candidates, unused, code, status, request, counted, dropped>>
    BY <1>3 DEF ReachStage
  <2>3. pc' = "observing" => mode = "scheduled"
    BY <1>3 DEF ReachStage
  <2>. QED
    BY <2>1, <2>2, <2>3
<1>4. CASE ObserveForAge
  <2>1. candidates' \subseteq RecordIds /\ \A r \in candidates' : last[r] \in Int
    BY <1>4 DEF ObserveForAge, Candidates
  <2>2. /\ UNCHANGED <<records, now, policy, mutated, code, status, daemon>>
        /\ pc = "observing" /\ stage = "age" /\ mode = "scheduled" /\ filters
    BY <1>4 DEF ObserveForAge
  <2>3. CASE stage' = "budget" /\ UNCHANGED <<pc, unused>>
    BY <2>1, <2>2, <2>3
  <2>4. CASE pc' = "guarding" /\ unused' = Unused /\ UNCHANGED stage
    BY <2>1, <2>2, <2>4, UnusedIsLongEnough
  <2>. QED
    BY <1>4, <2>3, <2>4 DEF ObserveForAge
<1>5. CASE ObserveForBudget
  BY <1>5 DEF ObserveForBudget, Candidates
<1>6. CASE ObserveAfter
  BY <1>6 DEF ObserveAfter
<1>7. CASE ObserveFails
  BY <1>7 DEF ObserveFails, Fail
<1>8. CASE GuardRefused
  BY <1>8 DEF GuardRefused, Fail
<1>9. CASE Send
  BY <1>9 DEF Send
<1>10. CASE TakeAnswer
  BY <1>10 DEF TakeAnswer
<1>11. CASE TakeError
  BY <1>11 DEF TakeError, Fail
<1>12. CASE Abandon
  BY <1>12 DEF Abandon, Fail
<1>13. CASE Interrupted
  BY <1>13 DEF Interrupted, Fail
<1>14. CASE Begin
  BY <1>14 DEF Begin
<1>15. CASE Answer
  BY <1>15 DEF Answer
<1>16. CASE Refuse
  BY <1>16 DEF Refuse
<1>17. ASSUME NEW r \in RecordIds, Drop(r) PROVE RunInv'
  BY <1>17 DEF Drop, Evictable
<1>18. ASSUME NEW r \in RecordIds, Use(r) PROVE RunInv'
  BY <1>18 DEF Use
<1>19. ASSUME NEW r \in RecordIds, Release(r) PROVE RunInv'
  BY <1>19 DEF Release
<1>20. ASSUME NEW r \in RecordIds, Build(r) PROVE RunInv'
  BY <1>20 DEF Build
<1>21. ASSUME NEW r \in RecordIds, Collect(r) PROVE RunInv'
  BY <1>21 DEF Collect, Evictable
<1>22. ASSUME NEW r \in RecordIds, Share(r) PROVE RunInv'
  BY <1>22 DEF Share
<1>23. CASE Tick
  BY <1>23 DEF Tick
<1>24. CASE UNCHANGED vars
  BY <1>24 DEF vars
<1>. QED
  BY <1>1, <1>2, <1>3, <1>4, <1>5, <1>6, <1>7, <1>8, <1>9, <1>10, <1>11, <1>12, <1>13,
     <1>14, <1>15, <1>16, <1>17, <1>18, <1>19, <1>20, <1>21, <1>22, <1>23, <1>24
     DEF Next, Prune, Daemon, Environment


-----------------------------------------------------------------------------
(* Nobody else touches the cache *)

(* Of a set of records, nothing else in the set was made on top of one. *)
LEMMA OneOnTop ==
    ASSUME NEW S \in SUBSET RecordIds, S # {}
    PROVE  \E d \in S : Dependents[d] \cap S = {}
<1>. DEFINE T == {Dependents[r] : r \in S}
<1>1. IsWellFoundedOn(StrictSubsetOrdering(RecordIds), SUBSET RecordIds)
  <2>1. FiniteSubsetsOf(RecordIds) = SUBSET RecordIds
    BY DependentsAssumption, FS_FiniteSubsetsOfFinite
  <2>2. IsWellFoundedOn(StrictSubsetOrdering(RecordIds), FiniteSubsetsOf(RecordIds))
    BY FS_StrictSubsetOrderingWellFounded
  <2>. QED
    BY <2>1, <2>2
<1>2. T \subseteq SUBSET RecordIds /\ T # {}
  OBVIOUS
<1>3. PICK D \in T : \A E \in T : <<E, D>> \notin StrictSubsetOrdering(RecordIds)
  <2>. HIDE DEF T
  <2>. QED
    BY <1>1, <1>2, WFMin
<1>4. PICK d \in S : D = Dependents[d]
  OBVIOUS
<1>5. ASSUME NEW e \in Dependents[d] \cap S PROVE FALSE
  <2>1. Dependents[e] \subseteq D /\ e \in D /\ e \notin Dependents[e]
    BY <1>4, DependentsAssumption
  <2>2. Dependents[e] \in T /\ Dependents[e] \in SUBSET RecordIds /\ D \in SUBSET RecordIds
    BY <1>4
  <2>3. <<Dependents[e], D>> \in StrictSubsetOrdering(RecordIds)
    BY <2>1, <2>2 DEF StrictSubsetOrdering
  <2>. QED
    BY <1>3, <2>2, <2>3
<1>. QED
  BY <1>5

(* If all that is due and still there has something on top of it, then so   *)
(* has each due record something that is not due.                           *)
LEMMA DueUnderOthers ==
    ASSUME present \subseteq RecordIds,
           \A r \in present : Due(r) => Dependents[r] \cap present # {}
    PROVE  NothingDue
<1>. SUFFICES ASSUME NEW r \in present, Due(r), \A d \in Dependents[r] \cap present : Due(d)
              PROVE  FALSE
  BY DEF NothingDue
<1>. DEFINE S == Dependents[r] \cap present
<1>1. S \in SUBSET RecordIds /\ S # {}
  OBVIOUS
<1>2. PICK d \in S : Dependents[d] \cap S = {}
  <2>. HIDE DEF S
  <2>. QED
    BY <1>1, OneOnTop
<1>3. Dependents[d] \subseteq Dependents[r]
  BY DependentsAssumption
<1>4. Dependents[d] \cap present # {}
  OBVIOUS
<1>. QED
  BY <1>2, <1>3, <1>4

(* Rounding to seconds passes over less than one second. *)
LEMMA UnusedIsShortEnough ==
    ASSUME now \in Nat
    PROVE  Unused * TicksPerSecond <= now - Threshold + TicksPerSecond - 1
<1>1. \A x \in Nat, t \in Nat \ {0} : (x \div t) * t <= x
  OBVIOUS
<1>2. now - Threshold + TicksPerSecond - 1 \in Nat
  <2>1. MaxUnusedAge * TicksPerSecond \in Nat
    OBVIOUS
  <2>. QED
    BY <2>1 DEF Threshold
<1>. QED
  BY <1>1, <1>2 DEF Unused

(* A request in force for what is due, or removable. *)
LEMMA DueIsSelected ==
    ASSUME TypeOK, NEW r \in present, Due(r), r \in candidates, stage = "age",
           unused * TicksPerSecond <= now - Threshold + TicksPerSecond - 1
    PROVE  Selected(r)
<1>1. last[r] \in Int /\ last[r] <= Threshold - (TicksPerSecond - 1)
  BY DEF Due, Removable, Known
<1>2. include_internal \/ r \notin InternalRecords \cup shared
  BY DEF Due, Removable, Eligible
<1>3. now \in Int /\ Threshold \in Int /\ unused * TicksPerSecond \in Int
  BY DEF TypeOK, Threshold
<1>4. last[r] <= now - unused * TicksPerSecond
  BY <1>1, <1>3
<1>. QED
  BY <1>2, <1>4 DEF Selected

LEMMA RemovableIsSelected ==
    ASSUME NEW r \in present, Removable(r), r \in candidates, stage = "budget"
    PROVE  Selected(r)
  BY DEF Selected, Removable, Eligible

LEMMA RemovableOnTop ==
    ASSUME NEW r \in present, Removable(r), Dependents[r] \cap present = {}
    PROVE  Evictable(r)
  BY DEF Evictable, Removable, Eligible, InUse


(* What a step can change then. *)
QuietMove ==
    /\ Quiet
    /\ inUse' = inUse /\ last' = last /\ include_internal' = include_internal
    /\ filters' = filters /\ mode' = mode /\ events' = events
    /\ now' \in Nat /\ now' >= now
    /\ present' \subseteq present /\ shared' = shared \cap present'
    /\ \/ Prune /\ UNCHANGED <<records, now>>
       \/ Daemon /\ UNCHANGED <<client, now>>
       \/ UNCHANGED <<records, client, daemon>>

LEMMA QuietSteps ==
    ASSUME RunInv, [Next]_vars, Quiet'
    PROVE  QuietMove
<1>. USE DEF RunInv, TypeOK, Quiet, policy, records
<1>1. CASE Prune
  <2>1. UNCHANGED <<records, now, policy>>
    BY <1>1 DEF Prune, Preflight, PreflightFails, ReachStage, ObserveForAge, ObserveForBudget,
       ObserveAfter, ObserveFails, GuardRefused, Send, TakeAnswer, TakeError, Abandon,
       Interrupted, Fail
  <2>. QED
    BY <1>1, <2>1 DEF QuietMove
<1>2. CASE Begin \/ Answer \/ Refuse
  BY <1>2 DEF Daemon, Begin, Answer, Refuse, QuietMove
<1>3. ASSUME NEW r \in RecordIds, Drop(r) PROVE QuietMove
  BY <1>3 DEF Daemon, Drop, QuietMove
<1>4. CASE Environment
  <2>1. events = {}
    BY <1>4 DEF Environment, Use, Release, Build, Collect, Share, Tick
  <2>2. Tick
    BY <1>4, <2>1 DEF Environment, Use, Release, Build, Collect, Share
  <2>. QED
    BY <2>2 DEF Tick, QuietMove
<1>5. CASE UNCHANGED vars
  BY <1>5 DEF vars, QuietMove
<1>. QED
  BY <1>1, <1>2, <1>3, <1>4, <1>5 DEF Next, Daemon

(* What is due, or removable, was so before; it stays so while it is there. *)
LEMMA SameRemovable ==
    ASSUME RunInv, QuietMove, NEW r \in present'
    PROVE  /\ r \in present
           /\ Due(r)' <=> Due(r)
           /\ Removable(r)' <=> Removable(r)
<1>1. r \in shared' <=> r \in shared
  BY DEF QuietMove
<1>2. Removable(r)' <=> Removable(r)
  BY <1>1 DEF QuietMove, Removable, Eligible, InUse, Known
<1>. QED
  BY <1>2 DEF QuietMove, Due

(* What is left to the run is left to it until something is removed. *)
LEMMA SameLeft ==
    ASSUME RunInv, QuietMove, present' = present
    PROVE  /\ NothingDue' <=> NothingDue
           /\ NothingLeft' <=> NothingLeft
           /\ WithinTarget' <=> WithinTarget
<1>1. \A r \in present : (Due(r)' <=> Due(r)) /\ (Removable(r)' <=> Removable(r))
  BY SameRemovable
<1>2. \A r \in present : \A d \in Dependents[r] \cap present : Due(d)' <=> Due(d)
  BY <1>1
<1>3. shared' = shared
  BY DEF QuietMove, RunInv, TypeOK
<1>. QED
  BY <1>1, <1>2, <1>3 DEF NothingDue, NothingLeft, WithinTarget, NonShared

LEMMA NamedStep ==
    ASSUME RunInv, NamedInv, [Next]_vars
    PROVE  NamedInv'
<1>. SUFFICES ASSUME Quiet', pc' \in {"guarding", "sending"}
              PROVE  /\ stage' = "age" =>
                          /\ \A r \in present' : Due(r)' => r \in candidates'
                          /\ unused' * TicksPerSecond <= now' - Threshold + TicksPerSecond - 1
                     /\ stage' = "budget" => \A r \in present' : Removable(r)' => r \in candidates'
  BY DEF NamedInv
<1>1. QuietMove
  BY QuietSteps
<1>2. \A r \in present' : r \in present /\ (Due(r)' <=> Due(r)) /\ (Removable(r)' <=> Removable(r))
  BY <1>1, SameRemovable
<1>3. CASE pc \in {"guarding", "sending"} /\ UNCHANGED <<stage, candidates, unused>>
  <2>1. unused * TicksPerSecond \in Int /\ Threshold \in Int
    BY DEF RunInv, TypeOK, Threshold
  <2>2. now \in Nat /\ now' \in Nat /\ now' >= now
    BY <1>1 DEF RunInv, TypeOK, QuietMove
  <2>. QED
    BY <1>1, <1>2, <1>3, <2>1, <2>2 DEF NamedInv, QuietMove
<1>4. CASE ObserveForAge
  <2>1. stage' = "age" /\ stage = "age" /\ candidates' = Candidates /\ unused' = Unused /\ now' = now
    BY <1>4 DEF ObserveForAge
  <2>2. unused' * TicksPerSecond <= now - Threshold + TicksPerSecond - 1
    BY <2>1, UnusedIsShortEnough DEF RunInv, TypeOK
  <2>3. \A r \in present : Due(r) => r \in Candidates
    BY <2>1 DEF Due, Removable, Candidates
  <2>. QED
    BY <1>2, <2>1, <2>2, <2>3
<1>5. CASE ObserveForBudget
  <2>1. stage' = "budget" /\ stage = "budget" /\ candidates' = Candidates
    BY <1>5 DEF ObserveForBudget
  <2>2. \A r \in present : Removable(r) => r \in Candidates
    BY <2>1 DEF Removable, Candidates
  <2>. QED
    BY <1>2, <2>1, <2>2
<1>6. CASE Prune /\ ~ObserveForAge /\ ~ObserveForBudget
  <2>1. pc \in {"guarding", "sending"} /\ UNCHANGED <<stage, candidates, unused>>
    BY <1>6 DEF Prune, Preflight, PreflightFails, ReachStage, ObserveAfter, ObserveFails,
       GuardRefused, Send, TakeAnswer, TakeError, Abandon, Interrupted, Fail
  <2>. QED
    BY <2>1, <1>3
<1>7. CASE UNCHANGED client
  BY <1>7, <1>3 DEF client
<1>. QED
  BY <1>1, <1>4, <1>5, <1>6, <1>7 DEF QuietMove

(* The parts of FoundInv. *)
LEMMA FoundAfter ==
    ASSUME RunInv, NamedInv, FoundInv, QuietMove, Prune
    PROVE  FoundInv'
<1>. USE DEF RunInv, TypeOK, RequestInv, QuietMove
<1>1. /\ UNCHANGED <<records, now, dropped>>
      /\ Quiet' <=> Quiet
      /\ NothingDue' <=> NothingDue
      /\ NothingLeft' <=> NothingLeft
      /\ WithinTarget' <=> WithinTarget
  <2>1. UNCHANGED <<records, now, dropped>>
    BY DEF Prune, Preflight, PreflightFails, ReachStage, ObserveForAge, ObserveForBudget,
       ObserveAfter, ObserveFails, GuardRefused, Send, TakeAnswer, TakeError, Abandon,
       Interrupted, Fail, daemon
  <2>2. Quiet' <=> Quiet
    BY DEF Quiet
  <2>. QED
    BY <2>1, <2>2, SameLeft DEF records
<1>. USE <1>1 DEF FoundInv, records, daemon
<1>2. CASE Preflight \/ PreflightFails \/ ObserveFails \/ GuardRefused \/ TakeError \/ Abandon \/ Interrupted
  BY <1>2 DEF Preflight, PreflightFails, ObserveFails, GuardRefused, TakeError, Abandon, Interrupted, Fail
<1>3. CASE ReachStage
  BY <1>3 DEF ReachStage, Quiet
<1>4. CASE ObserveForAge
  <2>1. ASSUME Candidates = {} PROVE NothingDue
    BY <1>4, <2>1 DEF ObserveForAge, NothingDue, Due, Removable, Candidates
  <2>. QED
    BY <1>4, <2>1 DEF ObserveForAge
<1>5. CASE ObserveForBudget
  <2>1. ASSUME Candidates = {} PROVE NothingLeft
    BY <1>5, <2>1 DEF ObserveForBudget, NothingLeft, Removable, Candidates
  <2>. QED
    BY <1>5, <2>1 DEF ObserveForBudget, WithinTarget
<1>6. CASE ObserveAfter
  BY <1>6 DEF ObserveAfter, WithinTarget
<1>7. CASE Send
  BY <1>7 DEF Send
<1>8. CASE TakeAnswer
  BY <1>8 DEF TakeAnswer
<1>. QED
  BY <1>2, <1>3, <1>4, <1>5, <1>6, <1>7, <1>8 DEF Prune

LEMMA FoundMeanwhile ==
    ASSUME RunInv, NamedInv, FoundInv, QuietMove, Daemon, UNCHANGED <<client, now>>
    PROVE  FoundInv'
<1>. USE DEF RunInv, TypeOK, RequestInv, QuietMove
<1>. USE DEF FoundInv, records, client, Quiet
<1>1. CASE Begin
  <2>1. present' = present
    BY <1>1 DEF Begin
  <2>2. (NothingDue' <=> NothingDue) /\ (NothingLeft' <=> NothingLeft) /\ (WithinTarget' <=> WithinTarget)
    BY <2>1, SameLeft
  <2>. QED
    BY <1>1, <2>1, <2>2 DEF Begin
<1>2. CASE Refuse
  <2>1. present' = present
    BY <1>2 DEF Refuse
  <2>2. (NothingDue' <=> NothingDue) /\ (NothingLeft' <=> NothingLeft) /\ (WithinTarget' <=> WithinTarget)
    BY <2>1, SameLeft
  <2>. QED
    BY <1>2, <2>1, <2>2 DEF Refuse
<1>3. ASSUME NEW r \in RecordIds, Drop(r) PROVE FoundInv'
  <2>1. /\ request = "running" /\ request' = "running" /\ counted' = counted
        /\ present' = present \ {r} /\ shared' = shared \ {r} /\ dropped' = dropped \cup {r}
    BY <1>3 DEF Drop
  <2>2. pc \notin {"preflight", "stages", "observing", "done"}
    BY <2>1
  <2>3. counted' \ dropped' = present' \ shared'
    BY <2>1
  <2>. QED
    BY <2>1, <2>2, <2>3
<1>4. CASE Answer
  <2>1. present' = present /\ shared' = shared /\ counted' = counted /\ dropped' = dropped
    BY <1>4 DEF Answer
  <2>2. (NothingDue' <=> NothingDue) /\ (NothingLeft' <=> NothingLeft) /\ (WithinTarget' <=> WithinTarget)
    BY <2>1, SameLeft
  <2>3. request = "running" /\ request' = "answered"
    BY <1>4 DEF Answer
  <2>4. ASSUME pc = "sending", stage = "age" PROVE NothingDue
    <3>1. \A q \in present : ~(Evictable(q) /\ Selected(q))
      BY <1>4, <2>4 DEF Answer, WithinLimit
    <3>2. \A q \in present : Due(q) => Selected(q)
      BY <2>4, DueIsSelected DEF NamedInv
    <3>3. \A q \in present : Due(q) => Dependents[q] \cap present # {}
      BY <3>1, <3>2, RemovableOnTop DEF Due
    <3>. QED
      BY <3>3, DueUnderOthers
  <2>5. ASSUME pc = "sending", stage = "budget" PROVE WithinTarget \/ NothingLeft
    <3>1. CASE WithinLimit
      BY <3>1, <2>3 DEF WithinLimit, WithinTarget, NonShared
    <3>2. CASE \A q \in present : ~(Evictable(q) /\ Selected(q))
      <4>1. \A q \in present : Removable(q) => Selected(q)
        BY <2>5, RemovableIsSelected DEF NamedInv
      <4>. QED
        BY <3>2, <4>1, RemovableOnTop DEF NothingLeft
    <3>. QED
      BY <3>1, <3>2, <1>4 DEF Answer
  <2>6. stage' = stage /\ pc' = pc /\ status' = status /\ pc \notin {"preflight", "stages", "observing", "done"}
    BY <2>3
  <2>. QED
    BY <2>1, <2>2, <2>3, <2>4, <2>5, <2>6
<1>. QED
  BY <1>1, <1>2, <1>3, <1>4 DEF Daemon

LEMMA FoundStep ==
    ASSUME RunInv, NamedInv, FoundInv, [Next]_vars
    PROVE  FoundInv'
<1>. SUFFICES ASSUME Quiet' PROVE FoundInv'
  BY DEF FoundInv
<1>1. QuietMove
  BY QuietSteps
<1>2. CASE UNCHANGED <<records, client, daemon>>
  <2>1. (NothingDue' <=> NothingDue) /\ (NothingLeft' <=> NothingLeft) /\ (WithinTarget' <=> WithinTarget)
    BY <1>1, <1>2, SameLeft DEF records
  <2>. QED
    BY <1>1, <1>2, <2>1 DEF FoundInv, QuietMove, records, client, daemon, Quiet
<1>. QED
  BY <1>1, <1>2, FoundAfter, FoundMeanwhile DEF QuietMove

(* A step keeps the inductive invariant. *)
LEMMA InvStep == IInv /\ [Next]_vars => IInv'
  BY RunInvStep, NamedStep, FoundStep DEF IInv

(* The inductive invariant holds in every reachable state. *)
THEOREM Invariance == Spec => []IInv
<1>1. ASSUME Init PROVE IInv
  <2>1. last \in [RecordIds -> Int \cup {Unknown, Unborn}]
    BY <1>1 DEF Init
  <2>2. present \subseteq RecordIds /\ inUse \subseteq present /\ shared \subseteq present
    BY <1>1, Zenon DEF Init
  <2>3. RunInv
    BY <1>1, <2>1, <2>2 DEF Init, RunInv, TypeOK, RequestInv, SelectionInv, CodeIsTruthful
  <2>. QED
    BY <1>1, <2>3 DEF Init, IInv, NamedInv, FoundInv
<1>. QED
  BY <1>1, InvStep, PTL DEF Spec

(* If nobody else touches the cache, the age request takes all that is due  *)
(* and not under something that is not, whatever records are on top of      *)
(* which; and a run that missed the target leaves nothing it could take.    *)
THEOREM QuietRunCompletes == Spec => []QuietCompletes
<1>1. IInv => QuietCompletes
  BY DEF IInv, FoundInv, QuietCompletes
<1>. QED
  BY <1>1, Invariance, PTL

(* Only the daemon, working on a request, adds to what requests removed. *)
LEMMA OnlyDropDrops ==
    ASSUME [Next]_vars, NEW r \in dropped' \ dropped
    PROVE  /\ request = "running" /\ now' = now /\ last' = last /\ stage' = stage
           /\ Selected(r) /\ OverLimit
<1>1. CASE \E q \in RecordIds : Drop(q)
  BY <1>1 DEF Drop, client, policy, Selected, OverLimit
<1>2. CASE Begin \/ Answer \/ Refuse \/ Environment
  BY <1>2 DEF Begin, Answer, Refuse, Environment, Use, Release, Build, Collect, Share, Tick,
     daemon
<1>3. CASE Prune
  BY <1>3 DEF Prune, Preflight, PreflightFails, ReachStage, ObserveForAge, ObserveForBudget,
     ObserveAfter, ObserveFails, GuardRefused, Send, TakeAnswer, TakeError, Abandon,
     Interrupted, daemon
<1>. QED
  BY <1>1, <1>2, <1>3 DEF Next, Daemon, vars, daemon

(* Requests take nothing of unknown last use, the age request nothing that  *)
(* has been used within the maximum age.                                    *)
THEOREM Retention == Spec => RecentKept
<1>. DEFINE Good == \A r \in dropped' \ dropped :
                       /\ Known(r)
                       /\ stage = "age" => now - last[r] >= MaxUnusedAge * TicksPerSecond
<1>1. IInv /\ [Next]_vars => Good
  <2>. SUFFICES ASSUME IInv, [Next]_vars, NEW r \in dropped' \ dropped
                PROVE  /\ Known(r)
                       /\ stage = "age" => now - last[r] >= MaxUnusedAge * TicksPerSecond
    OBVIOUS
  <2>1. request = "running" /\ Selected(r)
    BY OnlyDropDrops
  <2>2. Known(r)
    BY <2>1 DEF Selected, IInv, RunInv, SelectionInv
  <2>3. ASSUME stage = "age" PROVE now - last[r] >= MaxUnusedAge * TicksPerSecond
    <3>1. unused \in Nat /\ unused >= MaxUnusedAge /\ now \in Nat /\ last[r] \in Int
      BY <2>1, <2>2, <2>3 DEF IInv, RunInv, SelectionInv, TypeOK, Known
    <3>2. last[r] <= now - unused * TicksPerSecond
      BY <2>1, <2>2, <2>3, <3>1 DEF Selected
    <3>3. unused * TicksPerSecond >= MaxUnusedAge * TicksPerSecond
      BY <3>1, TicksGrow
    <3>4. unused * TicksPerSecond \in Int /\ MaxUnusedAge * TicksPerSecond \in Int
      BY <3>1
    <3>. QED
      BY <3>1, <3>2, <3>3, <3>4
  <2>. QED
    BY <2>2, <2>3
<1>. QED
  BY <1>1, Invariance, PTL DEF Spec, RecentKept

(* The space request stops at the target. *)
THEOREM BudgetLimit == Spec => BudgetStops
<1>. DEFINE Good == \A r \in dropped' \ dropped :
                       stage = "budget" => TotalSize[counted \ dropped] >= MaxUsedSpace
<1>1. IInv /\ [Next]_vars => Good
  BY OnlyDropDrops DEF IInv, RunInv, RequestInv, OverLimit
<1>. QED
  BY <1>1, Invariance, PTL DEF Spec, BudgetStops

(* An accepted exit code leaves no request behind. *)
THEOREM CodeTruth == Spec => []CodeIsTruthful
<1>1. IInv => CodeIsTruthful
  BY DEF IInv, RunInv
<1>. QED
  BY <1>1, Invariance, PTL
===================
