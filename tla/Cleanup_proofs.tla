---------------------------- MODULE Cleanup_proofs ----------------------------
(***************************************************************************)
(* Proofs about Cleanup for every set of objects, every policy and every   *)
(* behaviour of the environment that a scenario allows.                    *)
(***************************************************************************)
EXTENDS Cleanup, TLAPS

USE CleanupAssumption

LEMMA StageNames ==
    ASSUME stage \in 1 .. Len(Order)
    PROVE  Stage \in {"containers", "networks", "dangling-images", "cache", "tagged-images"}
  BY DEF Stage, Order, Stages

(* A step keeps the inductive invariant. *)
LEMMA InvStep == IInv /\ [Next]_vars => IInv'
<1>. SUFFICES ASSUME IInv, [Next]_vars PROVE IInv'
  OBVIOUS
<1>. Stage \in {"containers", "networks", "dangling-images", "cache", "tagged-images"}
  BY StageNames DEF IInv, TypeOK
<1>. USE DEF IInv, TypeOK, ItemInv, SeenInv, JudgedInv, KindIds, OfImages, daemon, client, given
<1>1. ASSUME Load PROVE IInv'
  BY <1>1 DEF Load, Resolved, ContainerDecision, Stage
<1>2. ASSUME PruneCache PROVE IInv'
  BY <1>2 DEF PruneCache, Stage
<1>3. ASSUME Refresh PROVE IInv'
  BY <1>3 DEF Refresh, Stage
<1>4. ASSUME Resolve PROVE IInv'
  BY <1>4 DEF Resolve, Resolved, Stage
<1>5. ASSUME Inspect PROVE IInv'
  BY <1>5 DEF Inspect, Eligible, NetworkDecision, ImageDecision, ImageProfile, ImageStage, Existing, Stage
<1>6. ASSUME Remove PROVE IInv'
  BY <1>6 DEF Remove, Removable, Drop, Stage
<1>7. ASSUME RemoveSkipped PROVE IInv'
  BY <1>7 DEF RemoveSkipped, Stage
<1>8. ASSUME RemoveUnknown PROVE IInv'
  BY <1>8 DEF RemoveUnknown, Removable, Drop, Stage
<1>9. ASSUME RunFails PROVE IInv'
  BY <1>9 DEF RunFails, Stage
<1>10. ASSUME StageEnds PROVE IInv'
  BY <1>10 DEF StageEnds
<1>11. ASSUME NEW x \in todo, Pick(x) PROVE IInv'
  BY <1>11 DEF Pick, Stage
<1>12. ASSUME NEW c \in ContainerIds, CreateContainer(c) PROVE IInv'
  BY <1>12 DEF CreateContainer, Stage
<1>13. ASSUME NEW c \in ContainerIds, StartContainer(c) PROVE IInv'
  BY <1>13 DEF StartContainer, Stage
<1>14. ASSUME NEW c \in ContainerIds, ExitContainer(c) PROVE IInv'
  BY <1>14 DEF ExitContainer, Stage
<1>15. ASSUME NEW c \in ContainerIds, VanishContainer(c) PROVE IInv'
  BY <1>15 DEF VanishContainer, Stage
<1>16. ASSUME NEW ref \in Refs, NEW i \in ImageIds, Retag(ref, i) PROVE IInv'
  BY <1>16 DEF Retag, Stage
<1>17. CASE SampleExpires
  BY <1>17 DEF SampleExpires, Stage
<1>18. CASE UNCHANGED vars
  BY <1>18 DEF vars, given, Stage
<1>. QED
  BY <1>1, <1>2, <1>3, <1>4, <1>5, <1>6, <1>7, <1>8, <1>9, <1>10, <1>11, <1>12, <1>13, <1>14, <1>15, <1>16, <1>17, <1>18
     DEF Next, Apply, Environment

(* The inductive invariant holds in every reachable state. *)
THEOREM Invariance == Spec => []IInv
<1>1. Init => IInv
  BY DEF Init, IInv, TypeOK, ItemInv, SeenInv, JudgedInv, Order, Stages,
     Foreseen
<1>. QED
  BY <1>1, InvStep, PTL DEF Spec

(* Only the removal of the item takes a network or an image away. *)
LEMMA OnlyTheItemGoes ==
    ASSUME IInv, [Next]_vars
    PROVE  \/ networks' = networks /\ images' = images
           \/ /\ pc = "removing"
              /\ networks \ networks' \subseteq {item}
              /\ images \ images' \subseteq {item}
  BY DEF Next, Apply, Environment, Load, PruneCache, Pick, Refresh, Resolve, Inspect, Remove,
     RemoveSkipped, RemoveUnknown, RunFails, StageEnds, CreateContainer, StartContainer,
     ExitContainer, VanishContainer, Retag, SampleExpires, vars, given, daemon, Drop

(* A network goes from under no container, unless that was made after the   *)
(* lease check for the network.                                             *)
THEOREM NetworkSafety == Spec => NetworksKept
<1>. DEFINE Good == \A n \in networks \ networks' :
                       \A c \in containers : n \in NetworksOf[c] => c \in window
<1>1. IInv /\ [Next]_vars => Good
  <2>. SUFFICES ASSUME IInv, [Next]_vars, NEW n \in networks \ networks',
                       NEW c \in containers, n \in NetworksOf[c]
                PROVE  c \in window
    OBVIOUS
  <2>1. pc = "removing" /\ n = item
    BY OnlyTheItemGoes
  <2>2. Stage = "networks"
    BY <2>1, StageNames DEF IInv, TypeOK, ItemInv, KindIds
  <2>3. item \notin NetworkRefs(seen) /\ containers \ window \subseteq seen
    BY <2>1, <2>2 DEF IInv, JudgedInv, SeenInv
  <2>. QED
    BY <2>1, <2>3 DEF NetworkRefs
<1>. QED
  BY <1>1, Invariance, PTL DEF Spec, NetworksKept

(* No protected image goes, unless its protected tags were given to it      *)
(* after the lease check for the image.                                     *)
THEOREM ProtectedImageSafety == Spec => ProtectedImagesKept
<1>. DEFINE Good == \A i \in images \ images' :
                    i \notin PinnedImages /\ tags[i] \cap ProtectedRefs \subseteq window
<1>1. IInv /\ [Next]_vars => Good
  <2>. SUFFICES ASSUME IInv, [Next]_vars, NEW i \in images \ images' PROVE Good
    OBVIOUS
  <2>1. pc = "removing" /\ images \ images' \subseteq {item}
    BY OnlyTheItemGoes
  <2>2. OfImages
    BY <2>1, StageNames DEF IInv, TypeOK, ItemInv, KindIds, OfImages
  <2>. QED
    BY <2>1, <2>2 DEF IInv, JudgedInv
<1>. QED
  BY <1>1, Invariance, PTL DEF Spec, ProtectedImagesKept

(* Tagged images go only in the last stage of weekly runs, unless all their *)
(* tags came after the lease check for the image.                           *)
THEOREM TagSafety == Spec => TagsKept
<1>. DEFINE Good == \A i \in images \ images' :
                    \/ tags[i] \subseteq window
                    \/ Weekly /\ Trigger # "disabled" /\ Stage = "tagged-images"
<1>1. IInv /\ [Next]_vars => Good
  <2>. SUFFICES ASSUME IInv, [Next]_vars, NEW i \in images \ images' PROVE Good
    OBVIOUS
  <2>1. pc = "removing" /\ images \ images' \subseteq {item}
    BY OnlyTheItemGoes
  <2>2. OfImages
    BY <2>1, StageNames DEF IInv, TypeOK, ItemInv, KindIds, OfImages
  <2>. QED
    BY <2>1, <2>2 DEF IInv, JudgedInv
<1>. QED
  BY <1>1, Invariance, PTL DEF Spec, TagsKept

-----------------------------------------------------------------------------
(* What plan foresees. The containers it does not foresee stay; what they    *)
(* refer to is all that decides about networks and images once the others    *)
(* are gone.                                                                 *)

Kept == containers \ foreseen
NetworkDue(n) == NetworkDecision(n, NetworkRefs(Kept))
ImageDue(i) == ImageDecision(i, ImageRefs(Kept), {}) /\ ImageProfile(i)

Tame == events \subseteq {"start", "child", "expire"}

NothingElseDue ==
    /\ \A c \in Kept : ~ContainerDecision(c)
    /\ \A n \in networks \ foreseen : ~NetworkDue(n)
    /\ \A i \in images \ foreseen : ~ImageDue(i)

BoundInv ==
    Tame =>
        /\ window = {}
        /\ NothingElseDue
        /\ pc = "removing" => item \in foreseen
        /\ removed \subseteq foreseen

(* More containers refer to more.                                            *)
LEMMA MoreRefs ==
    ASSUME NEW A, NEW B, A \subseteq B
    PROVE  NetworkRefs(A) \subseteq NetworkRefs(B) /\ ImageRefs(A) \subseteq ImageRefs(B)
  BY DEF NetworkRefs, ImageRefs

(* Decisions only get stricter with more references and protections.         *)
LEMMA Stricter ==
    ASSUME NEW A, NEW B, A \subseteq B, NEW x, NEW kept
    PROVE  /\ NetworkDecision(x, NetworkRefs(B)) => NetworkDecision(x, NetworkRefs(A))
           /\ NetworkDecision(x, NetworkRefs(B)) => NetworkDecision(x, {})
           /\ ImageDecision(x, ImageRefs(B), kept) => ImageDecision(x, ImageRefs(A), {})
           /\ ImageDecision(x, ImageRefs(B), {}) => ImageDecision(x, {}, {})
  BY MoreRefs DEF NetworkDecision, ImageDecision

(* Who starts, expires or removes what was foreseen makes nothing else due.  *)
LEMMA NothingElseBecomesDue ==
    ASSUME NothingElseDue, UNCHANGED foreseen,
           containers' \subseteq containers, Kept' = Kept,
           running \subseteq running',
           networks' \subseteq networks, images' \subseteq images,
           \A i \in images' : tags'[i] = tags[i],
           pressured' => pressured
    PROVE  NothingElseDue'
<1>1. \A c \in Kept' : ~ContainerDecision(c)'
  BY DEF NothingElseDue, ContainerDecision
<1>2. NetworkRefs(running) \subseteq NetworkRefs(running')
  BY MoreRefs
<1>3. \A n \in networks' \ foreseen' : ~NetworkDue(n)'
  BY <1>2 DEF NothingElseDue, NetworkDue, NetworkDecision
<1>4. \A i \in images' \ foreseen' : ~ImageDue(i)'
  BY DEF NothingElseDue, ImageDue, ImageDecision, ImageProfile
<1>. QED
  BY <1>1, <1>3, <1>4 DEF NothingElseDue

(* What is found eligible was foreseen.                                      *)
LEMMA EligibleWasForeseen ==
    ASSUME IInv, NothingElseDue, window = {}, pc = "inspecting", item \in Existing, Eligible
    PROVE  item \in foreseen
<1>. USE DEF IInv, TypeOK, ItemInv, SeenInv, KindIds, Existing, Eligible
<1>1. Stage \in {"containers", "networks", "dangling-images", "cache", "tagged-images"}
  BY StageNames
<1>2. CASE Stage = "containers"
  BY <1>2 DEF NothingElseDue, Kept
<1>3. CASE Stage = "networks"
  <2>1. item \in networks /\ Kept \subseteq seen /\ NetworkDecision(item, NetworkRefs(seen))
    BY <1>3 DEF Kept
  <2>2. NetworkDue(item)
    BY <2>1, Stricter DEF NetworkDue
  <2>. QED
    BY <2>1, <2>2 DEF NothingElseDue
<1>4. CASE Stage \in {"dangling-images", "tagged-images"}
  <2>1. /\ item \in images /\ Kept \subseteq seen
        /\ ImageDecision(item, ImageRefs(seen), protected) /\ ImageProfile(item)
    BY <1>4 DEF Kept
  <2>2. ImageDue(item)
    BY <2>1, Stricter DEF ImageDue
  <2>. QED
    BY <2>1, <2>2 DEF NothingElseDue
<1>5. CASE Stage = "cache"
  BY <1>5
<1>. QED
  BY <1>1, <1>2, <1>3, <1>4, <1>5

(* At the start, what is due is foreseen, dependents included.               *)
LEMMA ForeseenAtStart ==
    ASSUME IInv, foreseen = Foreseen
    PROVE  /\ NothingElseDue
           /\ \A c \in foreseen \cap ContainerIds : c \in containers /\ ContainerDecision(c)
           /\ \A n \in foreseen \cap NetworkIds : n \in networks /\ NetworkDue(n)
           /\ \A i \in foreseen \cap ImageIds : i \in images /\ ImageDue(i)
<1>. DEFINE later == containers \ {c \in containers : ContainerDecision(c)}
<1>1. \A i \in images : \A refs : ImageDecision(i, refs, Resolved) <=> ImageDecision(i, refs, {})
  BY DEF ImageDecision, Resolved
<1>2. foreseen = {c \in containers : ContainerDecision(c)}
                 \cup {n \in networks : NetworkDecision(n, NetworkRefs(later))}
                 \cup {i \in images : ImageDecision(i, ImageRefs(later), {}) /\ ImageProfile(i)}
  BY <1>1 DEF Foreseen
<1>. USE DEF IInv, TypeOK
<1>3. Kept = later
  BY <1>2 DEF Kept
<1>. HIDE DEF later
<1>4. \A c \in containers : c \in foreseen <=> ContainerDecision(c)
  BY <1>2
<1>5. \A n \in networks : n \in foreseen <=> NetworkDue(n)
  BY <1>2, <1>3 DEF NetworkDue
<1>6. \A i \in images : i \in foreseen <=> ImageDue(i)
  BY <1>2, <1>3 DEF ImageDue
<1>7. foreseen \subseteq containers \cup networks \cup images
  BY <1>2
<1>. QED
  BY <1>4, <1>5, <1>6, <1>7 DEF NothingElseDue, Kept

(* A step removes nothing that plan does not report.                         *)
LEMMA BoundStep == IInv /\ BoundInv /\ [Next]_vars => BoundInv'
<1>. SUFFICES ASSUME IInv, BoundInv, [Next]_vars PROVE BoundInv'
  OBVIOUS
<1>1. UNCHANGED given
  BY DEF Next, Apply, Environment, Load, PruneCache, Pick, Refresh, Resolve, Inspect,
     Remove, RemoveSkipped, RemoveUnknown, RunFails, StageEnds, CreateContainer,
     StartContainer, ExitContainer, VanishContainer, Retag, SampleExpires, vars
<1>. SUFFICES ASSUME Tame PROVE BoundInv'
  BY <1>1 DEF BoundInv, Tame, given
<1>2. window = {} /\ NothingElseDue /\ (pc = "removing" => item \in foreseen)
      /\ removed \subseteq foreseen
  BY DEF BoundInv
<1>. USE <1>1, <1>2 DEF BoundInv, given
<1>3. UNCHANGED daemon => NothingElseDue'
  BY NothingElseBecomesDue DEF daemon, Kept
<1>4. ASSUME Load \/ PruneCache \/ Refresh \/ Resolve \/ RemoveSkipped \/ RunFails
             \/ StageEnds \/ \E x \in todo : Pick(x)
      PROVE  BoundInv'
  BY <1>3, <1>4 DEF Load, PruneCache, Refresh, Resolve, RemoveSkipped, RunFails, StageEnds, Pick
<1>5. ASSUME Inspect PROVE BoundInv'
  BY <1>3, <1>5, EligibleWasForeseen DEF Inspect
<1>6. ASSUME Remove \/ RemoveUnknown PROVE BoundInv'
  <2>1. item \in foreseen /\ Drop(item) /\ pc' # "removing"
        /\ window' = window /\ removed' \subseteq removed \cup {item}
    BY <1>6 DEF Remove, RemoveUnknown
  <2>2. NothingElseDue'
    BY <2>1, NothingElseBecomesDue DEF Drop, Kept, IInv, TypeOK
  <2>. QED
    BY <2>1, <2>2
<1>7. ASSUME NEW c \in ContainerIds, StartContainer(c) PROVE BoundInv'
  <2>1. NothingElseDue'
    BY <1>7, NothingElseBecomesDue DEF StartContainer, Kept
  <2>. QED
    BY <1>7, <2>1 DEF StartContainer, client
<1>8. ASSUME SampleExpires PROVE BoundInv'
  <2>1. NothingElseDue'
    BY <1>8, NothingElseBecomesDue DEF SampleExpires, Kept
  <2>. QED
    BY <1>8, <2>1 DEF SampleExpires, client
<1>9. ASSUME \/ \E c \in ContainerIds : CreateContainer(c) \/ ExitContainer(c) \/ VanishContainer(c)
             \/ \E ref \in Refs, i \in ImageIds : Retag(ref, i)
      PROVE  FALSE
  BY <1>9 DEF CreateContainer, ExitContainer, VanishContainer, Retag, Tame
<1>10. CASE UNCHANGED vars
  BY <1>3, <1>10 DEF vars, client
<1>. QED
  BY <1>4, <1>5, <1>6, <1>7, <1>8, <1>9, <1>10 DEF Next, Apply, Environment

(* The bound holds in every reachable state.                                 *)
LEMMA BoundInvariance == Spec => []BoundInv
<1>1. Init /\ IInv => BoundInv
  BY ForeseenAtStart DEF Init, BoundInv
<1>. QED
  BY <1>1, BoundStep, Invariance, PTL DEF Spec

(* What plan reports bounds what apply removes, if containers at most start, *)
(* for every set of objects and every policy.                                *)
THEOREM PlanIsBound == Spec => []PlanBounds
<1>1. BoundInv => PlanBounds
  BY DEF BoundInv, Tame, PlanBounds
<1>. QED
  BY <1>1, BoundInvariance, PTL

(* A run that nothing disturbs. What is left of the plan is still due; the   *)
(* stages that are over have left nothing of theirs.                         *)

Due == foreseen \ removed
HasItem == pc \in {"refreshing", "resolving", "inspecting", "removing"}

OfStage ==
    CASE Stage = "containers" -> ContainerIds
      [] Stage = "networks" -> NetworkIds
      [] Stage = "cache" -> {}
      [] OTHER -> {i \in ImageIds : ImageStage(i)}

StillDue ==
    /\ \A c \in Due \cap ContainerIds : c \in containers /\ ContainerDecision(c)
    /\ \A n \in Due \cap NetworkIds : n \in networks /\ NetworkDue(n)
    /\ \A i \in Due \cap ImageIds : i \in images /\ ImageDue(i)
    /\ removed \cap Existing = {}

StagesOver ==
    /\ stage > 1 => Due \cap ContainerIds = {}
    /\ stage > 2 => Due \cap NetworkIds = {}
    /\ stage > 3 => \A i \in Due \cap ImageIds : tags[i] # {}
    /\ pc = "done" => Due = {}

ThisStage ==
    /\ pc = "listing" => Due \cap OfStage \subseteq todo
    /\ HasItem => Due \cap OfStage \subseteq todo \cup {item}
    /\ pc = "removing" => item \in foreseen \cap Existing

Current ==
    /\ protected \cap foreseen = {}
    /\ pc \in {"resolving", "inspecting", "removing"} /\ Stage # "containers" =>
           seen = containers

CompleteInv ==
    events = {} /\ pc # "failed" => StillDue /\ StagesOver /\ ThisStage /\ Current

(* The stages are numbered in their order.                                   *)
LEMMA StageNumbers ==
    ASSUME stage \in 1 .. Len(Order)
    PROVE  /\ Stage = "containers" <=> stage = 1
           /\ Stage = "networks" <=> stage = 2
           /\ Stage = "dangling-images" <=> stage = 3
           /\ Stage = "cache" <=> stage = 4
           /\ Stage = "tagged-images" <=> stage = 5
           /\ Len(Order) = 5
  BY DEF Stage, Order, Stages

(* Steps that leave the daemon and what was removed alone.                   *)
LEMMA StillDueStays ==
    ASSUME StillDue, UNCHANGED <<daemon, removed, foreseen>>
    PROVE  /\ StillDue' /\ Due' = Due
           /\ \A i \in ImageIds : tags'[i] = tags[i]
  BY DEF StillDue, Due, daemon, Kept, NetworkDue, ImageDue, NetworkDecision, ImageDecision,
     ImageProfile, ContainerDecision, Existing

(* Nothing of the plan is protected.                                         *)
LEMMA DueUnprotected ==
    ASSUME TypeOK, StillDue
    PROVE  Resolved \cap foreseen = {}
<1>. SUFFICES ASSUME NEW i \in Resolved, i \in foreseen PROVE FALSE
  OBVIOUS
<1>1. i \in images /\ i \in ImageIds /\ tags[i] \cap ProtectedRefs # {}
  BY DEF Resolved, TypeOK
<1>2. i \in Due \cap ImageIds
  BY <1>1 DEF Due, StillDue, Existing
<1>. QED
  BY <1>1, <1>2 DEF StillDue, ImageDue, ImageDecision

(* What is due of the stage is found eligible: whatever a network or an      *)
(* image of the plan was waiting for is gone.                                *)
LEMMA DueIsEligible ==
    ASSUME IInv, StillDue, StagesOver, Current, pc \in {"inspecting", "removing"},
           item \in Due \cap OfStage
    PROVE  item \in Existing /\ Eligible /\ Removable(item)
<1>. USE DEF IInv, TypeOK
<1>0. Stage \in {"containers", "networks", "dangling-images", "cache", "tagged-images"}
  BY StageNames
<1>1. ASSUME Stage # "containers" PROVE seen = Kept /\ containers = Kept
  <2>1. stage > 1
    BY <1>1, StageNumbers
  <2>2. containers \cap foreseen = {}
    BY <2>1 DEF StagesOver, Due, StillDue, Existing
  <2>. QED
    BY <1>1, <2>2 DEF Current, Kept
<1>2. CASE Stage = "containers"
  BY <1>2 DEF OfStage, StillDue, Existing, Eligible, Removable, ContainerDecision
<1>3. CASE Stage = "networks"
  <2>1. item \in networks /\ NetworkDecision(item, NetworkRefs(Kept))
    BY <1>3 DEF OfStage, StillDue, NetworkDue
  <2>. QED
    BY <1>1, <1>3, <2>1 DEF Existing, Eligible, Removable, NetworkDecision
<1>4. CASE Stage \in {"dangling-images", "tagged-images"}
  <2>1. /\ item \in images /\ ImageDecision(item, ImageRefs(Kept), {})
        /\ ImageProfile(item) /\ ImageStage(item) /\ item \notin protected
    BY <1>4 DEF OfStage, StillDue, ImageDue, Current, Due
  <2>2. ImageDecision(item, ImageRefs(Kept), protected)
    BY <2>1 DEF ImageDecision
  <2>. QED
    BY <1>1, <1>4, <2>1, <2>2 DEF Existing, Eligible, Removable, ImageDecision
<1>5. CASE Stage = "cache"
  BY <1>5 DEF OfStage
<1>. QED
  BY <1>0, <1>2, <1>3, <1>4, <1>5

(* What is due of a stage is found when it begins.                           *)
LEMMA LoadFindsDue ==
    ASSUME IInv, StillDue, Current, Load
    PROVE  Due \cap OfStage \subseteq todo'
<1>. USE DEF IInv, TypeOK
<1>0. Stage \in {"containers", "networks", "dangling-images", "cache", "tagged-images"}
  BY StageNames
<1>1. CASE Stage = "containers"
  BY <1>1 DEF Load, OfStage, StillDue
<1>2. CASE Stage = "networks"
  <2>1. ASSUME NEW n \in Due \cap NetworkIds PROVE n \in networks /\ NetworkDecision(n, {})
    BY Stricter DEF StillDue, NetworkDue
  <2>. QED
    BY <1>2, <2>1 DEF Load, OfStage
<1>3. CASE Stage \in {"dangling-images", "tagged-images"}
  <2>1. protected' \cap foreseen = {}
    BY DueUnprotected DEF Load, Current
  <2>2. ASSUME NEW i \in Due \cap OfStage
        PROVE  i \in images /\ ImageStage(i) /\ ImageDecision(i, {}, protected') /\ ImageProfile(i)
    <3>1. i \in Due \cap ImageIds /\ ImageStage(i) /\ i \notin protected'
      BY <1>3, <2>1, <2>2 DEF OfStage, Due
    <3>2. i \in images /\ ImageDecision(i, ImageRefs(Kept), {}) /\ ImageProfile(i)
      BY <3>1 DEF StillDue, ImageDue
    <3>. QED
      BY <3>1, <3>2 DEF ImageDecision
  <2>. QED
    BY <1>3, <2>2 DEF Load
<1>4. CASE Stage = "cache"
  BY <1>4 DEF OfStage
<1>. QED
  BY <1>0, <1>1, <1>2, <1>3, <1>4

(* When a stage ends, nothing of it is left.                                 *)
LEMMA StageLeavesNothing ==
    ASSUME IInv, StagesOver, ThisStage, StageEnds
    PROVE  StagesOver'
<1>. USE DEF IInv, TypeOK
<1>0. Len(Order) = 5 /\ stage \in {1, 2, 3, 4, 5}
  <2>1. Len(Order) = 5
    BY StageNumbers
  <2>2. stage \in 1 .. 5
    BY <2>1
  <2>3. \A n \in 1 .. 5 : n \in {1, 2, 3, 4, 5}
    OBVIOUS
  <2>. QED
    BY <2>1, <2>2, <2>3
<1>1. /\ Due' = Due /\ tags' = tags /\ Due \cap OfStage = {}
      /\ stage' = IF stage = 5 THEN stage ELSE stage + 1
      /\ pc' = IF stage = 5 THEN "done" ELSE "stage"
      /\ stage \in {1, 2, 3, 4, 5}
  BY <1>0 DEF StageEnds, ThisStage, Due, daemon, given
<1>2. Due \subseteq ContainerIds \cup NetworkIds \cup ImageIds
  BY DEF Due
<1>3. CASE stage = 1
  BY <1>1, <1>3, StageNumbers DEF OfStage, StagesOver
<1>4. CASE stage = 2
  BY <1>1, <1>4, StageNumbers DEF OfStage, StagesOver
<1>5. CASE stage = 3
  <2>1. \A i \in Due \cap ImageIds : tags[i] # {}
    BY <1>1, <1>5, StageNumbers DEF OfStage, ImageStage
  <2>. QED
    BY <1>1, <1>5, <2>1 DEF StagesOver
<1>6. CASE stage = 4
  BY <1>1, <1>6 DEF StagesOver
<1>7. CASE stage = 5
  <2>1. \A i \in Due \cap ImageIds : tags[i] = {}
    BY <1>1, <1>7, StageNumbers DEF OfStage, ImageStage
  <2>2. Due = {}
    BY <1>2, <1>7, <2>1 DEF StagesOver
  <2>. QED
    BY <1>1, <1>7, <2>2 DEF StagesOver
<1>. QED
  BY <1>1, <1>3, <1>4, <1>5, <1>6, <1>7

(* An undisturbed step keeps what is left of the plan due until its turn.     *)
LEMMA CompleteStep ==
    IInv /\ BoundInv /\ CompleteInv /\ [Next]_vars => CompleteInv'
<1>. SUFFICES ASSUME IInv, BoundInv, CompleteInv, [Next]_vars PROVE CompleteInv'
  OBVIOUS
<1>1. UNCHANGED given /\ (pc' # "failed" => pc # "failed")
  BY DEF Next, Apply, Environment, Load, PruneCache, Pick, Refresh, Resolve, Inspect,
     Remove, RemoveSkipped, RemoveUnknown, RunFails, StageEnds, CreateContainer,
     StartContainer, ExitContainer, VanishContainer, Retag, SampleExpires, vars, client
<1>. SUFFICES ASSUME events = {}, pc # "failed", pc' # "failed" PROVE CompleteInv'
  BY <1>1 DEF CompleteInv, given
<1>2. StillDue /\ StagesOver /\ ThisStage /\ Current
  BY DEF CompleteInv
<1>3. UNCHANGED <<foreseen, events>>
  BY <1>1 DEF given
<1>4. ASSUME UNCHANGED <<daemon, removed>>
      PROVE  StillDue' /\ Due' = Due /\ \A i \in ImageIds : tags'[i] = tags[i]
  BY <1>2, <1>3, <1>4, StillDueStays
<1>5. ASSUME UNCHANGED <<daemon, removed, stage>>, pc' # "done" PROVE StagesOver'
  BY <1>2, <1>4, <1>5 DEF StagesOver
<1>6. ASSUME UNCHANGED <<daemon, removed, stage>> PROVE OfStage' = OfStage
  BY <1>6 DEF OfStage, Stage, ImageStage, daemon
<1>. USE DEF IInv, TypeOK, HasItem
<1>7. ASSUME Load PROVE CompleteInv'
  <2>1. UNCHANGED <<daemon, removed, stage>> /\ pc' = "listing"
        /\ protected' \cap foreseen = {}
    BY <1>2, <1>7, DueUnprotected DEF Load, Current
  <2>2. ThisStage'
    BY <1>2, <1>4, <1>6, <1>7, <2>1, LoadFindsDue DEF ThisStage
  <2>. QED
    BY <1>2, <1>3, <1>4, <1>5, <2>1, <2>2 DEF CompleteInv, Current
<1>8. ASSUME PruneCache PROVE CompleteInv'
  <2>1. UNCHANGED <<daemon, removed, stage, protected>> /\ pc' = "listing" /\ OfStage = {}
    BY <1>8 DEF PruneCache, OfStage
  <2>. QED
    BY <1>2, <1>3, <1>4, <1>5, <1>6, <2>1 DEF CompleteInv, Current, ThisStage
<1>9. ASSUME NEW x \in todo, Pick(x) PROVE CompleteInv'
  <2>1. /\ UNCHANGED <<daemon, removed, stage, protected>>
        /\ pc = "listing" /\ todo' = todo \ {x} /\ item' = x
        /\ pc' = IF Stage = "containers" THEN "inspecting" ELSE "refreshing"
        /\ Stage' = Stage
    BY <1>9 DEF Pick, Stage
  <2>2. ThisStage'
    BY <1>2, <1>4, <1>6, <2>1 DEF ThisStage
  <2>3. Current'
    BY <1>2, <1>3, <2>1 DEF Current
  <2>. QED
    BY <1>4, <1>5, <2>1, <2>2, <2>3 DEF CompleteInv
<1>10. ASSUME Refresh \/ Resolve PROVE CompleteInv'
  <2>1. /\ UNCHANGED <<daemon, removed, stage, todo, item>>
        /\ pc \in {"refreshing", "resolving"} /\ pc' \in {"resolving", "inspecting"}
        /\ Stage' = Stage
    BY <1>10 DEF Refresh, Resolve, Stage
  <2>2. ThisStage'
    BY <1>2, <1>4, <1>6, <2>1 DEF ThisStage
  <2>3. Current'
    BY <1>2, <1>3, <1>10, <2>1, DueUnprotected DEF Current, Refresh, Resolve, SeenInv, daemon
  <2>. QED
    BY <1>4, <1>5, <2>1, <2>2, <2>3 DEF CompleteInv
<1>11. ASSUME Inspect PROVE CompleteInv'
  <2>1. /\ UNCHANGED <<daemon, removed, stage, todo, item, protected, seen>>
        /\ pc = "inspecting"
        /\ pc' = IF item \in Existing /\ Eligible THEN "removing" ELSE "listing"
        /\ Stage' = Stage /\ Existing' = Existing
    BY <1>11 DEF Inspect, Stage, Existing, daemon
  <2>2. pc' = "removing" => item \in foreseen
    BY <1>11, <2>1, EligibleWasForeseen DEF BoundInv, Tame
  <2>3. pc' = "listing" => item \notin Due \cap OfStage
    BY <1>2, <2>1, DueIsEligible
  <2>4. ThisStage'
    BY <1>2, <1>3, <1>4, <1>6, <2>1, <2>2, <2>3 DEF ThisStage
  <2>5. Current'
    BY <1>2, <1>3, <2>1 DEF Current, daemon
  <2>. QED
    BY <1>4, <1>5, <2>1, <2>4, <2>5 DEF CompleteInv
<1>12. ASSUME Remove PROVE CompleteInv'
  <2>1. /\ pc = "removing" /\ pc' = "listing" /\ Drop(item) /\ removed' = removed \cup {item}
        /\ UNCHANGED <<stage, todo, protected>> /\ item \in foreseen
        /\ Stage' = Stage
    BY <1>2, <1>12 DEF Remove, ThisStage, Stage
  <2>2. /\ Due' = Due \ {item} /\ Kept' = Kept /\ running' = running /\ pressured' = pressured
        /\ \A i \in ImageIds : i # item => tags'[i] = tags[i]
        /\ item \notin Existing' /\ Existing' \subseteq Existing
    BY <1>3, <2>1 DEF Due, Kept, Drop, Existing
  <2>3. StillDue'
    <3>1. \A c \in Due' \cap ContainerIds : c \in containers' /\ ContainerDecision(c)'
      BY <1>2, <2>1, <2>2 DEF StillDue, Drop, ContainerDecision
    <3>2. \A n \in Due' \cap NetworkIds : n \in networks' /\ NetworkDue(n)'
      BY <1>2, <2>1, <2>2 DEF StillDue, Drop, NetworkDue, NetworkDecision
    <3>3. \A i \in Due' \cap ImageIds : i \in images' /\ ImageDue(i)'
      BY <1>2, <2>1, <2>2 DEF StillDue, Drop, ImageDue, ImageDecision, ImageProfile
    <3>4. removed' \cap Existing' = {}
      BY <1>2, <2>1, <2>2 DEF StillDue
    <3>. QED
      BY <3>1, <3>2, <3>3, <3>4 DEF StillDue
  <2>4. StagesOver'
    BY <1>2, <2>1, <2>2 DEF StagesOver
  <2>5. Due' \cap OfStage' \subseteq todo'
    <3>1. \A x \in Due' \cap OfStage' : x \in Due \cap OfStage
      BY <2>1, <2>2 DEF OfStage, ImageStage
    <3>. QED
      BY <1>2, <2>1, <2>2, <3>1 DEF ThisStage
  <2>. QED
    BY <1>2, <1>3, <2>1, <2>3, <2>4, <2>5 DEF CompleteInv, ThisStage, Current
<1>13. ASSUME RemoveSkipped PROVE CompleteInv'
  <2>1. /\ UNCHANGED <<daemon, removed, stage, todo, item, protected>>
        /\ pc = "removing" /\ pc' = "listing" /\ ~Removable(item)
    BY <1>13 DEF RemoveSkipped
  <2>2. item \notin Due \cap OfStage
    BY <1>2, <2>1, DueIsEligible
  <2>3. ThisStage'
    BY <1>2, <1>4, <1>6, <2>1, <2>2 DEF ThisStage
  <2>. QED
    BY <1>2, <1>3, <1>4, <1>5, <2>1, <2>3 DEF CompleteInv, Current
<1>14. ASSUME StageEnds PROVE CompleteInv'
  <2>1. UNCHANGED <<daemon, removed, protected>> /\ pc' \in {"done", "stage"}
    BY <1>14 DEF StageEnds
  <2>2. StagesOver'
    BY <1>2, <1>14, StageLeavesNothing
  <2>. QED
    BY <1>2, <1>3, <1>4, <2>1, <2>2 DEF CompleteInv, ThisStage, Current
<1>15. ASSUME RunFails \/ RemoveUnknown \/ Environment PROVE FALSE
  BY <1>15 DEF RunFails, RemoveUnknown, Environment, CreateContainer, StartContainer,
     ExitContainer, VanishContainer, Retag, SampleExpires
<1>16. CASE UNCHANGED vars
  <2>1. UNCHANGED <<daemon, client>> /\ Stage' = Stage /\ Existing' = Existing
    BY <1>16 DEF vars, client, daemon, Stage, Existing
  <2>2. StagesOver' /\ ThisStage' /\ Current'
    BY <1>2, <1>3, <1>4, <1>6, <2>1 DEF client, daemon, StagesOver, ThisStage, Current
  <2>. QED
    BY <1>4, <2>1, <2>2 DEF CompleteInv, client
<1>. QED
  BY <1>7, <1>8, <1>9, <1>10, <1>11, <1>12, <1>13, <1>14, <1>15, <1>16 DEF Next, Apply

(* A run that nothing disturbs removes all that plan reports, the dependents *)
(* included: the order of the stages is enough to set them free in time.     *)
THEOREM PlanIsComplete == Spec => []PlanCompletes
<1>1. Init /\ IInv => CompleteInv
  BY ForeseenAtStart DEF Init, CompleteInv, StillDue, StagesOver, ThisStage, Current, Due, HasItem
<1>2. CompleteInv => PlanCompletes
  BY DEF CompleteInv, StagesOver, Due, PlanCompletes
<1>. QED
  BY <1>1, <1>2, CompleteStep, BoundInvariance, Invariance, PTL DEF Spec
===============================================================================
