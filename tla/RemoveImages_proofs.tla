------------------------- MODULE RemoveImages_proofs --------------------------
(***************************************************************************)
(* Proofs about RemoveImages for every set of images, containers and       *)
(* references, and every behaviour of the environment that a scenario allows. *)
(***************************************************************************)
EXTENDS RemoveImages, TLAPS

USE RemoveAssumption

(* A step keeps the inductive invariant. *)
LEMMA InvStep == IInv /\ [Next]_vars => IInv'
<1>. SUFFICES ASSUME IInv, [Next]_vars PROVE IInv'
  OBVIOUS
<1>. USE DEF IInv, TypeOK, ItemInv, Aliases, client, given
<1>1. ASSUME Load PROVE IInv'
  BY <1>1 DEF Load, Resolved, Used
<1>2. ASSUME NEW ref \in todo, Pick(ref) PROVE IInv'
  BY <1>2 DEF Pick
<1>3. ASSUME Refresh PROVE IInv'
  BY <1>3 DEF Refresh, Used
<1>4. ASSUME Resolve PROVE IInv'
  BY <1>4 DEF Resolve, Resolved
<1>5. ASSUME Inspect PROVE IInv'
  BY <1>5 DEF Inspect, Eligible, Safe
<1>6. ASSUME Remove PROVE IInv'
  BY <1>6 DEF Remove, Untag
<1>7. ASSUME RemoveSkipped PROVE IInv'
  BY <1>7 DEF RemoveSkipped
<1>8. ASSUME RemoveFails PROVE IInv'
  BY <1>8 DEF RemoveFails, Untag
<1>9. ASSUME RunFails PROVE IInv'
  BY <1>9 DEF RunFails
<1>10. ASSUME RunEnds PROVE IInv'
  BY <1>10 DEF RunEnds
<1>11. ASSUME NEW c \in ContainerIds, CreateContainer(c) PROVE IInv'
  BY <1>11 DEF CreateContainer
<1>12. ASSUME NEW c \in ContainerIds, VanishContainer(c) PROVE IInv'
  BY <1>12 DEF VanishContainer
<1>13. ASSUME NEW ref \in Refs, NEW i \in ImageIds, Retag(ref, i) PROVE IInv'
  BY <1>13 DEF Retag
<1>14. CASE UNCHANGED vars
  BY <1>14 DEF vars, given
<1>. QED
  BY <1>1, <1>2, <1>3, <1>4, <1>5, <1>6, <1>7, <1>8, <1>9, <1>10, <1>11, <1>12, <1>13, <1>14
     DEF Next, Apply, Environment

(* The inductive invariant holds in every reachable state. *)
THEOREM Invariance == Spec => []IInv
<1>1. Init => IInv
  BY DEF Init, IInv, TypeOK, ItemInv, Foreseen
<1>. QED
  BY <1>1, InvStep, PTL DEF Spec

(* Only the item is ever taken away. *)
LEMMA OnlyTheItemGoes ==
    ASSUME IInv, [Next]_vars, NEW ref \in Taken
    PROVE  pc = "removing" /\ ref = item
<1>. USE DEF IInv, TypeOK, Taken
<1>1. CASE Remove \/ RemoveFails
  BY <1>1 DEF Remove, RemoveFails, Untag
<1>2. ASSUME NEW r \in Refs, NEW i \in ImageIds, Retag(r, i) PROVE FALSE
  BY <1>2 DEF Retag
<1>. QED
  BY <1>1, <1>2 DEF Next, Apply, Environment, Load, Pick, Refresh, Resolve, Inspect,
     RemoveSkipped, RunFails, RunEnds, CreateContainer, VanishContainer, vars, client, given

(* A reference is only taken from the image it was selected with, unless it *)
(* moved after its lease check.                                             *)
THEOREM SelectedTags == Spec => SelectedTagsOnly
<1>. DEFINE Good == \A ref \in Taken :
                        /\ ref \in Wanted
                        /\ ref \in window \/ tag[ref] = matches[ref]
<1>1. IInv /\ [Next]_vars => Good
  BY OnlyTheItemGoes DEF IInv, ItemInv
<1>. QED
  BY <1>1, Invariance, PTL DEF Spec, SelectedTagsOnly

(* No reference is taken from a protected image, unless after its lease     *)
(* check it moved there itself, or the protected tags did.                  *)
THEOREM ProtectedImages == Spec => ProtectedImagesKept
<1>. DEFINE Good == \A ref \in Taken :
                        ref \in window \/ /\ tag[ref] \notin PinnedImages
                                          /\ Aliases(tag[ref]) \cap ProtectedRefs \subseteq window
<1>1. IInv /\ [Next]_vars => Good
  BY OnlyTheItemGoes DEF IInv, ItemInv
<1>. QED
  BY <1>1, Invariance, PTL DEF Spec, ProtectedImagesKept

(* No reference is taken from the image of a container, unless after its    *)
(* lease check it moved there, or the container was made.                   *)
THEOREM UsedImages == Spec => UsedImagesKept
<1>. DEFINE Good == \A ref \in Taken : \A c \in containers :
                        ImageOf[c] = tag[ref] => c \in window \/ ref \in window
<1>1. IInv /\ [Next]_vars => Good
  BY OnlyTheItemGoes DEF IInv, ItemInv
<1>. QED
  BY <1>1, Invariance, PTL DEF Spec, UsedImagesKept

-----------------------------------------------------------------------------
(* Undisturbed runs. Whether a tag may go is decided by its image alone, so  *)
(* it was decided when the inventory was made: a removal takes away no tag   *)
(* that protects an image, and removes no container.                         *)

Chosen ==
    {ref \in Wanted : matches[ref] # Nothing /\ Safe(matches[ref], Used, Resolved)}

HasItem == pc \in {"refreshing", "resolving", "inspecting", "removing"}

Left == todo \cup (IF HasItem THEN {item} ELSE {})

ProgressInv ==
    /\ pc \in {"loading", "listing"} \/ HasItem \/ pc \in {"done", "failed"}
    /\ pc = "loading" => foreseen = Foreseen /\ removed = {}
    /\ pc \notin {"loading", "failed"} =>
           /\ foreseen = Chosen
           /\ \A ref \in Wanted :
                  tag[ref] = IF ref \in removed THEN Nothing ELSE matches[ref]
           /\ \A ref \in Left : matches[ref] # Nothing
           /\ removed = foreseen \ Left
           /\ seen = Used /\ protected = Resolved
           /\ HasItem => item \notin todo
           /\ pc = "removing" => item \in foreseen
           /\ pc = "done" => todo = {}

QuietInv == events = {} => ProgressInv

(* A tag of the plan is removed: no image loses a tag that protects it.      *)
LEMMA ResolvedStays ==
    ASSUME TypeOK, NEW ref \in Wanted, Untag, Aliases(tag[ref]) \cap ProtectedRefs = {},
           tag[ref] # Nothing, item = ref
    PROVE  /\ Resolved' = Resolved
           /\ \A i \in ImageIds : Aliases(i)' \cap ProtectedRefs = Aliases(i) \cap ProtectedRefs
<1>1. tag[ref] \in ImageIds /\ ref \in Refs
  BY DEF TypeOK
<1>2. \A r \in Refs : tag'[r] = IF r = ref THEN Nothing ELSE tag[r]
  BY DEF Untag, TypeOK
<1>3. ref \notin ProtectedRefs
  BY <1>1 DEF Aliases
<1>4. \A i \in ImageIds : Aliases(i)' \cap ProtectedRefs = Aliases(i) \cap ProtectedRefs
  BY <1>2, <1>3 DEF Aliases
<1>. QED
  BY <1>4 DEF Resolved

(* An undisturbed step keeps what has been decided.                          *)
LEMMA QuietStep == IInv /\ QuietInv /\ [Next]_vars => QuietInv'
<1>. SUFFICES ASSUME TypeOK, ItemInv, events = {}, ProgressInv, [Next]_vars PROVE ProgressInv'
  BY DEF IInv, QuietInv, Next, Apply, Environment, Load, Pick, Refresh, Resolve, Inspect,
     Remove, RemoveSkipped, RemoveFails, RunFails, RunEnds, CreateContainer, VanishContainer,
     Retag, vars, given
<1>. USE DEF ProgressInv, Chosen, HasItem, Left, given
<1>1. ASSUME Load PROVE ProgressInv'
  BY <1>1 DEF Load, Foreseen, Safe, Aliases, Used, Resolved, TypeOK
<1>2. ASSUME NEW ref \in todo, Pick(ref) PROVE ProgressInv'
  BY <1>2 DEF Pick, Safe, Aliases, Used, Resolved, TypeOK
<1>3. ASSUME Refresh PROVE ProgressInv'
  BY <1>3 DEF Refresh, Safe, Aliases, Used, Resolved
<1>4. ASSUME Resolve PROVE ProgressInv'
  BY <1>4 DEF Resolve, Safe, Aliases, Used, Resolved
<1>5. ASSUME Inspect PROVE ProgressInv'
  <2>1. pc = "inspecting" /\ item \in Wanted /\ item \notin removed
    BY <1>5 DEF Inspect, ItemInv
  <2>2. Eligible <=> item \in foreseen
    BY <2>1 DEF Eligible
  <2>3. Chosen' = Chosen /\ Used' = Used /\ Resolved' = Resolved
    BY <1>5 DEF Inspect, Safe, Aliases, Used, Resolved
  <2>. HIDE DEF Chosen
  <2>. QED
    BY <1>5, <2>1, <2>2, <2>3 DEF Inspect
<1>6. ASSUME Remove PROVE ProgressInv'
  <2>1. /\ pc = "removing" /\ item \in Wanted /\ item \notin removed /\ item \in foreseen
        /\ tag[item] = matches[item] /\ tag[item] # Nothing
        /\ Aliases(tag[item]) \cap ProtectedRefs = {}
    BY <1>6 DEF Remove, ItemInv, Safe
  <2>2. /\ Resolved' = Resolved /\ Used' = Used
        /\ \A i \in ImageIds : Aliases(i)' \cap ProtectedRefs = Aliases(i) \cap ProtectedRefs
    BY <1>6, <2>1, ResolvedStays DEF Remove, Used
  <2>3. Chosen' = Chosen
    BY <1>6, <2>2 DEF Remove, Safe, TypeOK
  <2>4. \A r \in Wanted : tag'[r] = IF r = item THEN Nothing ELSE tag[r]
    BY <1>6 DEF Remove, Untag, TypeOK
  <2>. HIDE DEF Chosen
  <2>. QED
    BY <1>6, <2>1, <2>2, <2>3, <2>4 DEF Remove
<1>7. ASSUME RemoveSkipped PROVE FALSE
  <2>1. /\ item \in Chosen /\ item \in Wanted /\ item \notin removed /\ ~Untaggable
    BY <1>7 DEF RemoveSkipped, ItemInv
  <2>2. tag[item] = matches[item] /\ tag[item] # Nothing
    BY <1>7, <2>1 DEF RemoveSkipped
  <2>3. tag[item] \notin Used
    BY <2>1, <2>2 DEF Safe
  <2>. QED
    BY <2>1, <2>2, <2>3 DEF Untaggable
<1>8. ASSUME RemoveFails \/ RunFails PROVE ProgressInv'
  BY <1>8 DEF RemoveFails, RunFails
<1>9. ASSUME RunEnds PROVE ProgressInv'
  BY <1>9 DEF RunEnds, Safe, Aliases, Used, Resolved
<1>10. CASE Environment
  BY <1>10 DEF Environment, CreateContainer, VanishContainer, Retag
<1>11. CASE UNCHANGED vars
  BY <1>11 DEF vars, client, Foreseen, Safe, Aliases, Used, Resolved
<1>. QED
  BY <1>1, <1>2, <1>3, <1>4, <1>5, <1>6, <1>7, <1>8, <1>9, <1>10, <1>11 DEF Next, Apply

(* Undisturbed, a run removes exactly what the dry run reports.              *)
THEOREM DryRun == Spec => []DryRunIsExact
<1>1. Init => QuietInv
  BY DEF Init, QuietInv, ProgressInv, HasItem
<1>2. QuietInv => DryRunIsExact
  BY DEF QuietInv, ProgressInv, DryRunIsExact, Left, HasItem
<1>. QED
  BY <1>1, <1>2, QuietStep, Invariance, PTL DEF Spec
===============================================================================
