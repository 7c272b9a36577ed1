------------------------------- MODULE Cleanup -------------------------------
(***************************************************************************)
(* ci-docker-cleanup apply (ci_utils/cleanup.py) against the daemon's       *)
(* objects, and what ci-docker-cleanup plan foresees of it.                 *)
(*                                                                         *)
(* The daemon can change between any two requests: events names what the   *)
(* environment may do.  Clients that hold a lease cause none of it; clients *)
(* that do not take part in the leases cause "create" and "retag".          *)
(* What the policy says of an object that cannot change (ownership label,   *)
(* age, driver, protection by label or id) is a constant set.  An           *)
(* inventory of containers is one step: a container that comes or goes      *)
(* while it is read is one that does so before or after.                    *)
(* The cache stage, between the image stages, is atomic here.               *)
(***************************************************************************)
EXTENDS Integers, FiniteSets, Sequences

CONSTANTS
    ContainerIds, NetworkIds, ImageIds,
    Refs,            \* repository tags
    Nothing,
    ImageOf,         \* the image of a container
    NetworksOf,      \* networks of its endpoints, or those its mode may name
    RetirableContainers, \* owned, unprotected, no infrastructure, old
    RetirableNetworks,   \* owned, unprotected, local, supported, old
    PinnedImages,    \* protected by label, id or digest
    NamedRefs,       \* protected references
    ProtectedRefs,   \* these, and the tags of protected repositories
    ScopeIds, ScopeRefs, \* image_scope
    OldDangling, OldTagged, \* images past dangling_ and tagged_image_min_age
    Weekly,          \* --profile weekly
    Trigger,         \* tagged_image_trigger
    Scenarios        \* subsets of {"create", "start", "exit", "vanish", "retag", "child", "expire"}

ASSUME CleanupAssumption ==
    /\ ImageOf \in [ContainerIds -> ImageIds]
    /\ NetworksOf \in [ContainerIds -> SUBSET NetworkIds]
    /\ Nothing \notin ContainerIds \cup NetworkIds \cup ImageIds
    /\ ContainerIds \cap NetworkIds = {}
    /\ ContainerIds \cap ImageIds = {}
    /\ NetworkIds \cap ImageIds = {}
    /\ NamedRefs \subseteq ProtectedRefs
    /\ Weekly \in BOOLEAN

VARIABLES
    containers, running, networks, images, \* what the daemon has
    tags,      \* of each image
    pressured, \* pressure["pressured"] is True
    stage,     \* the stage of apply
    pc,
    todo,      \* objects of the stage's inventory that are still to be looked at
    item,      \* the one it looks at
    seen,      \* inventory.objects["containers"]
    protected, \* inventory.protected_images
    removed,   \* objects whose removal was reported
    foreseen,  \* what plan would have reported as eligible or dependent
    events,    \* the scenario: what the environment may do
    window     \* containers made and tags moved since the item's lease check

daemon == <<containers, running, networks, images, tags, pressured>>
client == <<stage, pc, todo, item, seen, protected, removed>>
given == <<foreseen, events>>
vars == <<daemon, client, given, window>>

Stages == <<"containers", "networks", "dangling-images", "cache", "tagged-images">>

(* Slip: networks come before the containers that use them. *)
NetworksFirst == <<"networks", "containers", "dangling-images", "cache", "tagged-images">>

Order == Stages

Stage == Order[stage]
OfImages == Stage \in {"dangling-images", "tagged-images"}

-----------------------------------------------------------------------------
(* policy.py and Inventory.references *)

ImageRefs(found) == {ImageOf[c] : c \in found}
NetworkRefs(found) == UNION {NetworksOf[c] : c \in found}

ContainerDecision(c) == c \in RetirableContainers /\ c \notin running

(* Endpoints of running containers are listed with the network. *)
NetworkDecision(n, refs) ==
    /\ n \in RetirableNetworks
    /\ n \notin NetworkRefs(running)
    /\ n \notin refs

(* Slip: labels and ids do not protect images. *)
ImageDecisionByTag(i, refs, kept) ==
    /\ tags[i] \cap ProtectedRefs = {}
    /\ i \notin refs
    /\ i \in ScopeIds \/ (tags[i] # {} /\ tags[i] \subseteq ScopeRefs)
    /\ Cardinality(tags[i]) <= 1
    /\ i \in (IF tags[i] = {} THEN OldDangling ELSE OldTagged)

(* The scope counts repository digests as aliases too; they are fixed here: *)
(* an image that a digest puts out of scope is in neither old set, and one  *)
(* whose digests alone put it in scope is in ScopeIds.                      *)
ImageDecision(i, refs, kept) ==
    /\ i \notin PinnedImages \cup kept
    /\ tags[i] \cap ProtectedRefs = {}
    /\ i \notin refs
    /\ i \in ScopeIds \/ (tags[i] # {} /\ tags[i] \subseteq ScopeRefs)
    /\ Cardinality(tags[i]) <= 1
    /\ i \in (IF tags[i] = {} THEN OldDangling ELSE OldTagged)

ImageProfile(i) ==
    tags[i] # {} => Weekly /\ (Trigger = "scheduled" \/ (Trigger = "pressure" /\ pressured))

ImageStage(i) == (tags[i] # {}) = (Stage = "tagged-images")

(* resolve_protections: the images that protected references name now.      *)
(* Protected repositories only count when an image's own tags are judged.   *)
Resolved == {i \in images : tags[i] \cap NamedRefs # {}}

(* Slip: what the removal of containers sets free is not reported. *)
ForeseenNow ==
    {c \in containers : ContainerDecision(c)}
    \cup {n \in networks : NetworkDecision(n, NetworkRefs(containers))}
    \cup {i \in images : ImageDecision(i, ImageRefs(containers), Resolved) /\ ImageProfile(i)}

(* plan(): eligible now, or once the removable containers are gone. *)
Foreseen ==
    LET retired == {c \in containers : ContainerDecision(c)}
        later == containers \ retired
    IN retired
       \cup {n \in networks : NetworkDecision(n, NetworkRefs(later))}
       \cup {i \in images : ImageDecision(i, ImageRefs(later), Resolved) /\ ImageProfile(i)}

-----------------------------------------------------------------------------
(* apply *)

(* Lease check, preflight, Inventory.load, and the first look at each       *)
(* object of the stage: what is excluded now is not looked at again.        *)
Load ==
    /\ pc = "stage" /\ Stage # "cache"
    /\ seen' = containers
    /\ protected' = protected \cup Resolved
    /\ todo' = CASE Stage = "containers" -> {c \in containers : ContainerDecision(c)}
                 [] Stage = "networks" -> {n \in networks : NetworkDecision(n, {})}
                 [] OTHER -> {i \in images : /\ ImageStage(i)
                                             /\ ImageDecision(i, {}, protected')
                                             /\ ImageProfile(i)}
    /\ pc' = "listing"
    /\ UNCHANGED <<daemon, stage, item, removed, given, window>>

(* cache.prune: nothing of what is modelled here changes. *)
PruneCache ==
    /\ pc = "stage" /\ Stage = "cache"
    /\ todo' = {}
    /\ pc' = "listing"
    /\ UNCHANGED <<daemon, stage, item, seen, protected, removed, given, window>>

(* The lease is checked for one object. *)
Pick(x) ==
    /\ pc = "listing" /\ x \in todo
    /\ item' = x
    /\ todo' = todo \ {x}
    /\ window' = {}
    /\ pc' = IF Stage = "containers" THEN "inspecting" ELSE "refreshing"
    /\ UNCHANGED <<daemon, stage, seen, protected, removed, given>>

(* Slip: the inventory the stage began with is good enough. *)
RefreshNothing ==
    /\ pc = "refreshing"
    /\ pc' = IF OfImages THEN "resolving" ELSE "inspecting"
    /\ UNCHANGED <<daemon, stage, todo, item, seen, protected, removed, given, window>>

Refresh ==
    /\ pc = "refreshing"
    /\ seen' = containers
    /\ pc' = IF OfImages THEN "resolving" ELSE "inspecting"
    /\ UNCHANGED <<daemon, stage, todo, item, protected, removed, given, window>>

Resolve ==
    /\ pc = "resolving"
    /\ protected' = protected \cup Resolved
    /\ pc' = "inspecting"
    /\ UNCHANGED <<daemon, stage, todo, item, seen, removed, given, window>>

Existing == containers \cup networks \cup images

(* Slip: what kind of image the stage is for is not asked again. *)
EligibleInAnyStage ==
    CASE Stage = "containers" -> ContainerDecision(item)
      [] Stage = "networks" -> NetworkDecision(item, NetworkRefs(seen))
      [] OTHER -> ImageDecision(item, ImageRefs(seen), protected) /\ ImageProfile(item)

Eligible ==
    CASE Stage = "containers" -> ContainerDecision(item)
      [] Stage = "networks" -> NetworkDecision(item, NetworkRefs(seen))
      [] OTHER -> /\ ImageDecision(item, ImageRefs(seen), protected)
                  /\ ImageProfile(item)
                  /\ ImageStage(item)

(* Slip: what was eligible in the inventory of the stage is still. *)
InspectKnown ==
    /\ pc = "inspecting"
    /\ pc' = IF item \in Existing THEN "removing" ELSE "listing"
    /\ UNCHANGED <<daemon, stage, todo, item, seen, protected, removed, given, window>>

(* The object is inspected; 404 and ineligible ones are skipped. *)
Inspect ==
    /\ pc = "inspecting"
    /\ pc' = IF item \in Existing /\ Eligible THEN "removing" ELSE "listing"
    /\ UNCHANGED <<daemon, stage, todo, item, seen, protected, removed, given, window>>

(* What the daemon refuses without force: a running container, a network    *)
(* with endpoints, an image with containers or further tags.                *)
Removable(x) ==
    \/ x \in containers \ running
    \/ x \in networks /\ x \notin NetworkRefs(running)
    \/ x \in images /\ x \notin ImageRefs(containers) /\ Cardinality(tags[x]) <= 1

Drop(x) ==
    /\ containers' = containers \ {x}
    /\ networks' = networks \ {x}
    /\ images' = images \ {x}
    /\ tags' = [i \in ImageIds |-> IF i = x THEN {} ELSE tags[i]]
    /\ UNCHANGED <<running, pressured>>

Remove ==
    /\ pc = "removing" /\ Removable(item)
    /\ Drop(item)
    /\ removed' = removed \cup {item}
    /\ pc' = "listing"
    /\ UNCHANGED <<stage, todo, item, seen, protected, given, window>>

(* 404 or 409; children of an image can be in the way as well. *)
RemoveSkipped ==
    /\ pc = "removing"
    /\ ~Removable(item) \/ ("child" \in events /\ item \in images)
    /\ pc' = "listing"
    /\ UNCHANGED <<daemon, stage, todo, item, seen, protected, removed, given, window>>

(* The reply is lost, late or not what it should be: exit code 6. *)
RemoveUnknown ==
    /\ pc = "removing" /\ Removable(item)
    /\ Drop(item)
    /\ pc' = "failed"
    /\ UNCHANGED <<stage, todo, item, seen, protected, removed, given, window>>

(* A lease check, a preflight or a request fails, the deadline passes, or a *)
(* signal arrives: the stages that follow do not run.                       *)
RunFails ==
    /\ pc \notin {"done", "failed"}
    /\ pc' = "failed"
    /\ UNCHANGED <<daemon, stage, todo, item, seen, protected, removed, given, window>>

StageEnds ==
    /\ pc = "listing" /\ todo = {}
    /\ stage' = IF stage = Len(Order) THEN stage ELSE stage + 1
    /\ pc' = IF stage = Len(Order) THEN "done" ELSE "stage"
    /\ UNCHANGED <<daemon, todo, item, seen, protected, removed, given, window>>

-----------------------------------------------------------------------------
(* The environment *)

(* A new container is not old enough to be removed. *)
CreateContainer(c) ==
    /\ "create" \in events
    /\ c \notin containers \cup RetirableContainers
    /\ ImageOf[c] \in images /\ NetworksOf[c] \subseteq networks
    /\ containers' = containers \cup {c}
    /\ window' = window \cup {c}
    /\ UNCHANGED <<running, networks, images, tags, pressured, client, given>>

(* A restart policy starts a container; one whose network is gone fails.    *)
StartContainer(c) ==
    /\ "start" \in events
    /\ c \in containers \ running /\ NetworksOf[c] \subseteq networks
    /\ running' = running \cup {c}
    /\ UNCHANGED <<containers, networks, images, tags, pressured, client, given, window>>

ExitContainer(c) ==
    /\ "exit" \in events
    /\ c \in running
    /\ running' = running \ {c}
    /\ UNCHANGED <<containers, networks, images, tags, pressured, client, given, window>>

(* --rm, or a removal by somebody else *)
VanishContainer(c) ==
    /\ "vanish" \in events
    /\ c \in containers \ running
    /\ containers' = containers \ {c}
    /\ UNCHANGED <<running, networks, images, tags, pressured, client, given, window>>

(* A tag is given to an image, and is taken from the one that had it. *)
Retag(ref, i) ==
    /\ "retag" \in events
    /\ i \in images
    /\ tags' = [j \in ImageIds |-> IF j = i THEN tags[j] \cup {ref} ELSE tags[j] \ {ref}]
    /\ window' = window \cup {ref}
    /\ UNCHANGED <<containers, running, networks, images, pressured, client, given>>

(* The storage observation gets older than max_sample_age. *)
SampleExpires ==
    /\ "expire" \in events
    /\ pressured
    /\ pressured' = FALSE
    /\ UNCHANGED <<containers, running, networks, images, tags, client, given, window>>

Init ==
    /\ containers \in SUBSET ContainerIds
    /\ running \in SUBSET containers
    /\ networks = NetworkIds /\ images = ImageIds
    /\ tags \in [ImageIds -> SUBSET Refs]
    /\ \A i, j \in ImageIds : i # j => tags[i] \cap tags[j] = {}
    /\ pressured \in BOOLEAN
    /\ stage = 1 /\ pc = "stage" /\ todo = {} /\ item = Nothing
    /\ seen = {} /\ protected = {} /\ removed = {}
    /\ foreseen = Foreseen /\ events \in Scenarios
    /\ window = {}

Apply ==
    \/ Load \/ PruneCache \/ Refresh \/ Resolve \/ Inspect
    \/ \E x \in todo : Pick(x)
    \/ Remove \/ RemoveSkipped \/ RemoveUnknown \/ RunFails \/ StageEnds

Environment ==
    \/ \E c \in ContainerIds : \/ CreateContainer(c) \/ StartContainer(c)
                               \/ ExitContainer(c) \/ VanishContainer(c)
    \/ \E ref \in Refs, i \in ImageIds : Retag(ref, i)
    \/ SampleExpires

Next == Apply \/ Environment

Spec == Init /\ [][Next]_vars

-----------------------------------------------------------------------------
(* Every variable keeps its type; running containers exist. *)
TypeOK ==
    /\ containers \subseteq ContainerIds /\ running \subseteq containers
    /\ networks \subseteq NetworkIds /\ images \subseteq ImageIds
    /\ tags \in [ImageIds -> SUBSET Refs]
    /\ pressured \in BOOLEAN
    /\ stage \in 1 .. Len(Order)
    /\ pc \in {"stage", "listing", "refreshing", "resolving", "inspecting", "removing",
               "done", "failed"}
    /\ todo \subseteq ContainerIds \cup NetworkIds \cup ImageIds
    /\ item \in ContainerIds \cup NetworkIds \cup ImageIds \cup {Nothing}
    /\ seen \subseteq ContainerIds /\ protected \subseteq ImageIds
    /\ removed \subseteq ContainerIds \cup NetworkIds \cup ImageIds
    /\ foreseen \subseteq ContainerIds \cup NetworkIds \cup ImageIds
    /\ events \in Scenarios
    /\ window \subseteq ContainerIds \cup Refs

(* A network goes from under no container but one that was made after the   *)
(* lease was checked for this very network: with clients that take part in  *)
(* the leases, from under none, not even a stopped one, which the daemon    *)
(* itself would allow.                                                      *)
NetworksKept ==
    [][\A n \in networks \ networks' :
           \A c \in containers : n \in NetworksOf[c] => c \in window]_vars

(* No protected image goes, unless its protected tag was given to it after  *)
(* the lease was checked for this very image.                               *)
ProtectedImagesKept ==
    [][\A i \in images \ images' :
           i \notin PinnedImages /\ tags[i] \cap ProtectedRefs \subseteq window]_vars

(* A tag that was there when its turn came goes only in a weekly run, and   *)
(* only after the stage of the cache: what was dangling when the stage      *)
(* began and has a tag by now is left alone.                                *)
TagsKept ==
    [][\A i \in images \ images' :
           \/ tags[i] \subseteq window
           \/ Weekly /\ Trigger # "disabled" /\ Stage = "tagged-images"]_vars

(* The inductive invariant behind them: what the client has established     *)
(* about its item when it is about to remove it.                            *)
KindIds ==
    CASE Stage = "containers" -> ContainerIds
      [] Stage = "networks" -> NetworkIds
      [] Stage = "cache" -> {}
      [] OTHER -> ImageIds

ItemInv ==
    /\ pc = "listing" => todo \subseteq KindIds
    /\ pc \in {"refreshing", "resolving", "inspecting", "removing"} =>
           todo \subseteq KindIds /\ item \in KindIds

SeenInv ==
    /\ pc \in {"refreshing", "resolving"} => Stage # "containers"
    /\ pc \in {"resolving", "inspecting", "removing"} /\ Stage # "containers" =>
           containers \ window \subseteq seen

JudgedInv ==
    pc = "removing" =>
        /\ Stage = "networks" => item \notin NetworkRefs(seen)
        /\ OfImages => /\ item \notin PinnedImages
                       /\ tags[item] \cap ProtectedRefs \subseteq window
                       /\ \/ tags[item] \subseteq window
                          \/ Weekly /\ Trigger # "disabled" /\ Stage = "tagged-images"

IInv ==
    /\ TypeOK
    /\ ItemInv
    /\ SeenInv
    /\ JudgedInv

-----------------------------------------------------------------------------
(* What plan reports bounds what apply removes: if containers at most start *)
(* meanwhile, nothing else goes.                                            *)
PlanBounds == events \subseteq {"start", "child", "expire"} => removed \subseteq foreseen

(* If nothing happens meanwhile, all of it goes in one run, dependents too. *)
PlanCompletes == events = {} /\ pc = "done" => foreseen \subseteq removed
=============================================================================
