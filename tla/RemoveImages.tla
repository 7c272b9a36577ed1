----------------------------- MODULE RemoveImages -----------------------------
(***************************************************************************)
(* ci-remove-images (ci_utils/remove_images.py): the suite tags of chosen  *)
(* versions are taken from the local daemon, one by one and by reference,  *)
(* so that what a DELETE does depends on what the reference names by then. *)
(*                                                                         *)
(* As in Cleanup, events names what clients without a lease may do between *)
(* any two requests, labels and configured ids are a constant set, and an  *)
(* inventory is one step.                                                  *)
(***************************************************************************)
EXTENDS Integers, FiniteSets

CONSTANTS
    ContainerIds, ImageIds,
    Refs,          \* repository tags
    Wanted,        \* those of the suite's repositories with a chosen version
    Nothing,
    ImageOf,       \* the image of a container
    PinnedImages,  \* protected by label, id or digest
    NamedRefs,     \* protected references
    ProtectedRefs, \* these, and the tags of protected repositories
    Scenarios      \* subsets of {"create", "vanish", "retag"}

ASSUME RemoveAssumption ==
    /\ ImageOf \in [ContainerIds -> ImageIds]
    /\ Wanted \subseteq Refs
    /\ NamedRefs \subseteq ProtectedRefs
    /\ Nothing \notin ImageIds \cup Refs

VARIABLES
    containers, \* of the daemon
    tag,        \* the image a reference names, or Nothing
    pc,
    matches,    \* the image each wanted reference named in the inventory
    todo,       \* matched references that are still to be looked at
    item,       \* the one it looks at
    seen,       \* images of the containers found
    protected,  \* inventory.protected_images
    removed,    \* references reported as removed
    foreseen,   \* what a dry run would have reported
    events,     \* the scenario: what the environment may do
    window      \* containers made and references changed since the item's lease check

client == <<pc, matches, todo, item, seen, protected, removed>>
given == <<foreseen, events>>
vars == <<containers, tag, client, given, window>>

Aliases(i) == {ref \in Refs : tag[ref] = i}
Resolved == {i \in ImageIds : Aliases(i) \cap NamedRefs # {}}
Used == {ImageOf[c] : c \in containers}

(* image_safety *)
Safe(i, used, kept) ==
    /\ i \notin PinnedImages \cup kept
    /\ Aliases(i) \cap ProtectedRefs = {}
    /\ i \notin used

(* Without --apply. *)
Foreseen == {ref \in Wanted : tag[ref] # Nothing /\ Safe(tag[ref], Used, Resolved)}

(* Inventory of images and containers, protections, matching references.    *)
Load ==
    /\ pc = "loading"
    /\ matches' = [ref \in Wanted |-> tag[ref]]
    /\ todo' = {ref \in Wanted : tag[ref] # Nothing}
    /\ seen' = Used
    /\ protected' = Resolved
    /\ pc' = "listing"
    /\ UNCHANGED <<containers, tag, item, removed, given, window>>

(* The lease is checked, and the daemon's identity. *)
Pick(ref) ==
    /\ pc = "listing" /\ ref \in todo
    /\ item' = ref
    /\ todo' = todo \ {ref}
    /\ window' = {}
    /\ pc' = "refreshing"
    /\ UNCHANGED <<containers, tag, matches, seen, protected, removed, given>>

(* Slip: the containers found at the beginning are good enough. *)
RefreshNothing ==
    /\ pc = "refreshing"
    /\ pc' = "resolving"
    /\ UNCHANGED <<containers, tag, matches, todo, item, seen, protected, removed,
                   given, window>>

Refresh ==
    /\ pc = "refreshing"
    /\ seen' = Used
    /\ pc' = "resolving"
    /\ UNCHANGED <<containers, tag, matches, todo, item, protected, removed, given, window>>

Resolve ==
    /\ pc = "resolving"
    /\ protected' = protected \cup Resolved
    /\ pc' = "inspecting"
    /\ UNCHANGED <<containers, tag, matches, todo, item, seen, removed, given, window>>

(* Slip: any image that is found under the reference will do. *)
EligibleByName ==
    /\ tag[item] # Nothing
    /\ Safe(tag[item], seen, protected)

(* Slip: what was found at the beginning is judged, not what is there now.  *)
EligibleAtFirst ==
    /\ tag[item] = matches[item]
    /\ tag[item] \notin seen

(* The reference still names the image it was matched with, and that one is *)
(* neither protected nor in use.                                            *)
Eligible ==
    /\ tag[item] = matches[item]
    /\ Safe(tag[item], seen, protected)

Inspect ==
    /\ pc = "inspecting"
    /\ pc' = IF Eligible THEN "removing" ELSE "listing"
    /\ UNCHANGED <<containers, tag, matches, todo, item, seen, protected, removed,
                   given, window>>

(* DELETE by reference only takes the reference away while others are left; *)
(* with the last one goes the image, which containers prevent.              *)
Untaggable ==
    /\ tag[item] # Nothing
    /\ Aliases(tag[item]) # {item} \/ tag[item] \notin Used

Untag == tag' = [tag EXCEPT ![item] = Nothing]

(* Slip: DELETE by id, which the daemon refuses for several references. *)
RemoveById ==
    /\ pc = "removing" /\ Untaggable
    /\ IF Aliases(tag[item]) = {item}
       THEN Untag /\ removed' = removed \cup {item}
       ELSE UNCHANGED <<tag, removed>>
    /\ pc' = "listing"
    /\ UNCHANGED <<containers, matches, todo, item, seen, protected, given, window>>

Remove ==
    /\ pc = "removing" /\ Untaggable
    /\ Untag
    /\ removed' = removed \cup {item}
    /\ pc' = "listing"
    /\ UNCHANGED <<containers, matches, todo, item, seen, protected, given, window>>

(* 404 or 409, the latter also for what other clients do at that moment. *)
RemoveSkipped ==
    /\ pc = "removing"
    /\ ~Untaggable \/ events # {}
    /\ pc' = "listing"
    /\ UNCHANGED <<containers, tag, matches, todo, item, seen, protected, removed,
                   given, window>>

(* The request fails, or its reply is not what it should be. *)
RemoveFails ==
    /\ pc = "removing"
    /\ \/ Untaggable /\ Untag
       \/ UNCHANGED tag
    /\ pc' = "failed"
    /\ UNCHANGED <<containers, matches, todo, item, seen, protected, removed, given, window>>

(* A lease check or a request fails, the deadline passes, a signal arrives. *)
RunFails ==
    /\ pc \notin {"done", "failed"}
    /\ pc' = "failed"
    /\ UNCHANGED <<containers, tag, matches, todo, item, seen, protected, removed,
                   given, window>>

RunEnds ==
    /\ pc = "listing" /\ todo = {}
    /\ pc' = "done"
    /\ UNCHANGED <<containers, tag, matches, todo, item, seen, protected, removed,
                   given, window>>

-----------------------------------------------------------------------------
(* The environment *)

CreateContainer(c) ==
    /\ "create" \in events
    /\ c \notin containers /\ Aliases(ImageOf[c]) # {}
    /\ containers' = containers \cup {c}
    /\ window' = window \cup {c}
    /\ UNCHANGED <<tag, client, given>>

VanishContainer(c) ==
    /\ "vanish" \in events
    /\ c \in containers
    /\ containers' = containers \ {c}
    /\ UNCHANGED <<tag, client, given, window>>

Retag(ref, i) ==
    /\ "retag" \in events
    /\ tag' = [tag EXCEPT ![ref] = i]
    /\ window' = window \cup {ref}
    /\ UNCHANGED <<containers, client, given>>

Init ==
    /\ containers \in SUBSET ContainerIds
    /\ tag \in [Refs -> ImageIds \cup {Nothing}]
    /\ pc = "loading"
    /\ matches = [ref \in Wanted |-> Nothing]
    /\ todo = {} /\ item = Nothing
    /\ seen = {} /\ protected = {} /\ removed = {}
    /\ foreseen = Foreseen /\ events \in Scenarios
    /\ window = {}

Apply ==
    \/ Load \/ Refresh \/ Resolve \/ Inspect
    \/ \E ref \in todo : Pick(ref)
    \/ Remove \/ RemoveSkipped \/ RemoveFails \/ RunFails \/ RunEnds

Environment ==
    \/ \E c \in ContainerIds : CreateContainer(c) \/ VanishContainer(c)
    \/ \E ref \in Refs, i \in ImageIds : Retag(ref, i)

Next == Apply \/ Environment

Spec == Init /\ [][Next]_vars

-----------------------------------------------------------------------------
(* Every variable keeps its type. *)
TypeOK ==
    /\ containers \subseteq ContainerIds
    /\ tag \in [Refs -> ImageIds \cup {Nothing}]
    /\ pc \in {"loading", "listing", "refreshing", "resolving", "inspecting", "removing",
               "done", "failed"}
    /\ matches \in [Wanted -> ImageIds \cup {Nothing}]
    /\ todo \subseteq Wanted /\ item \in Wanted \cup {Nothing}
    /\ seen \subseteq ImageIds /\ protected \subseteq ImageIds
    /\ removed \subseteq Wanted /\ foreseen \subseteq Wanted
    /\ events \in Scenarios
    /\ window \subseteq ContainerIds \cup Refs

Taken == {ref \in Refs : tag[ref] # Nothing /\ tag'[ref] = Nothing}

(* A reference is only taken from the image it named in the inventory, and  *)
(* only from an image that is not protected, whatever changed in between:   *)
(* unless it changed after the lease was checked for this very reference.   *)
SelectedTagsOnly ==
    [][\A ref \in Taken :
           /\ ref \in Wanted
           /\ ref \in window \/ tag[ref] = matches[ref]]_vars

ProtectedImagesKept ==
    [][\A ref \in Taken :
           ref \in window \/ /\ tag[ref] \notin PinnedImages
                             /\ Aliases(tag[ref]) \cap ProtectedRefs \subseteq window]_vars

(* docs/maintenance.md:164: "preserves images referenced by any container": *)
(* no reference is taken from the image of a container, not even one of     *)
(* several references, which the daemon itself would allow.                 *)
UsedImagesKept ==
    [][\A ref \in Taken :
           \A c \in containers :
               ImageOf[c] = tag[ref] => c \in window \/ ref \in window]_vars

(* Undisturbed, a run removes exactly what the dry run reports, although    *)
(* each removal changes the aliases the next ones are judged by.            *)
DryRunIsExact == events = {} /\ pc = "done" => removed = foreseen

-----------------------------------------------------------------------------
(* The inductive invariant: what has been established about the item.       *)
ItemInv ==
    /\ pc \in {"refreshing", "resolving", "inspecting", "removing"} => item \in Wanted
    /\ pc \in {"resolving", "inspecting", "removing"} =>
           \A c \in containers : c \in window \/ ImageOf[c] \in seen
    /\ pc = "removing" =>
           item \in window \/ /\ tag[item] = matches[item]
                              /\ tag[item] \notin PinnedImages
                              /\ tag[item] \notin seen
                              /\ Aliases(tag[item]) \cap ProtectedRefs \subseteq window

IInv == TypeOK /\ ItemInv
=============================================================================
