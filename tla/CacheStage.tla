------------------------------ MODULE CacheStage ------------------------------
(***************************************************************************)
(* The cache stage of ci-docker-cleanup apply (ci_utils/cache.py and        *)
(* Engine.prune_cache): an age request, then a space request, to the        *)
(* BuildKit cache behind the daemon, which others use meanwhile.            *)
(*                                                                         *)
(* Time is counted in ticks since the run's cutoff; the daemon is given     *)
(* whole seconds.  A request is an actor of its own: it can begin late, and *)
(* goes on when its client has given up.                                    *)
(***************************************************************************)
EXTENDS Integers, FiniteSets

CONSTANTS
    RecordIds,
    Unborn, Unknown,   \* LastUsedAt of a record nobody has made, or used, yet
    SupportedRecords,  \* of a type _eligible lists
    InternalRecords,   \* of type internal or frontend
    Shareable,         \* records whose content images can have as well
    Dependents,        \* records made on top of a record, directly or not
    TotalSize,         \* bytes of a set of records
    TicksPerSecond,
    MaxUnusedAge,      \* cache.max_unused_age, in seconds
    MaxUsedSpace,      \* cache.max_used_space
    OldTimes,          \* when records may have been used before the run
    MaxTime,           \* bounds the clock
    Scenarios          \* subsets of {"use", "build", "gc", "share"}

ASSUME CacheAssumption ==
    /\ Dependents \in [RecordIds -> SUBSET RecordIds]
    /\ TotalSize \in [SUBSET RecordIds -> Nat]
    /\ TicksPerSecond \in Nat \ {0} /\ MaxUnusedAge \in Nat \ {0} /\ MaxUsedSpace \in Nat
    /\ OldTimes \subseteq Int /\ MaxTime \in Nat
    /\ Unborn \notin Int /\ Unknown \notin Int /\ Unborn # Unknown

(* No record is made on top of itself, directly or not. *)
ASSUME DependentsAssumption ==
    /\ IsFiniteSet(RecordIds)
    /\ \A r \in RecordIds :
           /\ r \notin Dependents[r]
           /\ \A d \in Dependents[r] : Dependents[d] \subseteq Dependents[r]

VARIABLES
    present, inUse, shared, \* the daemon's records
    last,      \* LastUsedAt
    now,
    mode,      \* cache.mode
    include_internal,
    filters,   \* the backend has gc_space_filters
    pc,
    stage,     \* what is observed next, or requested: "age", "budget", "final"
    candidates,
    unused,    \* the `until` of the age request, in seconds
    mutated,   \* engine.mutation_started
    code,      \* the run's exit code
    status,    \* of the cache_budget event
    request,   \* "none", "sent", "running", "answered", "refused"
    counted,   \* records that counted for the limit when the request began
    dropped,   \* records that requests of this run have removed
    events     \* the scenario: what the environment may do

records == <<present, inUse, shared, last>>
policy == <<mode, include_internal, filters, events>>
client == <<pc, stage, candidates, unused, mutated, code, status>>
daemon == <<request, counted, dropped>>
vars == <<records, now, policy, client, daemon>>

Known(r) == last[r] \in Int

(* The cutoff is time 0. *)
Threshold == -(MaxUnusedAge * TicksPerSecond)

-----------------------------------------------------------------------------
(* cache.py *)

(* InUse counts the use of what was made on top of a record. *)
InUse(r) == r \in inUse \/ Dependents[r] \cap inUse # {}

Eligible(r) ==
    /\ ~InUse(r)
    /\ r \in SupportedRecords
    /\ include_internal \/ r \notin InternalRecords

(* Slip: only records nothing was made on top of are named. *)
LeafCandidates ==
    {r \in present : /\ Eligible(r) /\ Known(r) /\ Dependents[r] \cap present = {}
                     /\ stage = "age" => last[r] < Threshold}

Candidates ==
    {r \in present : /\ Eligible(r) /\ Known(r)
                     /\ stage = "age" => last[r] < Threshold}

NonShared == TotalSize[present \ shared]

(* Slip: the request has no `until`. *)
NoUntil == 0

(* math.ceil of the seconds since the threshold *)
Unused == (now - Threshold + TicksPerSecond - 1) \div TicksPerSecond

Fail(c) ==
    /\ pc' = "failed"
    /\ code' = c
    /\ UNCHANGED <<records, now, policy, stage, candidates, unused, mutated, status>>

(* Slip: scheduled mode does not ask for space filters. *)
CapableOfAnything == TRUE

Capable == mode = "scheduled" => filters

(* Tools, probe and Buildx name the one local backend; a first observation. *)
Preflight ==
    /\ pc = "preflight"
    /\ mode = "off" \/ Capable
    /\ pc' = "stages"
    /\ UNCHANGED <<records, now, policy, stage, candidates, unused, mutated, code, status>>
    /\ UNCHANGED daemon

PreflightFails ==
    /\ pc = "preflight" /\ mode # "off"
    /\ \E c \in {2, 3, 5} : Fail(c)
    /\ UNCHANGED daemon

(* The stages before this one. *)
ReachStage ==
    /\ pc = "stages"
    /\ pc' = IF mode = "scheduled" THEN "observing" ELSE "done"
    /\ mutated' \in {mutated, TRUE}
    /\ UNCHANGED <<records, now, policy, stage, candidates, unused, code, status>>
    /\ UNCHANGED daemon

ObserveForAge ==
    /\ pc = "observing" /\ stage = "age"
    /\ candidates' = Candidates
    /\ IF candidates' = {}
       THEN stage' = "budget" /\ UNCHANGED <<pc, unused>>
       ELSE pc' = "guarding" /\ unused' = Unused /\ UNCHANGED stage
    /\ UNCHANGED <<records, now, policy, mutated, code, status, daemon>>

ObserveForBudget ==
    /\ pc = "observing" /\ stage = "budget"
    /\ candidates' = Candidates
    /\ IF candidates' = {} \/ NonShared <= MaxUsedSpace
       THEN stage' = "final" /\ UNCHANGED pc
       ELSE pc' = "guarding" /\ UNCHANGED stage
    /\ UNCHANGED <<records, now, policy, unused, mutated, code, status, daemon>>

ObserveAfter ==
    /\ pc = "observing" /\ stage = "final"
    /\ status' = IF NonShared <= MaxUsedSpace THEN "achieved"
                 ELSE IF candidates # {} THEN "target-unmet"
                 ELSE "no-eligible-records"
    /\ pc' = "done"
    /\ UNCHANGED <<records, now, policy, stage, candidates, unused, mutated, code, daemon>>

(* _apply_observation: an answer that makes no sense, a refusal, a lost     *)
(* connection before the first mutation are code 5.                         *)
ObserveFails ==
    /\ pc = "observing"
    /\ \E c \in {5, 6} : Fail(c)
    /\ UNCHANGED daemon

-----------------------------------------------------------------------------
(* Engine.prune_cache *)

GuardRefused ==
    /\ pc = "guarding"
    /\ Fail(IF mutated THEN 6 ELSE 4)
    /\ UNCHANGED daemon

(* Slip: the mutation is noted once it has succeeded. *)
SendUnmarked ==
    /\ pc = "guarding"
    /\ pc' = "sending"
    /\ request' = "sent"
    /\ UNCHANGED <<records, now, policy, stage, candidates, unused, mutated, code, status>>
    /\ UNCHANGED <<counted, dropped>>

(* The guard passes; mutation_started; the request goes out. *)
Send ==
    /\ pc = "guarding"
    /\ mutated' = TRUE
    /\ pc' = "sending"
    /\ request' = "sent"
    /\ UNCHANGED <<records, now, policy, stage, candidates, unused, code, status>>
    /\ UNCHANGED <<counted, dropped>>

TakeAnswer ==
    /\ pc = "sending" /\ request = "answered"
    /\ request' = "none"
    /\ stage' = IF stage = "age" THEN "budget" ELSE "final"
    /\ unused' = 0
    /\ pc' = "observing"
    /\ UNCHANGED <<records, now, policy, candidates, mutated, code, status>>
    /\ UNCHANGED <<counted, dropped>>

(* An error of the daemon, or a reply that is not what it should be. *)
TakeError ==
    /\ pc = "sending" /\ request \in {"answered", "refused"}
    /\ Fail(6)
    /\ UNCHANGED daemon

(* The connection is lost or its timer closes it. *)
Abandon ==
    /\ pc = "sending" /\ request \in {"sent", "running"}
    /\ Fail(IF mutated THEN 6 ELSE 3)
    /\ UNCHANGED daemon

(* Engine.remaining past the run's deadline, or a signal. *)
Interrupted ==
    /\ pc \notin {"done", "failed"}
    /\ Fail(6)
    /\ UNCHANGED daemon

Prune ==
    \/ Preflight \/ PreflightFails \/ ReachStage
    \/ ObserveForAge \/ ObserveForBudget \/ ObserveAfter \/ ObserveFails
    \/ GuardRefused \/ Send
    \/ TakeAnswer \/ TakeError \/ Abandon \/ Interrupted

-----------------------------------------------------------------------------
(* The daemon's side of the request *)

Begin ==
    /\ request = "sent"
    /\ request' = "running"
    /\ counted' = present \ shared
    /\ UNCHANGED <<records, now, policy, client, dropped>>

(* What BuildKit removes at all. *)
Evictable(r) == r \in present \ inUse /\ Dependents[r] \cap present = {}

(* With `all` false it leaves internal and shared records alone.  `until`   *)
(* lets records of unknown last use pass.                                   *)
Selected(r) ==
    /\ r \in candidates
    /\ include_internal \/ r \notin InternalRecords \cup shared
    /\ stage = "age" /\ Known(r) => unused = 0 \/ last[r] <= now - unused * TicksPerSecond

(* A backend without space filters ignores max-used-space. *)
OverLimit == stage = "budget" /\ filters => TotalSize[counted \ dropped] >= MaxUsedSpace

(* Not at the limit, where versions of BuildKit may differ. *)
WithinLimit == stage = "budget" /\ filters /\ TotalSize[counted \ dropped] <= MaxUsedSpace

Drop(r) ==
    /\ request = "running"
    /\ Evictable(r) /\ Selected(r) /\ OverLimit
    /\ present' = present \ {r}
    /\ shared' = shared \ {r}
    /\ dropped' = dropped \cup {r}
    /\ UNCHANGED <<inUse, last, now, policy, client, request, counted>>

Answer ==
    /\ request = "running"
    /\ WithinLimit \/ \A r \in present : ~(Evictable(r) /\ Selected(r))
    /\ request' = "answered"
    /\ UNCHANGED <<records, now, policy, client, counted, dropped>>

(* It fails, perhaps half way. *)
Refuse ==
    /\ request \in {"sent", "running"}
    /\ request' = "refused"
    /\ UNCHANGED <<records, now, policy, client, counted, dropped>>

Daemon == Begin \/ Answer \/ Refuse \/ \E r \in RecordIds : Drop(r)

-----------------------------------------------------------------------------
(* Builds, the daemon's own collection, images, and time *)

Use(r) ==
    /\ "use" \in events
    /\ r \in present \ inUse
    /\ inUse' = inUse \cup {r}
    /\ UNCHANGED <<present, shared, last, now, policy, client, daemon>>

Release(r) ==
    /\ "use" \in events
    /\ r \in inUse
    /\ inUse' = inUse \ {r}
    /\ last' = [last EXCEPT ![r] = now]
    /\ UNCHANGED <<present, shared, now, policy, client, daemon>>

Build(r) ==
    /\ "build" \in events
    /\ last[r] = Unborn
    /\ {p \in RecordIds : r \in Dependents[p]} \subseteq present
    /\ present' = present \cup {r}
    /\ inUse' \in {inUse, inUse \cup {r}}
    /\ last' = [last EXCEPT ![r] = Unknown]
    /\ UNCHANGED <<shared, now, policy, client, daemon>>

Collect(r) ==
    /\ "gc" \in events
    /\ Evictable(r)
    /\ present' = present \ {r}
    /\ shared' = shared \ {r}
    /\ UNCHANGED <<inUse, last, now, policy, client, daemon>>

(* An image comes or goes that has the record's content. *)
Share(r) ==
    /\ "share" \in events
    /\ r \in present \cap Shareable
    /\ shared' = IF r \in shared THEN shared \ {r} ELSE shared \cup {r}
    /\ UNCHANGED <<present, inUse, last, now, policy, client, daemon>>

Tick ==
    /\ now < MaxTime
    /\ now' = now + 1
    /\ UNCHANGED <<records, policy, client, daemon>>

(* The cache is used on once the run and its request are over, too; that is *)
(* left out.                                                                *)
UnderWay == pc \notin {"preflight", "done", "failed"} \/ request \in {"sent", "running"}

Environment ==
    /\ UnderWay
    /\ \/ \E r \in RecordIds : Use(r) \/ Release(r) \/ Build(r) \/ Collect(r) \/ Share(r)
       \/ Tick

Init ==
    /\ last \in [RecordIds -> OldTimes \cup {Unknown, Unborn}]
    /\ present = {r \in RecordIds : last[r] # Unborn}
    /\ \A p \in RecordIds : Dependents[p] \cap present # {} => p \in present
    /\ inUse \in SUBSET present /\ Cardinality(inUse) <= 1
    /\ shared \in SUBSET (present \cap Shareable)
    /\ now = 0
    /\ mode \in {"scheduled", "native", "off"}
    /\ include_internal \in BOOLEAN /\ filters \in BOOLEAN
    /\ events \in Scenarios
    /\ pc = "preflight" /\ stage = "age" /\ candidates = {} /\ unused = 0
    /\ mutated = FALSE /\ code = 0 /\ status = "none"
    /\ request = "none" /\ counted = {} /\ dropped = {}

Next == Prune \/ Daemon \/ Environment

Spec == Init /\ [][Next]_vars
-----------------------------------------------------------------------------
TypeOK ==
    /\ present \subseteq RecordIds /\ inUse \subseteq present /\ shared \subseteq present
    /\ last \in [RecordIds -> Int \cup {Unknown, Unborn}]
    /\ now \in Nat
    /\ mode \in {"scheduled", "native", "off"}
    /\ include_internal \in BOOLEAN /\ filters \in BOOLEAN /\ mutated \in BOOLEAN
    /\ pc \in {"preflight", "stages", "observing", "guarding", "sending",
               "done", "failed"}
    /\ stage \in {"age", "budget", "final"}
    /\ candidates \subseteq RecordIds /\ counted \subseteq RecordIds
    /\ dropped \subseteq RecordIds
    /\ unused \in Nat
    /\ code \in {0, 2, 3, 4, 5, 6}
    /\ status \in {"none", "achieved", "target-unmet", "no-eligible-records"}
    /\ request \in {"none", "sent", "running", "answered", "refused"}

(* However late a request begins and whatever is used between the listing   *)
(* and the removal: a request takes no record whose last use is unknown,    *)
(* and the age request none that has been used within cache.max_unused_age  *)
(* of the moment it is taken (docs/images/utils.md: "Last use over 336h").  *)
RecentKept ==
    [][\A r \in dropped' \ dropped :
           /\ Known(r)
           /\ stage = "age" => now - last[r] >= MaxUnusedAge * TicksPerSecond]_vars

(* The space request takes no more than brings the cache to the target,     *)
(* although it names all eligible records: such a request never goes to a   *)
(* backend that would ignore the limit.                                     *)
BudgetStops ==
    [][\A r \in dropped' \ dropped :
           stage = "budget" => TotalSize[counted \ dropped] >= MaxUsedSpace]_vars

(* If nobody else touches the cache, the age request takes everything that  *)
(* is due, what it was made on top of included, up to the rounding of       *)
(* `unused` to seconds; and if the run reports that it missed the target,   *)
(* it has left nothing it could have taken.                                 *)
Removable(r) ==
    /\ Eligible(r) /\ Known(r)
    /\ include_internal \/ r \notin shared

Due(r) ==
    /\ Removable(r)
    /\ last[r] < Threshold /\ last[r] <= Threshold - (TicksPerSecond - 1)

Quiet == events = {} /\ mode = "scheduled"

NothingDue == \A r \in present : Due(r) => \E d \in Dependents[r] \cap present : ~Due(d)

NothingLeft == \A r \in present : Removable(r) => Dependents[r] \cap present # {}

QuietCompletes ==
    Quiet =>
        /\ pc = "observing" /\ stage = "budget" => NothingDue
        /\ pc = "done" /\ status # "achieved" => NothingLeft

(* An exit code the host takes for an established end (all but 6) is given  *)
(* only when no request of this run is on its way or running.               *)
CodeIsTruthful ==
    pc \in {"done", "failed"} /\ code # 6 => request \notin {"sent", "running"}

(* The inductive invariant behind them. *)
RequestInv ==
    /\ pc \in {"preflight", "stages", "observing", "guarding", "done"} =>
           request = "none"
    /\ request # "none" => mutated
    /\ pc = "stages" => Capable \/ mode = "off"
    /\ pc \in {"observing", "guarding", "sending"} \/ request # "none" =>
           mode = "scheduled" /\ filters
    /\ pc \in {"guarding", "sending"} \/ request # "none" => stage \in {"age", "budget"}

SelectionInv ==
    /\ \A r \in candidates : Known(r)
    /\ stage = "age" /\ (pc \in {"guarding", "sending"} \/ request # "none") =>
           unused >= MaxUnusedAge

(* What the run has found when nobody else touches the cache: each request  *)
(* names all that it should take, and its answer means that it has taken    *)
(* it.                                                                      *)
NamedInv ==
    Quiet /\ pc \in {"guarding", "sending"} =>
        /\ stage = "age" =>
               /\ \A r \in present : Due(r) => r \in candidates
               /\ unused * TicksPerSecond <= now - Threshold + TicksPerSecond - 1
        /\ stage = "budget" => \A r \in present : Removable(r) => r \in candidates

WithinTarget == NonShared <= MaxUsedSpace

FoundInv ==
    Quiet =>
        /\ present \cap dropped = {}
        /\ request \in {"running", "answered"} => counted \ dropped = present \ shared
        /\ pc \in {"preflight", "stages"} => stage = "age"
        /\ pc = "sending" /\ request = "answered" =>
               /\ stage = "age" => NothingDue
               /\ stage = "budget" => WithinTarget \/ NothingLeft
        /\ pc = "observing" =>
               /\ stage = "budget" => NothingDue
               /\ stage = "final" => WithinTarget \/ NothingLeft
        /\ pc = "done" /\ status # "achieved" => NothingLeft

RunInv ==
    /\ TypeOK
    /\ RequestInv
    /\ SelectionInv
    /\ CodeIsTruthful

IInv == RunInv /\ NamedInv /\ FoundInv
===============================================================================
