# A verification project for ci-images

TLA+ models of the parts of this repository whose correctness depends on the
order of things: who may work on a Docker daemon when, what a cleanup may take
from it, and how image suites get their tags. TLC checks the models on small
instances, TLAPS proves the main theorems for every instance. Everything is
translated from the code; documents are quoted where a property states what
they promise.

```
tlc -workers 2 -config MCGate_safety.cfg MCGate.tla     # any run of PROJECT.json
tlapm Gate_proofs.tla                                   # any *_proofs module
```

`PROJECT.json` lists the runs, what each definition models (`map`, with source
lines), the hazards and the properties that cover them, a plausible bug
(`mutants`) that breaks each property, the two findings and the theorems. The
bugs are definitions of the modules, marked `Slip:`; no specification uses them.

## 1. The system

### Components, state and operations

| Component | Source | State it keeps | Operations | Model |
|---|---|---|---|---|
| Admission gate | `scripts/ci_docker_gate.py` (`Gate`) | `maintenance.json`, `jobs/<id>.json`, locks `admission.lock`, `activity.lock` (shared/exclusive), a flock on every job record | `job`, `maintenance`, `status`, their finalisers | `Gate`, `Admission`, `GateRefinement`, `HostRun` |
| Operator reconciliation | `scripts/ci_docker_reconcile.py` | the same records; an evidence file | `reconcile` | `Gate` (partly) |
| Job lifecycle | `scripts/ci_docker_job.py` | a process group, the completion receipt, `lease.known` | `run`, `complete` | `JobLifecycle`, `JobRun`, `HostRun` |
| Host maintenance adapter | `scripts/ci_docker_maintenance.py` | the container, its exit code, `lease.known` | `maintain` | `MaintenanceRun` (partly), `HostRun` |
| Lease server and guard | `LeaseServer` of the gate, `ci_utils/guard.py` | deadline, bound process, active | `bind`, `check` | `MaintenanceRun` |
| Daemon client | `ci_utils/engine.py` | `mutation_started` | `get`, `remove`, `prune_cache` | `MaintenanceRun` (the order of guard, mark, request, answer), `CacheStage` (what a prune asks for) |
| Daemon cleanup | `ci_utils/cleanup.py`, `policy.py` | an inventory, protections | `plan`, `apply` | `Cleanup` (partly) |
| Removal of suite versions | `ci_utils/remove_images.py` | matches, protections | dry run, `--apply` | `RemoveImages` |
| Suite publication | `workflows/images.yml`, `scripts/promote-images.sh` | candidate, `sha-<commit>` and moving tags in the registry | build, scan, promote | `Promotion` (partly) |
| Suite release | `workflows/release.yml`, `next-version.sh`, `release-images.sh`, `promote-latest.sh` | version and `latest` tags, Git tags, GitHub Releases | `release`, `latest` jobs | `Release`, `Catalogue`, `ReleaseRefinement` |
| Cache stage | `ci_utils/cache.py` | candidates, the stage; BuildKit keeps the records | `preflight`, `observe`, `prune` | `CacheStage` |
| Storage pressure | `ci_utils/storage.py`, `scripts/ci_docker_storage.py` | filesystems measured so far | `measure`, `evaluate` | `JobRun`; only the result in `Cleanup` |
| Runner setup, utility image lookup, qualification, image definitions, BuildKit probe, tests | shell, Dockerfiles, Go | none that others share | — | not modelled (section 6) |

### How they interact

```
 ci-docker-maintenance job ──┐                        ┌── reconcile, status
                             ▼                        ▼
                      ┌──────────────── Gate ────────────────┐    Admission
                      │ records on disk + flocks             │◄── (what it promises)
                      └──────────────┬───────────────────────┘
                          lease      │      lease
               ┌─────────────────────┴──────────────┐
               ▼ (LeaseBody)                        ▼ (LeaseBody)
   JobRun: capacity, then JobLifecycle:       MaintenanceRun: host, LeaseServer
          wrapper, command, receipt           container, guard, engine
               │                                    │ runs one of
               ▼                                    ▼
          Docker daemon  ◄──────────────  Cleanup / RemoveImages
          with BuildKit  ◄──────────────  CacheStage (first stage of Cleanup)

 images.yml on each branch ── Promotion ──► registry ◄── Release ── release.yml
                                (sha-<commit>)  (X.Y.Z, latest)      Git, GitHub
```

The gate serialises jobs and cleanups of one host through files and flocks. A
*lease* is what `with gate.job(...)` and `with gate.maintenance(...)` yield. In
its body the caller uses the daemon, and calls `lease.complete()` once nothing of
its work is left there. If it does not, the record stays as `uncertain` and
blocks everybody until an operator reconciles it. The cleanup process in the
container asks the host's lease server before every mutating request; the host
believes its exit code. In the registry, publication and release meet: the
concurrency group of `main` orders runs of `main`, nothing orders those of other
branches.

### What is hard here

* Processes die anywhere. The kernel drops a dead process's flocks; its records
  and its requests to the daemon stay.
* `flock` is on an inode and `_write` renames a new one into place, so a lock on a
  record lasts no longer than that file; and whoever probes a lock holds it.
* A command outlives its wrapper, a request its client, children their leader,
  a container the `docker start` that timed out.
* Two locks are waited for while the other is held, in both orders: `reconcile` awaits
  `activity.lock` under `admission.lock`, a finaliser the reverse. Deadlines part them.
* Disks fill while they are measured, one path after the other.
* The build cache is used while it is pruned, and a prune can begin after its client
  has gone. Its age is counted by the daemon's clock in whole seconds, back from when
  it begins.
* An inventory of the daemon is old as soon as it has been read. The daemon's
  checks without `force` cover some of what changes, not all: not a stopped
  container's network, not a new protected tag on an image that goes by id, not
  a tag that moved to another image when it goes by name.
* A registry has no compare-and-set: inspect, then create. Every workflow
  step can fail before or after its effect, and failed jobs are run again with
  what was published so far.

`PROJECT.json` has these one by one under `hazards`, each at its line with the
properties that would catch it going wrong.

### What makes each component correct

* Gate: cleanup is alone on the daemon, even beside what dead processes left
  there; a record outlives the work it stands for; nobody waits for ever; new
  jobs do not starve a drain.
* Job lifecycle, maintenance run: `complete()` only over a quiet daemon, whatever
  is lost, late or killed. A job starts only where there was room for it.
* Cache stage: the age request takes nothing used within the maximum age, the budget request
  (which may take recent records) no more than the target asks for, and neither what has
  no known last use; what is due does go.
* Cleanup, removal: nothing protected or in use goes, however the daemon changes
  meanwhile; what was announced is what happens.
* Publication and release: a suite is of one build; tags that are promised to be
  immutable do not move; a release is complete or not there; versions increase.

## 2. Modules

| Module | Models | Its state in the code |
|---|---|---|
| `Gate` | processes of four roles over the lock files and records; a crash of any of them at any step | `maint`, `jobs`: the JSON files (owner, phase); `admission`, `exclusive`, `shared`, `registration`: holders of the flocks; `pc`, `known`: program counter and `lease.known`; `busy`: work the owner has in the daemon |
| `Admission` | what the gate promises, without locks, files and processes | – |
| `GateRefinement` | the refinement mapping: records are open jobs and the barrier, a lease is a body that may still start work | – |
| `LeaseBody` | the contract of a lease's body, as `Gate` uses it | – |
| `JobLifecycle` | `ci_docker_job.run` with the process group it starts | `attempted`, `handle`, `known`: locals of `run`; `receipt`: `complete.json` |
| `JobRun` | `JobLifecycle` with what comes before the launch: `measure` path by path, then `evaluate` | `filesystems`, `next`: locals of `measure`; `disk`, `mount`, `driver`, `root`: the host and the daemon; `roomy`: history |
| `MaintenanceRun` | `maintain`, the lease server and the process in the container | `started`, `known`: locals of `maintain`; `serving`, `expired`, `bound`: fields of `LeaseServer`; `mutated`: `engine.mutation_started` |
| `HostRun` | `Gate` with the real `run()` of one job and the real `maintain()` of one cleanup, and what they start, in place of the contract | those of `Gate`, `JobLifecycle` and `MaintenanceRun`; `known` and `busy` of the two owners follow from the latter |
| `Cleanup` | `apply` stage by stage and object by object; `plan` as an operator | `seen`, `protected`: fields of `Inventory`; `containers` ... `tags`: the daemon |
| `CacheStage` | `BuildCache.preflight` and `prune` with `Engine.prune_cache`, and the daemon's side of the two requests | `candidates`, `unused`, `stage`: locals of `prune`; `mutated`: `engine.mutation_started`; `present` ... `last`: BuildKit's records; `counted`, `dropped`: history |
| `RemoveImages` | `remove_versions`, reference by reference | `matches`, `seen` (`referenced`), `protected` |
| `Promotion` | runs of `images.yml` and their concurrency groups; `promote-images.sh` image by image | `revision`, `alias`: tags in the registry; `suite`: the digests a run passes on |
| `Release` | extends `Promotion` with runs of `release.yml` | `stable`, `latest`: tags in the registry; `git`, `current`: Git tags, the latest GitHub Release; `record`, `missing`: files of the job |
| `Catalogue` | what users see of releases: whole versions that appear in order and stay, latest tags that follow | – |
| `ReleaseRefinement` | the refinement mapping: a version's entry is made of its tags once the Git tag exists | – |
| `MC*` | values of the constants for TLC | – |
| `*_proofs` | the theorems | – |

One action is one step that others can see: taking a lock, writing a record,
a request to the daemon or the registry, launching or reaping a process. What a
process does on its own between two such steps belongs to one of them. A
definition keeps the name the code has for it where there is one.

`Gate` takes the body of a lease as `StartWork`, `EndWork`, `Complete` and
`LeaveBody` under a contract; `LeaseBody` states that contract for one owner and
`JobLifecycle` and `MaintenanceRun` are shown to implement it. That is the
composition by contract. `HostRun` is the composition itself: the steps of `run()` and
`maintain()`, of the command, the container and the daemon are steps of the host, each with
what the gate sees of it (`Seen`), and crashes and later invocations reach both sides.
The container's id is written under `admission.lock`, so this write is a step of the gate and
of `maintain()` at once (`MaintNaming`). `ImplementsGate` is `Gate`'s own specification:
the host is one of its behaviours. `MaintenanceRun` is model-checked there, among crashes,
operators and later invocations, and not by itself. `JobRun` adds
the check of capacity to `JobLifecycle` and refines it: it constrains `Prepare`, which
`JobLifecycle` leaves free, and its own steps are stutters there.

What the environment may do is always stated as actions:

* In `JobLifecycle` the command does anything but what `docs/maintenance.md` asks
  it not to: it writes the receipt when its daemon operations are over, starts
  none afterwards, and keeps its processes in its group.
* In `MaintenanceRun` requests are lost or late, `docker start` times out before or
  after the container runs, and anything can be killed.
* In `JobRun` others write to every disk between any two measurements.
* In `CacheStage` a request is an actor of its own that begins late, fails half way, or
  goes on without its client; `Scenarios` names what others do to the records at any time,
  and the clock runs. How BuildKit selects records is modelled from what `cache.py`
  and `prune_cache` rely on and is marked external.
* In `Cleanup` and `RemoveImages` `Scenarios` names what other clients do between
  any two requests. Clients that hold a lease do none of it. `window` records
  what has changed since the lease was checked for the object at hand: the
  properties say that no object is lost except through that window. Nothing in
  the code closes it for clients without a lease; with clients that hold leases
  it stays empty.
* In `Promotion` and `Release` each job can fail or be cancelled at each step, an
  inspect can fail to answer (`Unreliable`), and failed jobs can be run again.
  "Re-run all jobs" is another element of `Builds`. `GroupOf` says which branch
  a run is of.

Images, commits, digests and names are members of small sets. What a policy says
of an object that cannot change in place (labels, age, driver) is a constant set.

## 3. Runs

All runs finish within about three minutes with two workers.

| Run | Question | Instance |
|---|---|---|
| `gate_safety` | Is cleanup exclusive, who can make the record of an ended process go, who can deadlock, and does all of it implement `Admission`? | 2 jobs, 2 maintenance runs, 1 reconciler, 1 status process; jobs and maintenance runs interchangeable |
| `gate_live` | Does every call return or drain, whoever crashes? Can new jobs starve a drain? Does the record of an ended process keep jobs out? | 2 jobs, 1 maintenance run, 1 reconciler |
| `gate_status` | Expected to fail: finding 1 | 2 jobs, 1 status process |
| `host_run` | With the real bodies: is it a behaviour of `Gate`, is the cleanup's container ever beside something of the job, is what may still run named on disk, is an accepted exit code truthful, does a started cleanup end? | 1 job, 1 maintenance run, both with their real bodies, 1 reconciler |
| `job_run` | Is a job launched only where there is room, and does it keep the contract of a lease's body? | 2 disks, 3 paths on them in every way, 5 fillings; every driver and root |
| `promotion_branch` | On one branch: is a suite of one build, do revision tags stay? | 2 runs of 1 commit, 3 images |
| `promotion_topic` | Expected to fail: finding 2 | the same, the second run on another branch |
| `release_main` | Do released versions match their commit, do latest tags follow the current release, do versions increase? | 2 builds of 2 commits, 2 release runs with either bump, 2 images; release runs and digests interchangeable |
| `release_branches` | Do version tags stay, and does all of it implement `Catalogue`, while revision tags move and inspects fail? | 2 builds of 1 commit on two branches, 1 release run, either bump, 2 images |
| `cleanup` | What can go that should not, and does `apply` do what `plan` says? | 2 containers, 2 networks, 2 images, 2 tags; three scenarios; every initial state of containers and tags |
| `cache` | Can the age request take what was used recently, the budget request more than the target asks for, either a record of unknown last use? Does an undisturbed run take what is due? | a record, one made on top of it, an internal one that images can share; three ticks to a second, four moments; three scenarios; every initial state with at most one record in use |
| `remove_images` | The same of `ci-remove-images` | 1 container, 2 images, 3 references; two scenarios; every initial state |

Why these bounds are enough to be interesting:

* Two jobs: one that is dead or done beside one that asks. Two maintenance
  runs: one that finalises beside one that wants to begin. One reconciler and one
  status process suffice to get between any two steps of these. Ids are reused once
  nothing of them is left (the code draws fresh ones), so runs are not bounded
  in number.
* `host_run` needs no second job: what other processes do there is what they do in
  `Gate`, and ids are reused, so a later job meets what an earlier one has left.
* Two images are enough for a promotion or release to stop half way, three for
  it to stop half way twice. Two commits let `main` move on in between. `MaxPart`
  bounds the parts of a version to 0 and 1.
* Two containers with a shared network, one of them removable, make a network
  that becomes free in the run and one that does not. Two tags, one protected,
  make tags move onto and away from protected images. Three references, one of
  them protected and not selected, make an image with several selected tags, and one
  with a selected and a protected tag.
* Two disks under three paths make filesystems that are met twice and ones that are met
  late. The fillings lie on both sides of every boundary: just the reserve and less,
  the critical percentage and less, more bytes than the total, and no blocks at all.
* A second of three ticks is the shortest in which rounding up, down and not at all
  differ. `OldTimes` are the last tick that is due even after rounding and the first that
  the cutoff selects and rounding keeps; three ticks of `MaxTime` let a whole second
  pass between the observation and the begin of a request. Three records make a chain,
  and an internal record beside it.

`CHECK_DEADLOCK FALSE` is set where a finite number of runs may all be done:
`Promotion`, `Release`, `Cleanup`, `RemoveImages`, `CacheStage`. The gate, jobs and maintenance
runs are checked for deadlock.

### Fairness

* `gate_live` (`CallFairness`): processes get scheduled, a wait for `admission.lock` ends
  with the lock or with the deadline of `_acquire`, bodies end (jobs have a
  `--timeout`, maintenance a deadline). `JobGivesUp` is strongly fair: a job that
  polls and is blocked again and again passes its deadline, which is read in every
  round. The drain itself gets no help from its deadline: `MaintAcquire` is only
  *weakly* fair, which is what `flock` with polling gives when the lock stays free;
  that the lock does become and stay free is what the barrier is for. Crashing, asking
  and operators' steps are under no fairness; `DrainCompletes` has the premise that
  operators come to rest (`OperatorsRest`), as one who retries for ever could take
  the exclusive lock each time.
* `host_run` (`HostFairness`): `maintain()` and the container get scheduled, the daemon
  answers what it received; the job, the operator and the gate get no fairness. The run's deadline, looked at with every read, is
  strongly fair, so that a cleanup that reads for ever ends.

## 4. Findings

1. **A status process lets jobs past an unresolved record** (`gate_status`,
   `scripts/ci_docker_gate.py:446`). `status()` probes every job's registration lock without
   `admission.lock`. While it holds the lock of a dead job's record, `job()` takes
   that job for alive and admits another. `docs/maintenance.md:54`: "Missing
   receipts, signals, timeouts, wrapper crashes, or remaining clients leave admission
   blocked." Without status processes the property holds: `gate_live` checks it and
   `UnresolvedBlocksJobs` proves it under the assumption `Observers = {}`.
   Exclusion of cleanup is not affected (`WorkIsExclusive` has no such assumption): a
   maintenance run reads the records, not the locks.
2. **Revision tags can move** (`promotion_topic`,
   `.github/scripts/promote-images.sh:106`). Two runs for one commit on different branches
   both find `sha-<commit>` absent; the second create overwrites. `docs/release.md:49`
   calls the tag "Immutable source revision." A failed inspect counts as absence as well
   (line 87), which has the same effect on one branch. Version tags do not move
   even then: `release_branches` and the theorem `StableImmutability`.

## 5. Proofs

All theorems are of the form `Spec => []P`, `Spec => [][A]_vars`, or `Spec => Abstract`,
for all values of the constants that satisfy the named assumptions of their
modules (roles are disjoint, `None` is none of them, and the like). TLC evaluates
each assumption in some run.

* **`Gate_proofs`**. `Invariance` proves `IInv`: `WorkExclusion` is not inductive, as it says
  nothing of who is about to be granted what. `IInv` adds who holds which lock at
  which label (`AdmissionInv`, `SharedInv`, `ExclusiveInv`, `RegistrationInv`), that
  records exist from before the grant until after the work (`MaintRecordInv`,
  `JobRecordInv`, `BusyInv`), that no job record exists while cleanup may work
  (`GrantInv`), and what an operator has audited (`TargetInv`). From it follow
  `WorkIsExclusive`, `BusyStaysRecorded`, `FinalisesOwnRecord`, `DeadlocksNeedReconcile`,
  `RefusalHasCause` and `GateImplementsAdmission`: each step maps to a step of `Admission`
  or to none. Of steps, `RecordsOutliveProcesses` says that the record of an ended process
  goes only with an operator who has audited it (`EndedKeepsRecord` goes through all who write
  records), `DrainAdmitsNobody` that the activity lock only loses holders while a
  maintenance record is on disk, and `OnlyProbesMislead` that a job gets past the record of
  an ended process only if that was a job whose lock somebody probes; `UnresolvedBlocksJobs`
  is the case without status processes. `DeadlocksNeedReconcile` is about sets of processes that
  all wait for one another's locks (`Awaits`): each has a reconcile in it that awaits
  `activity.lock` under `admission.lock`. The argument goes up the order of the locks: who
  awaits the shared lock awaits an owner at its last step (`SharingEnds`); so
  who holds `admission.lock` and waits is that reconcile; without it only drains are left, and what
  they wait for is no drain. For this `AdmissionInv` and `SharedInv` are equivalences. The
  cycle with reconcile is real: an owner at its finaliser holds `activity.lock` and awaits
  `admission.lock` (`gate.py:392`, `:425`, `:438`), `reconcile.py:64` the reverse. Both have five
  seconds; if the owner's pass first, the record of finished work stays for an operator. `RegistrationInv` is there for that: nobody else
  ever holds the lock of a job's record.
* **The host**, at the end of `Gate_proofs`. `HostImplementsGate`, with `CleanupRunsAlone` and
  `CleanupIsTraced`, of `HostRun`. Its invariant `HInv` couples what the gate has of an owner
  with the owner's own state (`JobCoupled`, `MaintCoupled`: `known` and `busy` agree, a body
  is over when the gate has left it, and nothing has begun before it is entered), and says
  that the id of the container is on disk from before `docker start` until the work is
  over (`NamingInv`). The invariants and steps of the two bodies are not proved again:
  the lemmas of `JobLifecycle_proofs` and `MaintenanceRun_proofs` are instanced for the host's
  variables (`JobFacts`, `MaintFacts`; the constants of `JobRun`, which these lemmas do not
  mention, get values that satisfy its assumption). `BodyStep` says that any step of the contract is a step of
  the gate or none, `OutsideMoves` and `Apart` that nobody else touches a body, `RecordKept`
  that nobody else touches its record. As the host implements `Gate`, everything proved of the
  gate holds of it; `CleanupRunsAlone` uses that to keep command, children and
  operations of the job apart from the container and the requests of the cleanup, and
  `HostCodeIsTruthful` carries `RunCodeIsTruthful` over.
* **`Admission_proofs`**. `AdmissionIsExclusive`; the strengthening is that no job is open
  while cleanup has a lease or work.
* **`JobLifecycle_proofs`, `MaintenanceRun_proofs`**. `JobKnownIsQuiet`, `RunCodeIsTruthful`, and
  that both implement `LeaseBody`. The invariants relate the program counter to what
  has been started, and the client's label to the request it may have sent.
  `CapacityBeforeLaunch` is proved of `JobRun` from an invariant that the paths before
  `next` have been measured and that what was measured had been so since the lease;
  `AdmissibleHasRoom` is the arithmetic. `RunIsJobLifecycle` carries everything proved of
  `JobLifecycle` over to `JobRun`.
* **`CacheStage_proofs`**. `IInv` says that requests exist only after the mutation mark, in
  scheduled mode and with a capable backend, and that `unused` is at least the maximum
  age while an age request can take effect (`UnusedIsLongEnough`: rounding up, at
  whatever resolution, cannot make it shorter). `Retention`, `BudgetLimit` and
  `CodeTruth` follow: since the clock only grows, a request that begins late spares more,
  not less. `QuietRunCompletes` is about the run that nobody disturbs. Its invariant says for
  each moment what is left to do: a request names everything that was eligible when the
  caches were observed (`NamedInv`), a daemon that has ended leaves nothing it could take
  (`NothingDue`, `NothingLeft`, `WithinTarget`), and so does a run that says it is done
  (`FoundInv`, `RunInv`). BuildKit takes a record only when nothing is on top of it; the
  proof needs that among the records due some has nothing due on top of it, which
  `DependentsAssumption` gives: no record is on top of itself, so every finite set of
  records has one with nothing of the set on top of it.
* **`Release_proofs`**. `Invariance` proves an `IInv` that says who holds the concurrency
  group of `main` at which step, that the calculated version is above all released ones
  until it is published, and what the two loops have established for the images they
  have passed: those in `missing` still lack the version's tag until their turn. Only the
  holder of the group writes version tags, so this survives the steps of all
  others. `StableImmutability`, `ReleaseCompletenessThm`, `VersionOrder`, `LatestOrder` and
  `LatestCompletenessThm` follow. Nothing is assumed of the registry's inspects.
  Of revision tags, `PromotionInv` says that what a commit has of them is at any time an
  initial piece of one run's suite (`PieceInv`), and that a run has found or set its
  own digests up to `next` (`PassedInv`). It is inductive under `OneBranchPerCommit`, as
  then the concurrency group lets one run for a commit past the queue at a time, and
  under `~Unreliable`, as then a tag is created only where there is none; finding 2 shows
  that neither can be left out. `RevisionImmutability` and `SuiteOfOneBuild` (of a suite
  with at least one image) follow, and with `RecordInv`, which ties what a release run
  has got to to both kinds of tags, `ReleaseMatches`. `ReleaseImplementsCatalogue` maps every
  step to one of `Catalogue` or to none: the Git tag is the step with which a version
  appears, whole, above all others, and what a user may then see of it never changes.
  `EntryAssumption` says that no choice of digests stands for "no release". `CurrentHighest`
  (the release that GitHub calls latest is the highest Git tag) and `LatestReleased` (a
  latest tag names an image of some release) follow.
* **`Cleanup_proofs`, `RemoveImages_proofs`**. `IInv` says what has been established about the
  item, up to `window`: containers outside it are in the inventory, protected tags
  outside it are not on the item's image. The theorems are that the properties on
  steps follow, for every set of objects, every policy and every scenario.
  `PlanIsBound` rests on two facts: the containers that `plan` does not report stay, and
  decisions only get stricter with more references, so that whatever is found eligible
  was so for `plan` (`Stricter`, `EligibleWasForeseen`). `PlanIsComplete` adds what each stage
  leaves behind (`StagesOver`): when networks and images get their turn, `containers` is
  what `plan` assumed to be left (`DueIsEligible`). `DryRun` rests on
  `ResolvedStays`: no removal takes away a tag that protects an image, so the verdict on a
  tag does not depend on the order of the removals.

Only model-checked: liveness (`CallsReturn`, `DrainCompletes`, `RunEnds`), which is out of the
prover's reach. `DrainAdmitsNobody` is the safety fact that `DrainCompletes` rests on. `CallsReturn` needs the
deadlines: `DeadlockNeedsReconcile` leaves one wait cycle, and only they end it.

## 6. What is not modelled, and why

* Formats: JSON records and their validation, reports, labels, HTTP framing, argument
  parsing, configuration. No property here depends on them; a malformed answer is
  a failure where it is read.
* Time, outside `CacheStage`: ages and deadlines are choices of the environment. Whether
  an object is old enough does not change during a run. That the clock is set during
  a run is not modelled.
* TLC runs `Cleanup` for the weekly profile with the trigger `pressure` only, the case with
  most steps; the other profiles and triggers rest on the theorems of `Cleanup_proofs`, which are
  about all of them. There and in `RemoveImages` TLC takes all protected tags to be protected
  references (`NamedRefs`); tags of protected repositories, which
  `resolve_protections` does not look up, are covered by the theorems as well.
* Repository digests do not change in `Cleanup` and `RemoveImages`. What they decide (protection,
  scope) is in the constant sets: `PinnedImages`, `ScopeIds`, the `Old` sets.
* In `Cleanup`, the cache stage is one step that changes nothing modelled there (it is
  `CacheStage`); volumes are never touched. In a quiet scenario the children of images do not exist.
* In `Promotion`, the jobs before promotion are one step: candidate tags
  carry run and attempt, so runs share nothing there. That an index has both platforms,
  and that tags or releases made by hand get in the way, is not modelled.
* The daemon audit of `reconcile` is a guard that the audited owner has no work left;
  its evidence file is left out.
* Runner setup is a sequence of idempotent commands of one operator. The utility
  image lookup is one query. The workflows that test, the image definitions, the probe
  and the tests have no state that others share.

## 7. Plan

Done, in order of importance: the gate with its abstract specification, the two
lease bodies, publication and release, cleanup, removal of versions, the cache stage, the check
of capacity, the catalogue of releases, the composition of gate and bodies on one host; every
safety property that a run checks, as a theorem.

Next:

1. The details of `reconcile`: evidence against a record that changes while it is collected.
2. Candidate tags of the image jobs, run attempts included, in place of the one step
   `BuildSuite`.
