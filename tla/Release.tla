------------------------------- MODULE Release -------------------------------
(***************************************************************************)
(* The release of a suite, .github/workflows/release.yml: job `release`    *)
(* calculates the next version (next-version.sh), gives the digests of the *)
(* revision tags of current main the version's tag (release-images.sh) and *)
(* creates the Git tag with the GitHub Release; job `latest` then moves    *)
(* the latest tags (promote-latest.sh).                                    *)
(*                                                                         *)
(* Release runs share the concurrency group of main with the runs of       *)
(* Promotion, and the registry with all of them.  A job can fail at any    *)
(* step, before or after the effect of its call; "re-run failed jobs"      *)
(* starts the failed job from its beginning.  Versions are triples up to   *)
(* MaxPart, and main moves forward through the commits 1, 2, ...           *)
(***************************************************************************)
EXTENDS Promotion

CONSTANTS
    Releases,   \* runs of the workflow
    MainGroup,  \* the concurrency group of main
    Bumps,      \* subset of {"patch", "minor", "major"}
    MaxPart     \* bound on the components of a version

Part == 0 .. MaxPart
Versions == Part \X Part \X Part
Requests == [sha : Commits, bump : Bumps]

ASSUME ReleaseAssumption ==
    /\ Commits \subseteq Nat
    /\ MainGroup \in Groups
    /\ Releases \cap Builds = {}
    /\ None \notin Releases
    /\ None \notin Commits \cup Versions \cup Requests
    /\ MaxPart \in Nat
    /\ Bumps \subseteq {"patch", "minor", "major"}

VARIABLES
    main,     \* the commit at the head of main
    stable,   \* tag X.Y.Z of each image: a digest or None
    latest,   \* tag latest of each image: a digest or None
    git,      \* Git tag and GitHub Release vX.Y.Z: a commit or None
    current,  \* the release GitHub calls latest, or None
    rpc,      \* what a run does next
    request,  \* GITHUB_SHA and bump of a run
    version,  \* the version it has calculated
    record,   \* the digests it releases
    missing,  \* images whose version tag it did not find
    place     \* the image its current loop has got to

rvars == <<main, stable, latest, git, current, rpc, request, version, record,
           missing, place>>
rest == <<rpc, request, version, record, missing, place>>
published == <<stable, latest, git, current>>
vars == <<bvars, rvars>>

GoOn(r, label) == rpc' = [rpc EXCEPT ![r] = label]

(* A workflow run, with all its jobs, holds the group. *)
Leave(r, label) ==
    /\ GoOn(r, label)
    /\ group' = [group EXCEPT ![MainGroup] = None]
    /\ UNCHANGED <<revision, alias, bpc, suite, next>>

NoDigests == [i \in Images |-> None]

(* The runner of a job that ends is thrown away with what it has found out. *)
Fail(r) ==
    /\ Leave(r, "failed")
    /\ version' = [version EXCEPT ![r] = None]
    /\ record' = [record EXCEPT ![r] = NoDigests]
    /\ missing' = [missing EXCEPT ![r] = {}]
    /\ place' = [place EXCEPT ![r] = 1]
    /\ UNCHANGED request

(* Slip: a run that is started again does not queue. *)
TakeAnyway(r, from, to) ==
    /\ rpc[r] = from
    /\ group' = [group EXCEPT ![MainGroup] = r]
    /\ GoOn(r, to)
    /\ UNCHANGED <<revision, alias, bpc, suite, next, main, published,
                   request, version, record, missing, place>>

Take(r, from, to) ==
    /\ rpc[r] = from
    /\ group[MainGroup] = None
    /\ group' = [group EXCEPT ![MainGroup] = r]
    /\ GoOn(r, to)
    /\ UNCHANGED <<revision, alias, bpc, suite, next, main, published,
                   request, version, record, missing, place>>

-----------------------------------------------------------------------------
(* next-version.sh *)

Lower(u, v) ==
    \/ u[1] < v[1]
    \/ u[1] = v[1] /\ u[2] < v[2]
    \/ u[1] = v[1] /\ u[2] = v[2] /\ u[3] < v[3]

Released == {v \in Versions : git[v] # None}

(* Slip: the checkout has no tags. *)
IsUntagged(v) == v = <<0, 0, 0>>

(* The highest stable Git tag, or v0.0.0. *)
IsCurrentVersion(v) ==
    \/ v \in Released /\ \A u \in Released : u = v \/ Lower(u, v)
    \/ Released = {} /\ v = <<0, 0, 0>>

Bumped(v, bump) ==
    CASE bump = "patch" -> <<v[1], v[2], v[3] + 1>>
      [] bump = "minor" -> <<v[1], v[2] + 1, 0>>
      [] bump = "major" -> <<v[1] + 1, 0, 0>>

-----------------------------------------------------------------------------
(* Job `release` *)

Dispatch(r) ==
    /\ rpc[r] = "idle"
    /\ \E bump \in Bumps :
           request' = [request EXCEPT ![r] = [sha |-> main, bump |-> bump]]
    /\ GoOn(r, "queued")
    /\ UNCHANGED <<bvars, main, published, version, record, missing, place>>

Begin(r) == Take(r, "queued", "preparing")

(* Checkout with all tags, the check against main, the next version.        *)
Prepare(r) ==
    /\ rpc[r] = "preparing"
    /\ main = request[r].sha
    /\ \E v \in Versions :
           /\ IsCurrentVersion(v)
           /\ Bumped(v, request[r].bump) \in Versions
           /\ version' = [version EXCEPT ![r] = Bumped(v, request[r].bump)]
    /\ GoOn(r, "inspecting")
    /\ UNCHANGED <<bvars, main, published, request, record, missing, place>>

(* Slip: a failed inspect of the version tag means that it is missing.      *)
InspectTolerant(r) ==
    /\ rpc[r] = "inspecting" /\ place[r] \in Images
    /\ LET i == place[r]
           digest == revision[i][request[r].sha]
       IN /\ digest # None
          /\ record' = [record EXCEPT ![r][i] = digest]
          /\ missing' = [missing EXCEPT ![r] = @ \cup {i}]
    /\ place' = [place EXCEPT ![r] = @ + 1]
    /\ UNCHANGED <<bvars, main, published, rpc, request, version>>

(* Slip: a version tag that exists is taken as it is. *)
InspectTrusting(r) ==
    /\ rpc[r] = "inspecting" /\ place[r] \in Images
    /\ LET i == place[r]
           found == stable[i][version[r]]
           digest == IF found = None THEN revision[i][request[r].sha] ELSE found
       IN /\ digest # None
          /\ record' = [record EXCEPT ![r][i] = digest]
          /\ missing' = [missing EXCEPT ![r] = IF found = None THEN @ \cup {i} ELSE @]
    /\ place' = [place EXCEPT ![r] = @ + 1]
    /\ UNCHANGED <<bvars, main, published, rpc, request, version>>

(* First loop: both tags of one image, before anything is written.          *)
Inspect(r) ==
    /\ rpc[r] = "inspecting" /\ place[r] \in Images
    /\ LET i == place[r]
           digest == revision[i][request[r].sha]
       IN /\ digest # None
          /\ stable[i][version[r]] \in {None, digest}
          /\ record' = [record EXCEPT ![r][i] = digest]
          /\ missing' = [missing EXCEPT
                             ![r] = IF stable[i][version[r]] = None THEN @ \cup {i} ELSE @]
    /\ place' = [place EXCEPT ![r] = @ + 1]
    /\ UNCHANGED <<bvars, main, published, rpc, request, version>>

Inspected(r) ==
    /\ rpc[r] = "inspecting" /\ place[r] \notin Images
    /\ place' = [place EXCEPT ![r] = 1]
    /\ GoOn(r, "promoting")
    /\ UNCHANGED <<bvars, main, published, request, version, record, missing>>

SetStable(r) ==
    stable' = [stable EXCEPT ![place[r]][version[r]] = record[r][place[r]]]

(* Second loop: create the version tag where it was missing, and inspect it.*)
Promote(r) ==
    /\ rpc[r] = "promoting" /\ place[r] \in Images
    /\ IF place[r] \in missing[r] THEN SetStable(r) ELSE UNCHANGED stable
    /\ stable'[place[r]][version[r]] = record[r][place[r]]
    /\ place' = [place EXCEPT ![r] = @ + 1]
    /\ UNCHANGED <<bvars, main, latest, git, current, rpc, request, version,
                   record, missing>>

PromoteFails(r) ==
    /\ rpc[r] = "promoting" /\ place[r] \in missing[r]
    /\ SetStable(r)
    /\ Fail(r)
    /\ UNCHANGED <<main, latest, git, current>>

(* Slip: the GitHub Release comes before the images. *)
PublishFirst(r) ==
    /\ rpc[r] = "promoting"
    /\ git[version[r]] = None
    /\ git' = [git EXCEPT ![version[r]] = request[r].sha]
    /\ current' = version[r]
    /\ missing' = [missing EXCEPT ![r] = {}]
    /\ place' = [place EXCEPT ![r] = 1]
    /\ GoOn(r, "tagged")
    /\ UNCHANGED <<bvars, main, stable, latest, request, version, record>>

(* gh release create --latest --target: Git tag and release. *)
Publish(r) ==
    /\ rpc[r] = "promoting" /\ place[r] \notin Images
    /\ git[version[r]] = None
    /\ git' = [git EXCEPT ![version[r]] = request[r].sha]
    /\ current' = version[r]
    /\ missing' = [missing EXCEPT ![r] = {}]
    /\ place' = [place EXCEPT ![r] = 1]
    /\ GoOn(r, "tagged")
    /\ UNCHANGED <<bvars, main, stable, latest, request, version, record>>

(* The Git tag is read back; job `latest` is due. *)
TagChecked(r) ==
    /\ rpc[r] = "tagged"
    /\ git[version[r]] = request[r].sha
    /\ GoOn(r, "checking")
    /\ UNCHANGED <<bvars, main, published, request, version, record, missing, place>>

(* A check or a call fails, the job times out, or the run is cancelled.     *)
ReleaseFails(r) ==
    /\ rpc[r] \in {"preparing", "inspecting", "promoting", "tagged"}
    /\ Fail(r)
    /\ UNCHANGED <<main, published>>

Dropped(r) ==
    /\ rpc[r] = "queued"
    /\ GoOn(r, "failed")
    /\ UNCHANGED <<bvars, main, published, request, version, record, missing, place>>

ReleaseAgain(r) ==
    /\ rpc[r] = "failed"
    /\ GoOn(r, "queued")
    /\ UNCHANGED <<bvars, main, published, request, version, record, missing, place>>

-----------------------------------------------------------------------------
(* Job `latest` *)

(* Slip: an old run may still move the latest tags. *)
CheckTagsOnly(r) ==
    /\ rpc[r] = "checking"
    /\ \A i \in Images : stable[i][version[r]] = record[r][i]
    /\ GoOn(r, "moving")
    /\ UNCHANGED <<bvars, main, published, request, version, record, missing, place>>

(* The release is the current one, and all its image tags are in place.     *)
CheckCurrent(r) ==
    /\ rpc[r] = "checking"
    /\ current = version[r]
    /\ \A i \in Images : stable[i][version[r]] = record[r][i]
    /\ GoOn(r, "moving")
    /\ UNCHANGED <<bvars, main, published, request, version, record, missing, place>>

SetLatest(r) == latest' = [latest EXCEPT ![place[r]] = record[r][place[r]]]

MoveLatest(r) ==
    /\ rpc[r] = "moving" /\ place[r] \in Images
    /\ SetLatest(r)
    /\ place' = [place EXCEPT ![r] = @ + 1]
    /\ UNCHANGED <<bvars, main, stable, git, current, rpc, request, version,
                   record, missing>>

MoveFails(r) ==
    /\ rpc[r] = "moving" /\ place[r] \in Images
    /\ SetLatest(r)
    /\ Leave(r, "stalled")
    /\ place' = [place EXCEPT ![r] = 1]
    /\ UNCHANGED <<main, stable, git, current, request, version, record, missing>>

LatestFails(r) ==
    /\ rpc[r] \in {"checking", "moving"}
    /\ Leave(r, "stalled")
    /\ place' = [place EXCEPT ![r] = 1]
    /\ UNCHANGED <<main, published, request, version, record, missing>>

LatestAgain(r) == Take(r, "stalled", "checking")

ReleaseDone(r) ==
    /\ rpc[r] = "moving" /\ place[r] \notin Images
    /\ Leave(r, "done")
    /\ UNCHANGED <<main, published, request, version, record, missing, place>>

-----------------------------------------------------------------------------

MainAdvances ==
    /\ main + 1 \in Commits
    /\ main' = main + 1
    /\ UNCHANGED <<bvars, published, rest>>

Init ==
    /\ BuildInit
    /\ main \in Commits /\ \A c \in Commits : main <= c
    /\ stable = [i \in Images |-> [v \in Versions |-> None]]
    /\ latest = [i \in Images |-> None]
    /\ git = [v \in Versions |-> None]
    /\ current = None
    /\ rpc = [r \in Releases |-> "idle"]
    /\ request = [r \in Releases |-> None]
    /\ version = [r \in Releases |-> None]
    /\ record = [r \in Releases |-> NoDigests]
    /\ missing = [r \in Releases |-> {}]
    /\ place = [r \in Releases |-> 1]

(* Runs on main are for what main has or had. *)
Pushed(b) == GroupOf[b] = MainGroup => CommitOf[b] <= main

ReleaseJob(r) ==
    \/ Dispatch(r) \/ Begin(r) \/ Prepare(r) \/ Inspect(r) \/ Inspected(r)
    \/ Promote(r) \/ PromoteFails(r) \/ Publish(r) \/ TagChecked(r)
    \/ ReleaseFails(r) \/ Dropped(r) \/ ReleaseAgain(r)

LatestJob(r) ==
    \/ CheckCurrent(r) \/ MoveLatest(r) \/ MoveFails(r)
    \/ LatestFails(r) \/ LatestAgain(r) \/ ReleaseDone(r)

Next ==
    \/ \E b \in Builds : Pushed(b) /\ BuildRun(b) /\ UNCHANGED rvars
    \/ \E r \in Releases : ReleaseJob(r) \/ LatestJob(r)
    \/ MainAdvances

Spec == Init /\ [][Next]_vars

-----------------------------------------------------------------------------
ReleaseLabels == {"idle", "queued", "preparing", "inspecting", "promoting", "tagged",
                  "checking", "moving", "failed", "stalled", "done"}

(* Every variable keeps its type. *)
TypeOK ==
    /\ BuildTypeOK
    /\ group \in [Groups -> Builds \cup Releases \cup {None}]
    /\ main \in Commits
    /\ stable \in [Images -> [Versions -> Digests \cup {None}]]
    /\ latest \in [Images -> Digests \cup {None}]
    /\ git \in [Versions -> Commits \cup {None}]
    /\ current \in Versions \cup {None}
    /\ rpc \in [Releases -> ReleaseLabels]
    /\ request \in [Releases -> Requests \cup {None}]
    /\ version \in [Releases -> Versions \cup {None}]
    /\ record \in [Releases -> [Images -> Digests \cup {None}]]
    /\ missing \in [Releases -> SUBSET Images]
    /\ place \in [Releases -> 1 .. NumImages + 1]

(* docs/release.md:82: "Published versions are never moved."  Nor is the    *)
(* tag of a version whose promotion stopped half way.                       *)
StableImmutable ==
    [][\A i \in Images, v \in Versions :
           stable[i][v] # None => stable'[i][v] = stable[i][v]]_vars

(* docs/release.md:41: "The Git tag is created only after registry          *)
(* promotion succeeds": a released version has all its images.              *)
ReleaseComplete ==
    \A v \in Released, i \in Images : stable[i][v] # None

(* Every release is higher than all before it, although several runs        *)
(* calculate their versions and some of them fail and start again.          *)
VersionsIncrease ==
    [][\A v \in Versions :
           git[v] = None /\ git'[v] # None => \A u \in Released : Lower(u, v)]_vars

(* A latest tag only ever moves to the image of the current release, so     *)
(* that re-running an old run cannot bring it back.                         *)
LatestFollows ==
    [][\A i \in Images :
           latest'[i] # latest[i] =>
               current # None /\ latest'[i] = stable[i][current]]_vars

(* After a successful run for the current release, all latest tags are its. *)
LatestComplete ==
    \A r \in Releases :
        rpc[r] = "done" /\ version[r] = current =>
            \A i \in Images : latest[i] = stable[i][current]

-----------------------------------------------------------------------------
(* The inductive invariant behind the properties of version and latest tags *)

(* Who writes or reads back tags does so for an image. *)
AtImage == \A b \in Builds : bpc[b] \in {"creating", "verifying"} => next[b] \in Images

(* Who is past the queue of a group holds it. *)
GroupInv ==
    /\ \A b \in Builds :
           bpc[b] \in {"building", "inspecting", "creating", "verifying"} =>
               group[GroupOf[b]] = b
    /\ \A r \in Releases :
           rpc[r] \in {"preparing", "inspecting", "promoting", "tagged", "checking", "moving"} =>
               group[MainGroup] = r

(* Between its first inspect and its publication a run has a request, and a *)
(* version above all that exist.                                            *)
VersionInv ==
    \A r \in Releases :
        /\ rpc[r] # "idle" => request[r] # None
        /\ rpc[r] \in {"inspecting", "promoting", "tagged", "checking", "moving",
                       "stalled", "done"} => version[r] # None
        /\ rpc[r] \in {"inspecting", "promoting"} =>
               \A u \in Released : Lower(u, version[r])

(* What the loops have established when they have got to `place`. *)
LoopInvOf(r) ==
    /\ rpc[r] \in {"idle", "queued", "preparing", "failed"} =>
           place[r] = 1 /\ missing[r] = {}
    /\ rpc[r] \in {"tagged", "checking", "stalled"} => place[r] = 1
    /\ rpc[r] = "inspecting" =>
           \A i \in Images :
               /\ i \in missing[r] => i < place[r] /\ stable[i][version[r]] = None
               /\ i < place[r] => record[r][i] # None
    /\ rpc[r] = "promoting" =>
           \A i \in Images :
               /\ record[r][i] # None
               /\ i \in missing[r] /\ place[r] <= i => stable[i][version[r]] = None
               /\ i < place[r] => stable[i][version[r]] # None

LoopInv == \A r \in Releases : LoopInvOf(r)

(* Published versions differ from run to run; while latest tags move, they  *)
(* move to the current one.                                                 *)
PublishedInv ==
    /\ current # None => git[current] # None
    /\ \A r \in Releases :
           rpc[r] \in {"tagged", "checking", "moving", "stalled", "done"} =>
               git[version[r]] # None
    /\ \A q, r \in Releases :
           /\ rpc[q] \in {"tagged", "checking", "moving", "stalled", "done"}
           /\ rpc[r] \in {"tagged", "checking", "moving", "stalled", "done"}
           /\ version[q] = version[r]
           => q = r
    /\ \A r \in Releases :
           rpc[r] = "moving" =>
               /\ current = version[r]
               /\ \A i \in Images : stable[i][current] = record[r][i]
               /\ \A i \in Images : i < place[r] => latest[i] = record[r][i]

IInv ==
    /\ TypeOK
    /\ AtImage
    /\ GroupInv
    /\ VersionInv
    /\ LoopInv
    /\ ReleaseComplete
    /\ PublishedInv
    /\ LatestComplete

-----------------------------------------------------------------------------
(* docs/release.md:65: each released digest "also matches the commit's      *)
(* immutable revision tag".                                                 *)
ReleaseMatchesRevision ==
    \A v \in Released, i \in Images : stable[i][v] = revision[i][git[v]]
=============================================================================
