------------------------------ MODULE Promotion ------------------------------
(***************************************************************************)
(* Publication of an image suite by .github/workflows/images.yml: a run    *)
(* builds and scans candidates of all images, then                         *)
(* .github/scripts/promote-images.sh names their digests sha-<commit> (and *)
(* edge or run-<id>), image by image.                                      *)
(*                                                                         *)
(* Runs of one concurrency group (images.yml:15, one per branch) exclude   *)
(* each other; runs of different branches share only the registry, where   *)
(* each inspect and each create is one step.  A run can fail or be         *)
(* cancelled at any step, and its failed jobs can be run again; to run all *)
(* jobs again is another run here.  Images are numbered in the order of    *)
(* the published records.  Candidate tags carry the run and the attempt,   *)
(* so they name what that attempt built: a digest is looked up, below, by  *)
(* the run.                                                                *)
(***************************************************************************)
EXTENDS Integers, FiniteSets

CONSTANTS
    NumImages,   \* eight in the code
    Builds,      \* runs of the workflow
    Groups,      \* concurrency groups: one per branch
    Commits,     \* source revisions
    Digests,     \* what a build of an image may come out as
    Aliases,     \* names of moving tags
    None,
    GroupOf, CommitOf, AliasOf, \* the identity of a run
    Unreliable   \* the registry may fail to answer an inspect

ASSUME PromotionAssumption ==
    /\ NumImages \in Nat
    /\ None \notin Digests
    /\ None \notin Builds
    /\ GroupOf \in [Builds -> Groups]
    /\ CommitOf \in [Builds -> Commits]
    /\ AliasOf \in [Builds -> Aliases \cup {None}]
    /\ Unreliable \in BOOLEAN

Images == 1 .. NumImages

VARIABLES
    group,     \* the run that a concurrency group lets run, or None
    revision,  \* tag sha-<commit> of each image: a digest or None
    alias,     \* moving tag of each image: a digest or None
    bpc,       \* what a run does next
    suite,     \* digests of the candidates a run has built and scanned
    next       \* the image a promotion has got to

bvars == <<group, revision, alias, bpc, suite, next>>

Built(b) == suite[b] # [i \in Images |-> None]

At(b, label) == bpc' = [bpc EXCEPT ![b] = label]

(* Later attempts of a job start from its beginning. *)
End(b, label) ==
    /\ At(b, label)
    /\ next' = [next EXCEPT ![b] = 1]
    /\ group' = [group EXCEPT ![GroupOf[b]] = None]

-----------------------------------------------------------------------------

BuildStart(b) ==
    /\ bpc[b] = "queued"
    /\ group[GroupOf[b]] = None
    /\ group' = [group EXCEPT ![GroupOf[b]] = b]
    /\ At(b, IF Built(b) THEN "inspecting" ELSE "building")
    /\ UNCHANGED <<revision, alias, suite, next>>

(* GitHub drops a pending run when a later one queues; operators cancel.    *)
BuildDropped(b) ==
    /\ bpc[b] = "queued"
    /\ At(b, "failed")
    /\ UNCHANGED <<group, revision, alias, suite, next>>

(* All image jobs, the collection of their records and the scans succeed.   *)
(* A build need not reproduce an earlier one.                               *)
BuildSuite(b) ==
    /\ bpc[b] = "building"
    /\ \E digests \in [Images -> Digests] : suite' = [suite EXCEPT ![b] = digests]
    /\ At(b, "inspecting")
    /\ UNCHANGED <<group, revision, alias, next>>

(* Slip: the tag that is found is not compared. *)
InspectAnything(b) ==
    /\ bpc[b] = "inspecting" /\ next[b] \in Images
    /\ At(b, "creating")
    /\ UNCHANGED <<group, revision, alias, suite, next>>

(* The revision tag is absent, or names this digest already.  Any failed     *)
(* inspect, not only "not found", counts as absence.                        *)
InspectRevision(b) ==
    /\ bpc[b] = "inspecting" /\ next[b] \in Images
    /\ ~Unreliable => revision[next[b]][CommitOf[b]] \in {None, suite[b][next[b]]}
    /\ At(b, "creating")
    /\ UNCHANGED <<group, revision, alias, suite, next>>

(* Slip: an image that is promoted already is passed over. *)
InspectPassesOver(b) ==
    /\ bpc[b] = "inspecting" /\ next[b] \in Images
    /\ revision[next[b]][CommitOf[b]] \notin {None, suite[b][next[b]]}
    /\ next' = [next EXCEPT ![b] = @ + 1]
    /\ UNCHANGED <<group, revision, alias, bpc, suite>>

InspectDiffers(b) ==
    /\ bpc[b] = "inspecting" /\ next[b] \in Images
    /\ revision[next[b]][CommitOf[b]] \notin {None, suite[b][next[b]]}
    /\ End(b, "failed")
    /\ UNCHANGED <<revision, alias, suite>>

SetRevision(b) ==
    revision' = [revision EXCEPT ![next[b]][CommitOf[b]] = suite[b][next[b]]]
SetAlias(b) ==
    IF AliasOf[b] = None
    THEN UNCHANGED alias
    ELSE alias' = [alias EXCEPT ![next[b]][AliasOf[b]] = suite[b][next[b]]]

(* One `imagetools create` with all tags of the image. *)
CreateTags(b) ==
    /\ bpc[b] = "creating"
    /\ SetRevision(b)
    /\ SetAlias(b)
    /\ At(b, "verifying")
    /\ UNCHANGED <<group, suite, next>>

(* It fails, or its job does, with some of the tags written. *)
CreateFails(b) ==
    /\ bpc[b] = "creating"
    /\ SetRevision(b) \/ UNCHANGED revision
    /\ SetAlias(b) \/ UNCHANGED alias
    /\ End(b, "failed")
    /\ UNCHANGED suite

TagsAreOwn(b) ==
    /\ revision[next[b]][CommitOf[b]] = suite[b][next[b]]
    /\ AliasOf[b] # None => alias[next[b]][AliasOf[b]] = suite[b][next[b]]

VerifyTags(b) ==
    /\ bpc[b] = "verifying"
    /\ TagsAreOwn(b)
    /\ next' = [next EXCEPT ![b] = @ + 1]
    /\ At(b, "inspecting")
    /\ UNCHANGED <<group, revision, alias, suite>>

BuildDone(b) ==
    /\ bpc[b] = "inspecting" /\ next[b] \notin Images
    /\ End(b, "done")
    /\ UNCHANGED <<revision, alias, suite>>

(* A build, a scan, a registry call or a comparison fails, a job times out, *)
(* or the run is cancelled.                                                 *)
BuildFails(b) ==
    /\ bpc[b] \in {"building", "inspecting", "verifying"}
    /\ End(b, "failed")
    /\ UNCHANGED <<revision, alias, suite>>

(* "Re-run failed jobs": what was built stays. *)
BuildAgain(b) ==
    /\ bpc[b] = "failed"
    /\ At(b, "queued")
    /\ UNCHANGED <<group, revision, alias, suite, next>>

BuildInit ==
    /\ group = [g \in Groups |-> None]
    /\ revision = [i \in Images |-> [c \in Commits |-> None]]
    /\ alias = [i \in Images |-> [a \in Aliases |-> None]]
    /\ bpc = [b \in Builds |-> "queued"]
    /\ suite = [b \in Builds |-> [i \in Images |-> None]]
    /\ next = [b \in Builds |-> 1]

BuildRun(b) ==
    \/ BuildStart(b) \/ BuildDropped(b) \/ BuildSuite(b)
    \/ InspectRevision(b) \/ InspectDiffers(b)
    \/ CreateTags(b) \/ CreateFails(b) \/ VerifyTags(b)
    \/ BuildDone(b) \/ BuildFails(b) \/ BuildAgain(b)

BuildNext == \E b \in Builds : BuildRun(b)

BuildSpec == BuildInit /\ [][BuildNext]_bvars

-----------------------------------------------------------------------------
BuildLabels == {"queued", "building", "inspecting", "creating", "verifying",
                "done", "failed"}

(* Every variable keeps its type; a group may be lent to runs of others.    *)
BuildTypeOK ==
    /\ revision \in [Images -> [Commits -> Digests \cup {None}]]
    /\ alias \in [Images -> [Aliases -> Digests \cup {None}]]
    /\ bpc \in [Builds -> BuildLabels]
    /\ suite \in [Builds -> [Images -> Digests \cup {None}]]
    /\ next \in [Builds -> 1 .. NumImages + 1]

(* docs/release.md:49: sha-<full-commit> is an "Immutable source revision". *)
(* A revision tag, once it names a digest, is never moved to another.       *)
RevisionImmutable ==
    [][\A i \in Images, c \in Commits :
           revision[i][c] # None => revision'[i][c] = revision[i][c]]_bvars

(* The revision tags of a commit that has all of them name the suite of one *)
(* run: no run promotes half of its images next to another run's half.      *)
SuiteIsOneBuild ==
    \A c \in Commits :
        (\A i \in Images : revision[i][c] # None) =>
            \E b \in Builds :
                /\ CommitOf[b] = c
                /\ \A i \in Images : revision[i][c] = suite[b][i]
=============================================================================
