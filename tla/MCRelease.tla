------------------------------ MODULE MCRelease ------------------------------
(* Instances of Release for TLC: run b is for commit b, and the last one is *)
(* for the newest commit, from main or from a topic branch.                 *)
EXTENDS ReleaseRefinement, TLC

MCCommitOf == [b \in Builds |-> IF b \in Commits THEN b ELSE 1]
NoAliases == [b \in Builds |-> None]
OneBranch == [b \in Builds |-> MainGroup]
TwoBranches == [b \in Builds |-> IF b \in Commits THEN MainGroup ELSE "topic"]

(* Runs of a workflow are interchangeable, and so are digests. *)
Interchangeable == Permutations(Releases) \cup Permutations(Digests)
=============================================================================
