----------------------------- MODULE MCPromotion -----------------------------
(* Instances of Promotion for TLC: runs of one commit.                      *)
EXTENDS Promotion

OneCommit == [b \in Builds |-> CHOOSE c \in Commits : TRUE]
LastHasAlias == [b \in Builds |-> IF b = 2 THEN "run-2" ELSE None]
OneBranch == [b \in Builds |-> "main"]
TwoBranches == [b \in Builds |-> IF b = 2 THEN "topic" ELSE "main"]
=============================================================================
