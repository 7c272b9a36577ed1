\* The second run is dispatched on another branch at the same commit.
SPECIFICATION BuildSpec
CONSTANTS
    NumImages = 3
    Builds = {1, 2}
    Groups = {"main", "topic"}
    Commits = {1}
    Digests = {"d1", "d2"}
    Aliases = {"run-2"}
    None = None
    Unreliable = FALSE
    GroupOf <- TwoBranches
    CommitOf <- OneCommit
    AliasOf <- LastHasAlias
CHECK_DEADLOCK FALSE
PROPERTIES
    RevisionImmutable
