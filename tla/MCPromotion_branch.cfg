\* Two runs on main for one commit, the second dispatched by hand; the registry
\* answers every inspect.
SPECIFICATION BuildSpec
CONSTANTS
    NumImages = 3
    Builds = {1, 2}
    Groups = {"main", "topic"}
    Commits = {1}
    Digests = {"d1", "d2"}
    Aliases = {"run-2"}
    None = None
    Unreliable = FALSE
    GroupOf <- OneBranch
    CommitOf <- OneCommit
    AliasOf <- LastHasAlias
CHECK_DEADLOCK FALSE
INVARIANTS
    SuiteIsOneBuild
PROPERTIES
    RevisionImmutable
