\* All runs are on main and the registry answers: a build each of two commits,
\* and two release runs with either bump, which may get stuck half way and start
\* again.
SPECIFICATION Spec
CONSTANTS
    NumImages = 2
    Builds = {1, 2}
    Groups = {"main"}
    MainGroup = "main"
    Commits = {1, 2}
    Digests = {d1, d2}
    Aliases = {}
    None = None
    Unreliable = FALSE
    GroupOf <- OneBranch
    CommitOf <- MCCommitOf
    AliasOf <- NoAliases
    Releases = {r1, r2}
    Bumps = {"patch", "minor"}
    MaxPart = 1
SYMMETRY Interchangeable
CHECK_DEADLOCK FALSE
INVARIANTS
    IInv
    ReleaseMatchesRevision
PROPERTIES
    LatestFollows
    VersionsIncrease
