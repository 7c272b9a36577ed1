\* Commit 1 is published from main and from a topic branch, inspects may get
\* no answer, and a release run of it starts again and again.
SPECIFICATION Spec
CONSTANTS
    NumImages = 2
    Builds = {1, 2}
    Groups = {"main", "topic"}
    MainGroup = "main"
    Commits = {1}
    Digests = {"d1", "d2"}
    Aliases = {}
    None = None
    Unreliable = TRUE
    GroupOf <- TwoBranches
    CommitOf <- MCCommitOf
    AliasOf <- NoAliases
    Releases = {r1}
    Bumps = {"patch", "minor"}
    MaxPart = 1
CHECK_DEADLOCK FALSE
PROPERTIES
    ImplementsCatalogue
    StableImmutable
