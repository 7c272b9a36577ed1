\* Seconds of three ticks and a maximum age of one second: a record last used at -5
\* is due, at -4 only if `unused` is not rounded past it. Two scenarios of others who
\* use and build, collect and share at any time; one where only time passes.
SPECIFICATION Spec
CONSTANTS
    base = base
    step = step
    source = source
    RecordIds = {base, step, source}
    Unborn = Unborn
    Unknown = Unknown
    SupportedRecords = {base, step, source}
    InternalRecords = {source}
    Shareable = {source}
    Dependents <- MCDependents
    TotalSize <- MCTotalSize
    TicksPerSecond = 3
    MaxUnusedAge = 1
    MaxUsedSpace = 2
    OldTimes <- MCOldTimes
    MaxTime = 3
    Scenarios <- MCScenarios
CHECK_DEADLOCK FALSE
INVARIANTS
    IInv
    QuietCompletes
PROPERTIES
    RecentKept
    BudgetStops
