\* Three scenarios: clients that hold no lease make containers and move tags at
\* any time; containers start, children are in the way, the observation expires;
\* nothing happens.
SPECIFICATION Spec
CONSTANTS
    c1 = c1
    c2 = c2
    n1 = n1
    n2 = n2
    i1 = i1
    i2 = i2
    ra = ra
    rb = rb
    Nothing = Nothing
    ContainerIds = {c1, c2}
    NetworkIds = {n1, n2}
    ImageIds = {i1, i2}
    Refs = {ra, rb}
    ImageOf <- MCImageOf
    NetworksOf <- MCNetworksOf
    RetirableContainers = {c1}
    RetirableNetworks = {n1, n2}
    PinnedImages = {i2}
    NamedRefs = {rb}
    ProtectedRefs = {rb}
    ScopeIds = {i1}
    ScopeRefs = {ra}
    OldDangling = {i1, i2}
    OldTagged = {i1, i2}
    Weekly = TRUE
    Trigger = "pressure"
    Scenarios <- MCScenarios
CHECK_DEADLOCK FALSE
INVARIANTS
    IInv
    PlanBounds
    PlanCompletes
PROPERTIES
    NetworksKept
    ProtectedImagesKept
    TagsKept
