\* Two scenarios: clients that hold no lease make containers and move tags at
\* any time; nothing happens.
SPECIFICATION Spec
CONSTANTS
    c1 = c1
    c2 = c2
    i1 = i1
    i2 = i2
    wa = wa
    wb = wb
    other = other
    Nothing = Nothing
    ContainerIds = {c1}
    ImageIds = {i1, i2}
    Refs = {wa, wb, other}
    Wanted = {wa, wb}
    ImageOf <- MCImageOf
    PinnedImages = {i2}
    NamedRefs = {other}
    ProtectedRefs = {other}
    Scenarios <- MCScenarios
CHECK_DEADLOCK FALSE
INVARIANTS
    IInv
    DryRunIsExact
PROPERTIES
    SelectedTagsOnly
    ProtectedImagesKept
    UsedImagesKept
