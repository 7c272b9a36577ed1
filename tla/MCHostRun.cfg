\* The job and the cleanup with their real bodies, and an operator; ids are reused.
SPECIFICATION FairHostSpec
CONSTANTS
    Job = j1
    Maint = m1
    Jobs = {j1}
    Maints = {m1}
    Reconcilers = {r1}
    Observers = {}
    None = None
INVARIANTS
    CleanupIsAlone
    TracedOnDisk
    CodeIsTruthful
    HInv
PROPERTIES
    ImplementsGate
    RunEnds
