\* Two jobs, two maintenance runs, a reconciler and a `status` process, with
\* crashes anywhere.
SPECIFICATION Spec
CONSTANTS
    Jobs = {j1, j2}
    Maints = {m1, m2}
    Reconcilers = {r1}
    Observers = {o1}
    None = None
SYMMETRY Interchangeable
INVARIANTS
    WorkExclusion
    DeadlockNeedsReconcile
    RefusedOnlyForUnresolved
    IInv
PROPERTIES
    UnresolvedStays
    ImplementsAdmission
