\* One `status` process: its probes hold registration locks for a moment.
SPECIFICATION Spec
CONSTANTS
    Jobs = {j1, j2}
    Maints = {}
    Reconcilers = {}
    Observers = {o1}
    None = None
PROPERTIES
    UnresolvedBlocks
