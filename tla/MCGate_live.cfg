\* Every call returns and no drain is starved, whatever crashes and while an
\* operator reconciles; and without `status` processes the record of an ended
\* process keeps jobs out. One maintenance run: a second is refused at once while
\* the record of the first stands. No symmetry: liveness is checked.
SPECIFICATION CallSpec
CONSTANTS
    Jobs = {j1, j2}
    Maints = {m1}
    Reconcilers = {r1}
    Observers = {}
    None = None
PROPERTIES
    CallsReturn
    DrainCompletes
    UnresolvedBlocks
