\* Fillings at each side of every boundary: half full with just the reserve, below the
\* reserve, at the critical percentage, more than the total, and no blocks at all.
SPECIFICATION RunSpec
CONSTANTS
    Devices = {d1, d2}
    p1 = p1
    p2 = p2
    p3 = p3
    Paths = {p1, p2, p3}
    Absent = Absent
    Configurations <- MCConfigurations
    Fillings <- MCFillings
    Reserve = 1
    CriticalPercent = 75
INVARIANTS
    LaunchHadRoom
PROPERTIES
    ImplementsLeaseBody
