SPECIFICATION CSpec
CONSTANTS
    shrinks = shrinks
    same = same
    Empty = Empty
    Garbage = Garbage
    Idle = Idle
    Agents = {a1, a2}
    NoAgent = NoAgent
    Callers = {k1, k2}
    Contents <- MCContents
    Bytes <- MCBytes
    GzipBytes <- MCGzipBytes
    EvictLimits = {0, 2}
    ColdLimits = {0, 2}
    MaxRef = 3
    MaxAccess = 3
    MaxTime = 1
SYMMETRY MCSymmetry
INVARIANTS
    TypeOK TablesResident OwnersMatchTables ContentIntact
    RefCountExact WriteDeltaFindsItsPage
PROPERTIES PinnedPageStays MountOrderStable
