SPECIFICATION GSpec
CONSTANTS
    shrinks = shrinks
    same = same
    Empty = Empty
    Garbage = Garbage
    Agents = {a1, a2}
    NoAgent = NoAgent
    Callers = {k1, k2}
    Topics = {t1}
    Contents <- MCContents
    Bytes <- MCBytes
    GzipBytes <- MCGzipBytes
    EvictLimits = {1}
    Controls <- MCControls
    ColdLimits = {1}
    MaxRef = 20
    MaxAccess = 20
    MaxTime = 0
    MaxDepth = 20
    MaxCalls = 4
SYMMETRY MCSymmetry
INVARIANTS PublishedStaysResident PolledGetsMounted NoStalePageId
PROPERTIES NothingEvicted
