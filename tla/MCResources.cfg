SPECIFICATION RSpec
CONSTANTS
    Base <- MCBase
    Nested <- MCNested
    Written <- MCWritten
    Link <- MCLink
    NoDir = NoDir
    NoMode = NoMode
    Callers = {c1, c2}
    Settings <- MCSettings
    MaxMounts = 3
    Clients = {m1, m2}
    Attempts = 2
    MaxCalls = 3
    MaxFaults = 1
    Worker = worker
    Children = {k1, k2}
SYMMETRY MCSymmetry
INVARIANTS
    DestroyableAtRest CreatesConverge
    RealMeansConfined NothingSurvives
PROPERTIES RollbackRestores CommitFaithful
CHECK_DEADLOCK FALSE
