SPECIFICATION LFairSpec
CONSTANTS
    Offered = {"a1", "a2", "a3"}
    Threshold = 2
    Weight <- Weights
    Loads <- MCLoads
    Tasks = {"t1", "t2"}
    Readings = {0, 300}
    Unreadable = Unreadable
    Throttle <- Thresholds
INVARIANTS FairShare Undominated StartedAsDecided
PROPERTY DemoEnds
CHECK_DEADLOCK FALSE
