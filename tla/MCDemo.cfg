SPECIFICATION DSpec
CONSTANTS
    Demos = {d1, d2}
    MaxOther = 2
    Agents = {a1, a2}
    States = {"CREATED", "COMPLETED", "KILLED"}
    Handlers = {h1, h2}
    Torn = Torn
    NoRun = NoRun
    MaxTasks = 3
    MaxCrashes = 2
SYMMETRY MCSymmetry
INVARIANTS ResultHonest 
PROPERTIES RestoredUnlessTorn
CHECK_DEADLOCK FALSE
