SPECIFICATION CSpec
CONSTANTS
    Agents = {a1, a2}
    States = {"CREATED", "COMPLETED", "KILLED"}
    Handlers = {h1, h2}
    Torn = Torn
    NoRun = NoRun
    MaxTasks = 2
    MaxCrashes = 2
SYMMETRY MCSymmetry
PROPERTIES SavedIsRestored
CHECK_DEADLOCK FALSE
