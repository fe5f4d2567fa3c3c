SPECIFICATION LSpec
CONSTANTS
    Agents = {a1}
    FaultIds = {f1}
    Nobody = Nobody
    Never = Never
    Timeout = 1
PROPERTY CompletedStays
