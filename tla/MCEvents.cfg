SPECIFICATION EFairSpec
CONSTANTS
    Publishers = {p1, p2}
    Subscribers = {s1}
    NoStream = NoStream
    HistorySize = 2
    Buffer = 1
    MaxEvents = 2
    MaxStreams = 2
INVARIANTS NoGap SeenIsRecorded TraceSound
PROPERTIES EventsDelivered
CHECK_DEADLOCK FALSE
