CONSTANTS
    p1 = p1
    p2 = p2
    Points <- OnePoint
    Binary <- OnePoint
    Writable <- OnePoint
    Values <- Bits
    StartValues <- OnlyZero
    MaxFailures = 1
    MaxPending = 1
    MaxVersions = 2
SPECIFICATION FairSpec
PROPERTIES
    QuitStopsPolling
    CommandsAnswered
    DatabaseConverges
