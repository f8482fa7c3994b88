CONSTANTS
    p1 = p1
    p2 = p2
    Points <- OnePoint
    Binary <- NoPoints
    Writable <- OnePoint
    Values <- Bits
    StartValues <- Bits
    MaxFailures = 2
    MaxPending = 2
    MaxVersions = 3
SPECIFICATION Spec
INVARIANTS
    OthersSeeSettledStates
    NothingUnpublished
PROPERTIES
    MirrorsRegisters
