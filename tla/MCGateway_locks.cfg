CONSTANTS
    p1 = p1
    p2 = p2
    Points <- TwoPoints
    Binary <- TwoPoints
    Writable <- TwoPoints
    Values <- Bits
    StartValues <- OnlyZero
    MaxFailures = 1
    MaxPending = 1
    MaxVersions = 1
SYMMETRY Swap
SPECIFICATION Spec
INVARIANTS
    TypeOK
    MutexesHeldInScope
    LockOrder
    NoWaitCycle
