CONSTANTS
    Sizes <- OneOrThree
    SeqMod = 2
    RxRoom = 3
    MaxMessages = 2
SPECIFICATION FairSpec
INVARIANTS
    TypeOK
    ReadyWhenTold
    OneFrameAtATime
    BuffersAreKept
    DeliversFragments
    IgnoresOnlyWhileAnswering
    WorkIsStarted
PROPERTIES
    TransmissionEnds
