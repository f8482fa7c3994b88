CONSTANTS
    Types <- OneType
    Classes <- OneClass
    Capacity <- KeepTwo
    Variations <- OneVariation
    DefaultVariation = "plain"
    Requests <- Interrupting
    Broadcasts <- Unconfirmed
    SeqMod = 2
    FragmentRoom = 1
    StartMask <- OneClass
    AllowUnsol = TRUE
    ReadDuringNull = FALSE
    InfiniteRetries = TRUE
    MaxRetries = 0
    MaxEvents = 2
SPECIFICATION FairSpec
PROPERTIES
    DeferredReadAnswered
    EventsAreReported
