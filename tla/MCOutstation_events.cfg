CONSTANTS
    Types <- OneType
    Classes <- OneClass
    Capacity <- KeepTwo
    Variations <- OneVariation
    DefaultVariation = "plain"
    Requests <- Everything
    Broadcasts <- Unconfirmed
    SeqMod = 2
    FragmentRoom = 1
    StartMask <- OneClass
    AllowUnsol = TRUE
    ReadDuringNull = TRUE
    InfiniteRetries = TRUE
    MaxRetries = 0
    MaxEvents = 3
SPECIFICATION Spec
INVARIANTS
    TypeOK
    WaitsAreTimed
    OneTransmissionAtATime
PROPERTIES
    UnconfirmedEventsStay
