CONSTANTS
    Types <- OneType
    Classes <- OneClass
    Capacity <- KeepTwo
    Variations <- OneVariation
    DefaultVariation = "plain"
    Requests <- Commanding
    Broadcasts <- Confirmed
    SeqMod = 2
    FragmentRoom = 1
    StartMask <- OneClass
    AllowUnsol = TRUE
    ReadDuringNull = FALSE
    InfiniteRetries = FALSE
    MaxRetries = 0
    MaxEvents = 0
SPECIFICATION Spec
INVARIANTS
    OnceUnlessForgotten
