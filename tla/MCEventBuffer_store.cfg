CONSTANTS
    Types <- TwoTypes
    Classes <- TwoClasses
    Capacity <- TwoAndOne
    Variations <- BothVariations
    DefaultVariation = "plain"
    Counts <- OneOrMore
    MaxRoom = 2
    MaxEvents = 4
SPECIFICATION Spec
INVARIANTS
    TypeOK
    ListsAgree
    CountersExact
    OldestFirst
PROPERTIES
    LeavesKnowingly
    ReportsEvents
