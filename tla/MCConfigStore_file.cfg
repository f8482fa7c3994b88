CONSTANTS
    b1 = b1
    Names <- SomeNames
    Forms <- SomeForms
    StartDisks <- SomeDisks
    LegacyNames <- Legacy
    Browsers <- OneBrowser
    IndexMod = 3
    Radix = 2
    MaxLines = 3
SPECIFICATION FairSpec
INVARIANTS
    TypeOK
    SlotsStayDistinct
    ProfileHasSlots
PROPERTIES
    FileIsAList
    FreshLinkRemovesItsRow
    BootCompletesBelowLast
