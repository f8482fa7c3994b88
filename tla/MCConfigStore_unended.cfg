CONSTANTS
    b1 = b1
    Names <- SomeNames
    Forms <- FewForms
    StartDisks <- UnendedDisk
    LegacyNames <- Legacy
    Browsers <- NoBrowser
    IndexMod = 4
    Radix = 2
    MaxLines = 3
SPECIFICATION Spec
PROPERTIES
    SavedPointIsListed
