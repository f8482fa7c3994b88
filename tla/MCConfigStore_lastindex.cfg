CONSTANTS
    b1 = b1
    Names <- SomeNames
    Forms <- LastIndex
    StartDisks <- CleanDisk
    LegacyNames <- Legacy
    Browsers <- NoBrowser
    IndexMod = 4
    Radix = 2
    MaxLines = 2
SPECIFICATION FairSpec
PROPERTIES
    BootCompletes
