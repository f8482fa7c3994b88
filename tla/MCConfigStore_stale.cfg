CONSTANTS
    b1 = b1
    Names <- SomeNames
    Forms <- FewForms
    StartDisks <- CleanDisk
    LegacyNames <- Legacy
    Browsers <- OneBrowser
    IndexMod = 4
    Radix = 2
    MaxLines = 3
SPECIFICATION Spec
PROPERTIES
    LinkRemovesItsRow
