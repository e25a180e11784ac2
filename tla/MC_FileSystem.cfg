CONSTANTS
    NDirect = 1
    BlockSize = 2
    Names = {"a", "b"}
    NInodes = 3
    NewInodes = 1
    None = none
    Zero <- ZeroUnit
    Datum <- Written
    Units <- FileUnits
    Depth = 1
    Images <- TwoFaults
    Formatted <- Clean
SPECIFICATION MCSpec
CONSTRAINT Small
INVARIANTS
    LinksExact
    DotDotRight
    ReloadKeepsTree
    ReadsAgree
PROPERTIES
    CleanIffSound
    CheckEnds
    ImplementsFileTree
CHECK_DEADLOCK FALSE
