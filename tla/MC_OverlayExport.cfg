CONSTANTS
    NDirect = 1
    BlockSize = 2
    Names = {"a", "b"}
    NInodes = 3
    NewInodes = 1
    None = none
    Zero <- ZeroUnit
    Datum <- Written
    Units <- FileUnits
    Depth = 1
    Images <- JustClean
    Formatted <- Clean
SPECIFICATION FSSpec
CONSTRAINT Small
INVARIANT
    SkippedAreUntouched
CHECK_DEADLOCK FALSE
