CONSTANTS
    MaxPid = 2
    Sigs = {10, 17}
    Dispositions <- MagicAndLibc
    Calls = {"sigaction", "signal", "kill"}
    WaitArgs <- Minus1
    KillArgs = {1}
    BuiltinInit = FALSE
SPECIFICATION Spec
INVARIANT
    ReturnsWhereInterrupted
CHECK_DEADLOCK FALSE
