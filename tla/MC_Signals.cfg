CONSTANTS
    MaxPid = 2
    Sigs = {14, 17}
    Dispositions <- MagicAndLibc
    Calls = {"sigaction", "signal", "kill", "pause", "alarm", "execve", "read"}
    WaitArgs <- Minus1
    KillArgs = {2}
    BuiltinInit = TRUE
SPECIFICATION Spec
CONSTRAINTS
    FramesBound
    OneLibrary
INVARIANTS
    RunqExact
    SleepersRewound
    CallsAreRedone
    ReturnsWhereInterrupted
CHECK_DEADLOCK FALSE
