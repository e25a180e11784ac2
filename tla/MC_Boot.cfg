CONSTANTS
    MaxPid = 4
    Sigs = {2, 9, 14, 17, 20}
    Dispositions <- JustIgnore
    Calls = {"fork", "waitpid", "kill", "pause", "alarm", "sigaction"}
    WaitArgs <- Minus1
    KillArgs = {2}
    BuiltinInit = FALSE
    IdleMax = 2
    SpawnOutcomes = {TRUE}
    ConsoleAlive = {FALSE}
SPECIFICATION SchedSpec
CONSTRAINT BootBound
INVARIANT
    HaltJustified
PROPERTIES
    RunnableRuns
    KillIsFatal
    AlarmEndsPause
    WaiterWakes
