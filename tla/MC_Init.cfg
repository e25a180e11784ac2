CONSTANTS
    MaxPid = 4
    Sigs = {9, 17}
    Dispositions <- NoDispositions
    Calls = {"fork", "read", "kill", "execve", "waitpid"}
    WaitArgs <- Minus1
    KillArgs = {1, 3}
    BuiltinInit = TRUE
    IdleMax = 2
    SpawnOutcomes = {TRUE, FALSE}
    ConsoleAlive = {TRUE, FALSE}
SPECIFICATION SchedSpec
PROPERTIES
    ImplementsProcesses
    InitReapsShell
