CONSTANTS
    MaxPid = 3
    Sigs = {17}
    Dispositions <- NoDispositions
    Calls = {"fork", "waitpid", "setsid", "setpgid", "kill", "ssetmask"}
    WaitArgs <- WaitGroups
    KillArgs <- KillGroups
    BuiltinInit = FALSE
SPECIFICATION Spec
INVARIANTS
    TypeOK
    ParentsCanReap
PROPERTIES
    DeadStayDead
    ReapedByParent
CHECK_DEADLOCK FALSE
