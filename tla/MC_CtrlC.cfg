CONSTANTS
    Readers = {"r1", "r2"}
    Setups <- JustKeys
    MaxTyped = 1
    Debugged <- Nobody
    Addresses = {0, 1}
    CallAt = 0
    Breakable = {1}
    MaxSteps = 2
SPECIFICATION DebugSpec
PROPERTY
    InterruptEndsSleep
CHECK_DEADLOCK FALSE
