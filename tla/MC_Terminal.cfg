CONSTANTS
    Readers = {"r1", "r2"}
    Setups <- SetupsMC
    MaxTyped = 3
    Debugged <- JustDebugging
    Addresses = {0, 1}
    CallAt = 0
    Breakable = {1}
    MaxSteps = 2
SPECIFICATION DebugSpec
CONSTRAINTS
    BetweenLines
    LogBound
    DebugKeys
INVARIANTS
    ReadsWhatWasTyped
    EofIsLast
    StopsWhereAsked
PROPERTIES
    ExhaustedInputReturns
    EscapeHeeded
CHECK_DEADLOCK FALSE
