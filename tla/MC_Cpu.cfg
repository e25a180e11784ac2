CONSTANTS
    TASK_SIZE = 40
    PAGE_SIZE = 2
    DEFAULT_STACK = 16
    STACK_GROW_STEP = 4
    BRK_STACK_GAP = 2
    ARG_AREA = 9
    FLUSH_BACK = 2
    MAX_SCRIPTS = 1
    WORD = 2
    BASE = 7
    PREFIXES <- OnePrefix
    OpLength <- Lengths
    Files <- TwoFiles
    None = none
    Bits = 3
    NIBBLE = 4
    PARITY_BITS = 2
    COUNT_MASK = 7
    Procs = {p1, p2}
    Calls <- TwoCalls
    Targets = {1, 4, 15}
    Datas <- SomeData
    Counts = {3}
    MaxStores = 1
SPECIFICATION MCSpec
SYMMETRY ProcSymmetry
INVARIANTS
    CacheIsCoherent
    MemoryIsFlat
    ArgumentsArrive
    ArithmeticIsRight
CHECK_DEADLOCK FALSE
