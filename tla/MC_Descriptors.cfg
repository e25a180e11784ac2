CONSTANTS
    Pids = {p1, p2}
    NR_OPEN = 3
    Files = {f1, f2, f3}
    Pipes = {pipe}
    VNodes = {inode}
    OpenModes = {"rw"}
    Device = device
    None = none
SYMMETRY Symmetry
CONSTRAINT MarksBound
SPECIFICATION Spec
INVARIANTS
    TypeOK
    RefsExact
    PipeEndsExact
    OpenRefsExact
PROPERTY
    EndOfFileIsFinal
