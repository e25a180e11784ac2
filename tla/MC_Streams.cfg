CONSTANTS
    Pids = {p1, p2}
    NR_OPEN = 3
    Files = {f1, f2}
    Pipes = {pipe}
    VNodes = {}
    OpenModes = {}
    Device = device
    None = none
    Capacity = 2
    MaxCount = 2
SPECIFICATION StreamSpec
CONSTRAINT FewDescriptors
INVARIANTS
    BytesInOrder
PROPERTIES
    KeepsContract
    EndIsSeen
    NobodySleepsOver
