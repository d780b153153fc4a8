SPECIFICATION Spec
CONSTANTS
    Pids = {p1, p2}
    Files = {f1}
    MaxSize = 3
    MaxOpen = 5
    MaxOpened = 2
    MaxCall = 2
    PageSize = 2
    Pages = 3
    MaxHeaders = 3
    MaxLoads = 2
    MemorySizes = {1, 3}
    StackSize = 64
    ArgLengths = {0, 7, 20}
    FILE_CAPACITY = 4
    VIEW_ROWS = 2
SYMMETRY Symmetry
INVARIANTS
    DescriptorsSound
    ImageSound
    
CHECK_DEADLOCK FALSE
