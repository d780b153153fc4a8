SPECIFICATION Spec
CONSTANTS
    PageSize = 2
    Pages = 3
    MaxHeaders = 3
    MaxLoads = 3
    MemorySizes = {1}
    StackSize = 64
    ArgLengths = {3}
INVARIANT
    EveryLoadListed
CHECK_DEADLOCK FALSE
