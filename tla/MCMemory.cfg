SPECIFICATION Spec
CONSTANTS
    RegionEntries = 5
    BootSlots = 1
    MaxSlots = 12
    MaxFree = 3
    TableEntries = 64
    MaxPid = 5
    MaxAlive = 3
    StackRanges = 3
    Sizes = {1, 2}
    RangeEnd = 8
    MemEnd = 6
    StackSizes = {1, 2}
    MaxStacks = 3
    HeapSize = 40
    Header = 4
    Align = 2
    Layouts = {1, 2, 6}
    PageSize = 2
    LastPage = 2
    MaxWord = 7
    DirEntrySize = 2
    FileSize = 3
    DirEntries = 1
INVARIANTS
    SlotsSound
    TablesSound
    KernelSurvives
    StacksSound
    HeapSound
    
PROPERTIES
    MislinkOnlyWhenExtending
    LoadedTableIsNotReused
    StacksKeepApart
    MemoryKeptApart
