SPECIFICATION SuiteSpec
CONSTANTS
    FileClusters = 4
    ClusterSize = 2
    MaxSize = 3
    Slots = {s1, s2}
    WriteFrom = {2}
    WriteTo = {3}
    MaxFiles = 2
    LongNames <- SomeNames
    ListingSlots = 4
    MaxClusters = 2
    AskedNames <- ManyNames
    BaseLength = 3
    ExtLength = 1
    UnitsPerEntry = 2
    MaxUnits = 5
    Radix = 2
    MaxTail = 2
    MaxListed = 3
    MaxCreated = 3
    MaxFaults = 1
    LastCluster = 5
    PerCluster = 3
    Names = {"a", "b"}
    Shell = shell
    Programs = {program}
    CdPaths <- SomeCdPaths
    Paths <- SomePaths
    LookupPaths <- ManyPaths
    PromptRoom = 2
    MaxCalls = 3
SYMMETRY Symmetry
INVARIANTS
    
    
    ShowsOwnData
    EntriesSound
    TreeKept
    ShortPathsLead
    PromptLeads
PROPERTIES
    OthersStay
    CreatedIsFound
CHECK_DEADLOCK FALSE
