SPECIFICATION SuiteSpec
CONSTANTS
    FileClusters = 2
    ClusterSize = 2
    MaxSize = 1
    Slots = {s1}
    WriteFrom = {0}
    WriteTo = {1}
    MaxFiles = 0
    LongNames <- AliasNames
    ListingSlots = 4
    MaxClusters = 2
    AskedNames <- ManyNames
    BaseLength = 3
    ExtLength = 1
    UnitsPerEntry = 2
    MaxUnits = 5
    Radix = 2
    MaxTail = 2
    MaxListed = 3
    MaxCreated = 3
    MaxFaults = 1
    LastCluster = 5
    PerCluster = 3
    Names = {"a", "b"}
    Shell = shell
    Programs = {program}
    CdPaths <- SomeCdPaths
    Paths <- SomePaths
    LookupPaths <- ManyPaths
    PromptRoom = 2
    MaxCalls = 0
INVARIANT
    LongNameIsOwn
CHECK_DEADLOCK FALSE
