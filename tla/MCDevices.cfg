SPECIFICATION Spec
CONSTANTS
    LastBus = 1
    LastDevice = 1
    LastFunction = 1
    Classes = {"sata", "other"}
    Width = 6
    Sizes = {4, 5, 6, 8}
    PortCount = 6
    PAGE_SIZE = 2
    HBA_PRDT_MAX_BYTE_COUNT = 4
    HBA_PRDT_ENTRY_COUNT = 3
    Pages = {0, 1, 2, 3}
    Frames = {0, 1, 2, 3, 4}
    SlotCounts = {1, 2}
    Byte = 4
    Lbas = {0, 5, 63}
    MaxCommands = 4
    DeviceFails = TRUE
    Period = 3
    Durations = {0, 1, 3, 4, 7, 10}
    MaxDuration = 9
    MaxNow = 15
    SecondsPerMinute = 2
    MinutesPerHour = 2
    MaxClock = 110
    LastYear = 2099
INVARIANTS
    DevicesSetUp
    TableIsBuffer
    TrueMeansDone
    TableNotInUse
    PortSound
    
    TimeAsShown
PROPERTIES
    DriverReturns
CHECK_DEADLOCK FALSE
