SPECIFICATION SuiteSpec
CONSTANTS
    MaxPid = 4
    FreePids = 3
    MaxTick = 2
    Chars = {a}
    Pcs = {p0}
INVARIANTS
    TypeOK
    PidsDistinct
    CurrentIsRunning
    IdleOnlyWhenAllWait
    SessionSound
PROPERTIES
    KeepsPromise
    ContextLostOnlyInReturn
