SPECIFICATION FairRoundSpec
CONSTANTS
    MaxPid = 3
    MaxTick = 1
    Chars = {}
    Pcs = {p0}
INVARIANT OvertakenAtMostTwice
PROPERTIES
    ReadyRuns
    SleeperRuns
