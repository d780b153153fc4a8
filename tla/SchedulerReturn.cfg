SPECIFICATION Spec
CONSTANTS
    MaxPid = 3
    MaxTick = 2
    Chars = {a}
    Pcs = {p0, p1}
INVARIANT ContextsIntact
