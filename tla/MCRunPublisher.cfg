CONSTANTS
    w1 = w1
    w2 = w2
    w3 = w3
    p1 = p1
    p2 = p2
    n1 = n1
    n2 = n2
    NoWorker = NoWorker
    Outsider = Outsider
    NoRun = NoRun
    Workers = {w1, w2, w3}
    Procs = {p1, p2}
    Names = {n1}
    ProcOf <- MCProcOf
    NameOf <- OneName
    Shadows <- NoShadow
    TruncateOnLock = TRUE
    MaxCrashes = 1
SPECIFICATION FairSpec
INVARIANTS MutualExclusion NoLeftovers OnlyTheDeadLitter
PROPERTIES ImplementsRunDirectory EveryCallEnds SomeCallGetsThrough
