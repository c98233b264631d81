CONSTANTS
    w1 = w1
    w2 = w2
    w3 = w3
    p1 = p1
    p2 = p2
    n1 = n1
    d1 = d1
    d2 = d2
    fetched = fetched
    dropped = dropped
    NoWorker = NoWorker
    Absent = Absent
    Torn = Torn
    Workers = {w1, w2, w3}
    Procs = {p1, p2}
    Names = {n1}
    Payloads = {d1, d2}
    Terms = {fetched, dropped}
    Strict = {w3}
    ProcOf <- MCProcOf
    NameOf <- MCNameOf
    PayloadOf <- Collision
    TermsOf <- MCTermsOf
    TruncateOnLock = FALSE
    MaxCrashes = 1
    MaxInterrupts = 1
SPECIFICATION FairSpec
INVARIANTS WaiterNeverDenied TornHasCause RefusedWithReason OrphanHasCause
PROPERTIES ImplementsSnapshotShelf EveryCallEnds
