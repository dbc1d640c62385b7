SPECIFICATION BFairSpec
CONSTANTS
    Procs = {p1, p2}
    Keys = {k1}
    e1 = e1
    r1 = r1
    d1 = d1
    s1 = s1
    Requests = {a1, a2, e1}
    Target <- MCTarget
    Allocated = {r1}
    Drawn = {r2}
    Imported = {r3}
    Docs = {x1, x2}
    SourceOf <- MCSourceOf
    Succeeded = {x1}
    Evidence = {v1}
    Cells = {d1}
    CellsOf <- MCCellsOf
    None = None
    MaxFaults = 2
INVARIANTS
    TypeOK
    LaunchedAtMostOnce
    LeasedRowIsCurrent
    CompletedMeansSuccess
    AnswersStand
    BackupIsWhole
PROPERTIES
    RegisteredBlind
    EveryInvocationEnds
