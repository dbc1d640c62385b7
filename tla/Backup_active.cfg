SPECIFICATION LSpec
CONSTANTS
    r1 = r1
    u1 = u1
    d1 = d1
    Procs = {p1}
    Keys = {k1}
    Reqs = {r1}
    Uuids = {u1}
    DraftIds = {}
    Cells = {d1}
    CellsOf <- MCCellsOf
    None = None
    Faults = {}
    MaxFaults = 0
    Invocations = {i1}
    RunKeys = {j1}
    RunRequests = {a1}
    Target <- MCTarget
    Drawn = {}
    Imported = {}
    Docs = {}
    SourceOf <- MCSourceOf
    Succeeded = {}
    Evidence = {}
    OwnWindow <- MCOwnWindow
    MaxAbandoned = 0
INVARIANTS
    BackupHasNoActiveRun
