SPECIFICATION Spec
CONSTANTS
    Procs = {p1}
    Keys = {k1}
    r1 = r1
    r2 = r2
    d1 = d1
    d2 = d2
    Reqs = {r1}
    Uuids = {u1, u2}
    DraftIds = {}
    Cells = {}
    CellsOf <- MCCellsOf
    None = None
    Faults = {"machine"}
    MaxFaults = 2
INVARIANTS
    RecoveredRecordsAreCommitted
