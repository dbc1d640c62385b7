SPECIFICATION Spec
CONSTANTS
    Procs = {p1}
    Keys = {k1}
    r1 = r1
    r2 = r2
    d1 = d1
    d2 = d2
    Reqs = {r1, r2}
    Uuids = {u1}
    DraftIds = {w1}
    Cells = {}
    CellsOf <- MCCellsOf
    None = None
    Faults = {"raise", "crash"}
    MaxFaults = 2
INVARIANTS
    RecoveredLedgerIsClean
