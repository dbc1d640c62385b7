SPECIFICATION Spec
CONSTANTS
    Procs = {p1, p2}
    Keys = {k1, k2}
    r1 = r1
    r2 = r2
    d1 = d1
    d2 = d2
    Reqs = {r1, r2}
    Uuids = {u1, u2}
    DraftIds = {}
    Cells = {d1, d2}
    CellsOf <- MCCellsOf
    None = None
    Faults = {"raise", "crash"}
    MaxFaults = 2
SYMMETRY Perms
INVARIANTS
    TypeOK
    ExactlyOnce
PROPERTIES
    BoundWhileFresh
    RefinesAtomicLedger
