SPECIFICATION FairSpec
CONSTANTS
    Procs = {p1}
    Keys = {}
    r1 = r1
    r2 = r2
    d1 = d1
    d2 = d2
    Reqs = {}
    Uuids = {}
    DraftIds = {w1}
    Cells = {}
    CellsOf <- MCCellsOf
    None = None
    Faults = {"raise", "crash", "machine", "editor"}
    MaxFaults = 4
INVARIANTS
    CommittedHasArtifacts
    DebrisHasManifest
PROPERTIES
    NeverOverwritesForeign
    ManifestsAreFollowed
