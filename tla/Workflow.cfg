SPECIFICATION FairSpec
CONSTANTS
    Workflows = {w1}
    Tabs = {t1, t2}
    Inputs = {i1, i2}
    None = None
    MaxCalls = 3
    MaxDrafts = 2
    MaxFaults = 2
CHECK_DEADLOCK FALSE
INVARIANTS
    TypeOK
    ReplaysExactly
    OneCallAtATime
    ReceiptIsTrue
    CapturedIsReconciled
    CancelledIsNeverCaptured
PROPERTIES
    SubmissionSettles
