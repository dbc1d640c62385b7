SPECIFICATION Spec
CONSTANTS
    Callers = {q1, q2}
    Items <- MCItems
    LimitOf <- MCLimitOf
    Window = 2
    MaxKeys = 2
    MaxClock = 3
    Browsers = {b1}
    Users = {u1, u2}
    Sids = {s1, s2}
    Idle = 2
    Absolute = 3
    None = None
    MaxSkew = 1
    MaxRequests = 3
SYMMETRY MCSymmetry
INVARIANTS
    TypeOK
    ActsAsItself
    GatesHold
    SlotHasOneHolder
PROPERTIES
    SessionsRunOut
