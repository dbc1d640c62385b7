SPECIFICATION Spec
CONSTANTS
    NPreds = 4
    NKeys = 2
    a = a
    b = b
    StrategyOf <- MCStrategyOf
    Filters <- MCFilters
    Limit = 1
    Batch = 2
    None = None
    MaxChanges = 2
INVARIANTS
    TypeOK
    WalkIsExact
PROPERTIES
    VerifiedIsCurrent
