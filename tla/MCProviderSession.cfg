SPECIFICATION Spec
CONSTANTS
    Runs = {dev, prod}
    RawRuns = {prod}
    Closers = {keeper}
    NoOne = NoOne
    Tries = 1
    MaxUses = 1
    Refusals = TRUE
INVARIANT TypeOK
INVARIANT ReportsAreOwn
PROPERTY OperationsEnd
CHECK_DEADLOCK FALSE
