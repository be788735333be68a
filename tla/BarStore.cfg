SPECIFICATION Spec
CONSTANTS
    Jobs = {p, q}
    FirstDay = 4
    LastDay = 5
    Lookback = 3
    ChunkDays = 2
    MaxAdjust = 1
    Enough = 3
    None = None
INVARIANTS
    CompleteDownloadHeals
    BankHasOneRowPerDay
SYMMETRY JobSymmetry
CHECK_DEADLOCK FALSE
