SPECIFICATION Spec
CONSTANTS
    W <- MCW
    Slots = 2
    MaxDay = 5
    Missing <- MCMissing
    MaxHoles = 1
    AllSettings <- MCAllSettings
    SeqLen = 2
    FracWidth = 2
    Period <- MCPeriod
    Losses <- MCLosses
    BankMin = 2
    MinRows = 1
    None = None
INVARIANTS LegsCausal ObservationsCausal RowsAreOneDay WeightsCausal
PROPERTY HistoryStands
CHECK_DEADLOCK FALSE
