SPECIFICATION Spec
CONSTANTS
    N = 3
    Quotes <- MCQuotes
    MaxTime = 2
    Latencies = {0, 2}
    InitialCash = 4
    Signals <- MCSignals
    MaxSignals = 1
    MaxRuns = 2
INVARIANTS
    HistoryIsPrefix
    NothingLate
    NoEarlyFill
    FilledOnce
PROPERTIES
    ReplayTerminates
    ImplementsCashAccount
CHECK_DEADLOCK FALSE
