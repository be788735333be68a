SPECIFICATION QueueSpec
CONSTANTS
    Tickers = {aapl, msft}
    Workers = {w1, w2}
    ConcurrencyLimits = {1, 2}
    MaxRequests = 3
INVARIANTS
    GpuSerialized
    JoinedMeansFinished
    StoppedIsQuiet
    ArraysFromOneBuild
PROPERTY
    CallsReturn
CHECK_DEADLOCK FALSE
