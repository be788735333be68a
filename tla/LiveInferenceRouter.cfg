SPECIFICATION Spec
CONSTANTS
    Threads = {th1, th2}
    Tickers = {aapl, msft}
    Holdings <- MCHoldings
    MaxVersion = 2
    MaxCalls = 4
    None = None
INVARIANTS
    NeverHalfApplied
    LoadedTickerNamesHead
PROPERTY
    CallsReturn
CHECK_DEADLOCK FALSE
