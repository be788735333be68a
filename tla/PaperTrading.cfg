SPECIFICATION Spec
CONSTANTS
    ClientIds = {c1}
    MaxOrders = 2
    None = None
    NLegs = 4
    Dicts <- MCDicts
    PolicyWeights <- MCPolicyWeights
    Multipliers <- MCMultipliers
    Equity = 6
    Bars <- MCBars
    HalfSpread = 1
    MaxRuns = 1
INVARIANTS
    BreakerFollowsFeed
    AcceptedIsListed
    WithinCap
    DryRunFunded
PROPERTY
    RunEnds
CHECK_DEADLOCK FALSE
