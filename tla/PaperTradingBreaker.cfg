SPECIFICATION Spec
CONSTANTS
    ClientIds = {}
    MaxOrders = 0
    None = None
    NLegs = 4
    Dicts <- MCDefaultDict
    PolicyWeights <- MCPolicyWeights
    Multipliers <- MCMultipliers
    Equity = 6
    Bars <- MCBars
    HalfSpread = 1
    MaxRuns = 1
INVARIANT BreakerHolds
CHECK_DEADLOCK FALSE
