SPECIFICATION Spec
CONSTANTS
    Jobs = {p, q}
    MaxScripts = 3
    MaxRuns = 2
    MaxEpochs = 2
    Patience = 1
    MinDelta = 1
    Losses <- MCLosses
    RowCounts = {4, 5}
    SequenceLength = 2
    NaN = NaN
    Torn = Torn
    None = None
SYMMETRY MCSymmetry
INVARIANTS
    CheckpointsHoldBest
    TrainedEncoderIsOwn
    EncodedOnceTrained
CHECK_DEADLOCK FALSE
