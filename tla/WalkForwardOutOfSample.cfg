SPECIFICATION Spec
CONSTANTS
    SplitCounts = {1}
    Embargoes = {0, 1}
    MinTrainSizes = {1, 2}
    TestSizes = {None, 0, 1, 2}
    None = None
    MaxSamples = 4
    FirstBars = 2
    Timesteps = 3
    EpisodeLengths = {None, 2}
    EnvEmbargoes = {0, 2}
    MaxHandSteps = 5
    MaxJobs = 2
INVARIANT OutOfSample
CHECK_DEADLOCK FALSE
