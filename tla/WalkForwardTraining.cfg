SPECIFICATION Spec
CONSTANTS
    SplitCounts = {1, 3}
    Embargoes = {0, 1}
    MinTrainSizes = {1, 2}
    TestSizes = {None, 0, 1, 2}
    None = None
    MaxSamples = 8
    FirstBars = 2
    Timesteps = 3
    EpisodeLengths = {None, 2}
    EnvEmbargoes = {0, 2}
    MaxHandSteps = 5
    MaxJobs = 2
INVARIANTS
    FoldsPurged
    TestsApart
    EpisodesStayInWindow
    EpisodeNeverExhausted
CHECK_DEADLOCK FALSE
