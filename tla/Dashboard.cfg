SPECIFICATION Spec
CONSTANTS
    Sessions = {s1, s2}
    Keys <- MCKeys
    Values <- MCValues
    DEFAULTS <- MCDefaults
    EnvOff <- MCEnvOff
    Off = 0
    Files <- MCFiles
    Garbled = Garbled
    Clicks <- MCClicks
    MaxInteractions = 3
    None = None
INVARIANTS EditsReachSettings SavedIsLoaded
PROPERTY RunsEnd
CHECK_DEADLOCK FALSE
