SPECIFICATION PartSpec
CONSTANTS
    limit = 2
    SampleSpan = 2
    Cleanup = 1
    LastStart = 1
    MaxSamples = 2
    MaxTime = 3
    Merges = {1}
    MAX_CALLS = 3
    Cycles = {c1, c2}
    MaxMishaps = 2
    Names <- Renamed
    Databases = {TRUE}
    MaxRuns = 2
    Writes = 2
    WaitPolls = 2
    RunningPolls = 1
    SkippedPolls = 1
    FAILED_READS_ALLOWED = 2
    Attempts = 2
    Runners = {"r1", "r2", "r3"}
    SetKeys = {"a", "b"}
    Refs = {"1"}
    SetOf <- MCSetOf
    RefOf <- MCRefOf
    MaxJobHistory = 2
    MaxRetired = 1
    MaxFaults = 1
    None = None
INVARIANTS
    HistoryComplete
    PreviewIsProved
    OutcomesForgotten
PROPERTIES
    FinishesStay
    BusyIsReal
