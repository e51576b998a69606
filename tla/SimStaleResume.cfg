\* Fast mode: two updates in one round of checks.
SPECIFICATION Spec
CONSTANTS
    fast_mode = TRUE
    interactive = TRUE
    heartbeat_mode = FALSE
    Checks <- TwoChecks
    Flags = {"panic"}
    BranchLimit = 1
    HEARTBEAT_TICKS = 1
    StallTicks = 1
    FastForward = 1
    FlushTicks = 1
    MaxQuiet = 1
    Environment = {}
    PipeMax = 1
    SpuriousWakeups = FALSE
PROPERTY SleepsUntilResume
