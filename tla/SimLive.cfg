\* Normal mode: liveness under weak fairness of both threads.
SPECIFICATION FairSpec
CONSTANTS
    fast_mode = FALSE
    interactive = TRUE
    heartbeat_mode = FALSE
    Checks <- OneCheck
    Flags = {"panic"}
    BranchLimit = 1
    HEARTBEAT_TICKS = 1
    StallTicks = 1
    FastForward = 1
    FlushTicks = 1
    MaxQuiet = 1
    Environment = {"sigint"}
    PipeMax = 1
    SpuriousWakeups = FALSE
PROPERTIES SignalReturns FlagsStop InputWakes
