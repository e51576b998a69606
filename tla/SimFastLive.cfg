\* Fast mode with heartbeats: liveness, the marker answering every update.
SPECIFICATION FairSpec
CONSTANTS
    fast_mode = TRUE
    interactive = FALSE
    heartbeat_mode = TRUE
    Checks <- TwoChecks
    Flags = {"panic"}
    BranchLimit = 1
    HEARTBEAT_TICKS = 1
    StallTicks = 1
    FastForward = 1
    FlushTicks = 1
    MaxQuiet = 1
    Environment = {}
    PipeMax = 1
    SpuriousWakeups = FALSE
PROPERTIES FlagsStop ChangesReported
