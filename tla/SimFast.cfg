\* Fast mode with heartbeats and a stuck Ctrl-C: both threads run the ticker.
SPECIFICATION Spec
CONSTANTS
    fast_mode = TRUE
    interactive = TRUE
    heartbeat_mode = TRUE
    Checks <- OneCheck
    Flags = {"panic"}
    BranchLimit = 0
    HEARTBEAT_TICKS = 2
    StallTicks = 1
    FastForward = 4
    FlushTicks = 1
    MaxQuiet = 0
    Environment = {"sigint", "overflow"}
    PipeMax = 1
    SpuriousWakeups = FALSE
INVARIANTS NoLostResume HeartbeatInTime FlushedAtBye
