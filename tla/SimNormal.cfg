\* Normal mode, interactive, with heartbeats, Ctrl-C, typed Ctrl-D, client events and
\* spurious wake-ups; a marker failure is cleared after it is written.
SPECIFICATION Spec
CONSTANTS
    fast_mode = FALSE
    interactive = TRUE
    heartbeat_mode = TRUE
    Checks <- MarkerCheck
    Flags = {"panic"}
    BranchLimit = 1
    HEARTBEAT_TICKS = 1
    StallTicks = 1
    FastForward = 1
    FlushTicks = 1
    MaxQuiet = 0
    Environment = {"sigint", "ctrl_d", "client"}
    PipeMax = 1
    SpuriousWakeups = TRUE
INVARIANTS TypeOK LockInv HandshakeInv
PROPERTY SerialUnderLock
