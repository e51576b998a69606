\* Two fast timers, both callers, until the horizon: no counter wraps.
SPECIFICATION Spec
CONSTANTS
    Fast = {0, 1}
    MACRO = 6
    STEP = 2
    US_PER_TICK = 2
    W = 64
    Delays <- AnyDelays
    InitialDelays = {3, 8}
    Horizon = 16
INVARIANTS TypeOK MacroRate LatencyBounded
PROPERTY MacroTickSpacing
\* The model stops at its horizon.
CHECK_DEADLOCK FALSE
