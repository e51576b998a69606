\* A fast timer shifts the calls, and the wrap skips the slow timer.
SPECIFICATION Spec
CONSTANTS
    Fast = {0}
    MACRO = 8
    STEP = 2
    US_PER_TICK = 2
    W = 49
    Delays <- LongDelays
    InitialDelays = {0, 3, 8}
    Horizon = 60
INVARIANT NoStandstill
