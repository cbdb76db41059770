\* As audio.cfg, with clocks that agree and no disturbance.
SPECIFICATION Spec
CONSTANTS
    Block = 3
    Beats = 3
    Period = 4
    SendsFirst = TRUE
    Drifts = {0}
    Gaps = {9}
    Jitter = 1
    MaxOk = 3
    MaxTroubles = 0
    Near = 0
    Switched = {}
CHECK_DEADLOCK FALSE
INVARIANT MaintainsNormalSize
