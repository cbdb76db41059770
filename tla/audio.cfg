\* Three exchanges of three units to a frame.  With periods of four frames and a
\* slip every nine, the program makes up for a slip over one to two slips' time.
SPECIFICATION Spec
CONSTANTS
    Block = 3
    Beats = 3
    Period = 4
    SendsFirst = TRUE
    Drifts <- MCDrifts
    Gaps = {9}
    Jitter = 1
    MaxOk = 3
    MaxTroubles = 1
    Near = 4
    Switched = {0}
CHECK_DEADLOCK FALSE
INVARIANTS
    TypeOK
    InStep
    KeepsUp
PROPERTIES
    StaysInSync
    Recovers
