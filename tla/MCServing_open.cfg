CONSTANTS
    Preset = {1, 2}
    Call = {c1, c2}
    Loop = loop
    Reconciles = TRUE
    JobId = {1, 2, 3}
    Gateway = FALSE
    MaxCalls = 3
    MaxFaults = 1
    NoPreset = NoPreset
SPECIFICATION MCSpec
CHECK_DEADLOCK FALSE
INVARIANT NoDangling
\* TLC refutes each of these too, one at a time in its place:
\* PROPERTY ReadLeavesStopping
\* PROPERTY JobRefreshesInPlace
\* PROPERTY UnloadTakesItsOwn
\* PROPERTY WaitReadyMeansAnswering
