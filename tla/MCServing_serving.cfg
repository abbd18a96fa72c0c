CONSTANTS
    Preset = {1, 2}
    Call = {c1}
    Loop = loop
    Reconciles = TRUE
    JobId = {1, 2, 3}
    Gateway = FALSE
    MaxCalls = 4
    MaxFaults = 1
    NoPreset = NoPreset
SPECIFICATION MCSpec
CHECK_DEADLOCK FALSE
INVARIANT NoDanglingInTurn
PROPERTY ReadyGetsWired
