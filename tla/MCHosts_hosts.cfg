CONSTANTS
    Host = {1, 2}
    Key = {k}
    Alias = {a}
    KeyOf <- MCKeyOf
    Call = {c1, c2}
    Loop = Loop
    MaxCalls = 2
    MaxEvents = 1
    MaxFaults = 1
    MaxLoads = 2
    MaxUnknown = 2
    MaxPulls = 2
    MaxHostEvents = 2
    MaxReads = 1
SPECIFICATION Spec
CHECK_DEADLOCK FALSE
INVARIANTS UnloadEvicts
PROPERTIES SettingReaches StuckPullEnds
\* TLC refutes each of these, alone in place of the properties above:
\* INVARIANT OneConfigPerName
\* INVARIANT OneInstance
\* PROPERTY SettingReachesEach
\* PROPERTY PulledIsAlwaysServed
