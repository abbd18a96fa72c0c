CONSTANTS
    Ref = {a, b}
    NoJob = NoJob
SPECIFICATION Spec
INVARIANT RestartLosesNoDownload
\* TLC refutes each of these, alone in place of the properties above:
\* PROPERTY PulledIsComplete
\* PROPERTY LeftoversOnly
