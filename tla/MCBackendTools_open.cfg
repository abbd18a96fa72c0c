CONSTANTS
    kserve = kserve
    second = second
    broken = broken
    Name = {kserve, ollama}
    Static = {ollama}
    Content = {local, second, remote, broken}
    Valid = {local, second, remote}
    Builds = {local, second}
    NoDoc = NoDoc
    FromFlags = FromFlags
    MaxWrites = 3
    MaxFaults = 1
    Client = {c1, c2}
    Model = {m1, m2}
    Wired = {"here", "other", "unclaimed", "git"}
    Outside = TRUE
    MaxWires = 1
SPECIFICATION MCSpec
CHECK_DEADLOCK FALSE
PROPERTY RemovalLeavesNothing
\* TLC refutes it with Client = {c1} and Wired = {"here", "old"} as well, and, with one client:
\* PROPERTY AddAnswersWithItsWrite
