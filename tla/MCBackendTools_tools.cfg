CONSTANTS
    kserve = kserve
    second = second
    broken = broken
    Name = {kserve, ollama}
    Static = {ollama}
    Content = {local, second, remote, broken}
    Valid = {local, second, remote}
    Builds = {local, second}
    NoDoc = NoDoc
    FromFlags = FromFlags
    MaxWrites = 3
    MaxFaults = 1
    Client = {c1}
    Model = {m1, m2}
    Wired = {"here", "other", "unclaimed", "git"}
    Outside = TRUE
    MaxWires = 1
SPECIFICATION MCSpec
INVARIANTS NeverBoth InStep
PROPERTIES RemovalLeavesNothing Converges
CHECK_DEADLOCK FALSE
