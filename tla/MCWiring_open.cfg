CONSTANTS
    Instance = {i1, i2}
    Backend = {"b1", "b2"}
    Model = {"q", "r"}
    Name = {"m", "s", "m-b2"}
    Call = {c1, c2}
    Served = {"s"}
    Derived <- OneName
    Suffix <- SuffixOf
    Seeds <- Namespaces
    Legacy <- NoLegacy
    LegacyListed = {}
    World = {"people", "flux", "agents"}
    Faults = TRUE
    MaxWrites = 4
    Concurrent = 2
    NoName = NoName
    NoInstance = NoInstance
    NoBackend = NoBackend
    NoConfig = NoConfig
SPECIFICATION MCSpec
SYMMETRY InstanceSymmetry
INVARIANT OneConfigPerModel
\* TLC refutes each of these too, one at a time in its place:
\* INVARIANT KeySecretStays
\* PROPERTY OnlyCreatorDeletes
\* PROPERTY OtherModelsStand
