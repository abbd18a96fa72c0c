SPECIFICATION MCSpec
CONSTANTS
    Reader = {r1, r2}
    Refresher = {bg}
    TTL = 1
    Strict = FALSE
    MaxTime = 2
    MaxChanges = 1
    NoSnap = NoSnap
    n1 = n1
    n2 = n2
    n3 = n3
    Node = {n1}
    CacheNode = {n1, n2, n3}
    Base = Base
    Request = {c1, c2}
    NoModel = NoModel
    Home = {n1}
    Placements <- MCPlacements
    MaxCalls = 3
    MaxLate = 1
    MaxRemovals = 1
SYMMETRY Callers
INVARIANTS OneScanPerNode MountsReach SplitHasWeights PulledThere
PROPERTIES NeverGoesBack ChangeIsSeen
CHECK_DEADLOCK FALSE
\* TLC refutes each of these, alone in place of the properties above:
\* PROPERTY NamedClaimExists
\* PROPERTY ServedKeepsWeights
\* PROPERTY CopiesReach
\* PROPERTY ChangeIsSeen (with Strict = TRUE)
