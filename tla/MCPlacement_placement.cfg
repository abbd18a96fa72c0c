SPECIFICATION MCSpec
CONSTANTS
    u1 = u1
    u2 = u2
    d1 = d1
    p1 = p1
    p2 = p2
    g = g
    NoNode = NoNode
    NoPool = NoPool
    Node = {u1, u2, d1}
    Preset = {p1, p2}
    Pool = {g}
    NodeFact <- MCNodeFact
    PresetFact <- MCPresetFact
    Sizes <- MCSizes
    Link <- MCLink
    CacheNodes = {}
    Headroom = 16
    Pinning = NoPool
    Call = {c1, c2}
    MaxCalm = 4
    MaxOverlap = 3
SYMMETRY Callers
INVARIANTS HeadroomKept DevicesKept
PROPERTIES ServedNodesStay
CHECK_DEADLOCK FALSE
\* TLC refutes each of these, alone in place of the properties above:
\* INVARIANT CopiesKeepHeadroom
