SPECIFICATION MCSpec
CONSTANTS
    gb = gb
    l40 = l40
    t4 = t4
    wide = wide
    mla = mla
    quant = quant
    small = small
    image = image
    split = split
    scaled = scaled
    NoNode = NoNode
    NoPool = NoPool
    Node = {gb, l40, t4}
    Preset = {wide, mla, quant, small, image, split}
    Pool = {scaled}
    NodeFact <- MCNodeFact
    PresetFact <- MCPresetFact
    Sizes <- MCSizes
    Link = {}
    CacheNodes = {}
    Headroom = 16
    Pinning = NoPool
    Checkpoint <- MCCheckpoint
    Args <- MCArgs
    GpuFact <- MCGpuFact
    SizeFact <- MCSizeFact
    Reserve = 3
    LargeGPU = 150
    Batch <- MCBatch
    Held = {0, 130, 200}
    MaxChecks = 2
    MaxFaults = 2
    Ref = {a, b}
    NoJob = NoJob
INVARIANTS StartsThere AdviceIsExact RefusedForCause NoUnattendedDownload
PROPERTY CancelledPullEnds
CHECK_DEADLOCK FALSE
\* TLC refutes each of these, alone in place of the properties above:
\* INVARIANT NoConfigIsTrue
\* INVARIANT SizedToHighest
\* INVARIANT ClaimLeavesHost
