SPECIFICATION WrittenSpec
CONSTANTS
    k1 = k1
    k2 = k2
    r1 = r1
    r2 = r2
    Kustomization = {k1, k2}
    Repo = {r1, r2}
    CommitCall = {c1}
    MaxWrites = 2
    MaxEvents = 1
    None = None
    Unrecorded = Unrecorded
CHECK_DEADLOCK FALSE
INVARIANTS OneFile
