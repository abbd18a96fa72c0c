SPECIFICATION MCSpec
CONSTANTS
    Call = {c1, c2}
    NoCall = NoCall
    Local = TRUE
    SAReads = FALSE
    Shapes = TRUE
    TTL = 2
    ShortTTL = 1
    MaxRead = 1
    MaxChanges = 1
    MaxFailures = 1
    MaxClaims = 2
    MaxTroubles = 2
    NoPod = NoPod
    NotRead = NotRead
    Size = {a, b}
    Zone = {x, y}
    MaxLaunches = 2
    MaxMoves = 1
    NoZone = NoZone
    Unread = Unread
SYMMETRY Callers
INVARIANTS LandedIsServed ListsFollow SaysWhatIs
PROPERTY MovesForward
CHECK_DEADLOCK FALSE
\* TLC refutes each of these, alone in place of the properties above:
\* PROPERTY EndpointKept
\* INVARIANT ComposedAsJudged
\* PROPERTY EveryStepForward
