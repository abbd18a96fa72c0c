CONSTANTS
    Dir = {d1, d2}
    Repo = {r1}
    Volume = {v1, v2}
    Caller = {c1, c2}
    MaxIndexEvents = 3
    MaxIndexFaults = 1
    NoRepo = NoRepo
    None = None
    Lister = {l1, l2}
    MaxTurns = 2
    MaxMisses = 1
    NotRead = NotRead
    Name = {n1}
    Sync = {s1, s2}
    MaxVersion = 2
    MaxChanges = 2
    MaxErrors = 1
    NoSpec = NoSpec
    Absent = Absent
    Waiting = Waiting
    Ready = Ready
SPECIFICATION Spec
CHECK_DEADLOCK FALSE
PROPERTIES OthersEntriesStay ServedGetsRecorded AnswerIsShown EndpointFollows
\* TLC refutes each of these, alone in place of the properties above:
\* PROPERTY KeptWhileServed
\* PROPERTY LiveRecordStays
