CONSTANTS
    JobId = {j1, j2}
    Key = {k1}
    Caller = {c1}
    MaxJobs = 1
    Retention = 1
    MaxTime = 2
    Sample <- Samples
    NoJob = NoJob
SPECIFICATION FairSpec
INVARIANTS OneActivePerKey NoJobLost
PROPERTIES LifecycleSpec CancelledJobsRelease
