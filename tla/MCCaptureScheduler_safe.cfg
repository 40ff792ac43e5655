SPECIFICATION FairSpec
CONSTANTS
    References = {a, b, c}
    NoReference = none
    MaxConcurrent = 2
    MaxQueue = 1
    HistoryLimit = 1
    MaxJobs = 4
INVARIANTS ConcurrencyBounded ActiveJobsTracked NoIdleSlot
PROPERTIES CloseDrains JobsSettle
CHECK_DEADLOCK FALSE
