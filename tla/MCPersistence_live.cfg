SPECIFICATION FairSpec
CONSTANTS
    Callers = {c1}
    Readers = {rd1}
    Media = {1, 2}
    Contents = {d1}
    Absent = Absent
    r1 = r1
    References = {r1}
    Workspaces <- MCWorkspaces
    NoOne = NoOne
    Grace = 1
    CleanupLimit = 1
    PageSize = 1
    CommitBound = 1
    QueryBound = 0
    MaxRevision = 2
    MaxTime = 2
    MaxFaults = 1
PROPERTIES FailedReadWasRemoved CallsAnswered OrphansCollected
