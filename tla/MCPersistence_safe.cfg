SPECIFICATION Spec
CONSTANTS
    Callers = {c1, c2}
    Readers = {}
    Media = {1}
    Contents = {d1, d2}
    Absent = Absent
    r1 = r1
    References = {r1}
    Workspaces <- MCWorkspaces
    NoOne = NoOne
    Grace = 1
    CleanupLimit = 2
    PageSize = 1
    CommitBound = 1
    QueryBound = 0
    MaxRevision = 2
    MaxTime = 2
    MaxFaults = 1
INVARIANTS RowsMatchWorkspace UploadsStayStored
PROPERTIES ImplementsStore
SYMMETRY MCSymmetry
