SPECIFICATION FairSpec
CONSTANTS
    c1 = c1
    c2 = c2
    server = server
    mcp = mcp
    Captures = {c1, c2}
    Processes = {server, mcp}
    Process <- TwoProcesses
    Digests = {x}
    None = None
    Urls = {u, v}
    FirstUrl = u
    Gone = Gone
    Retries = 1
    Timeouts = TRUE
    MaxShots = 2
    MaxEdits = 1
    MaxImports = 1
    MaxFaults = 1
INVARIANTS MomentsHaveAssets AnswersTruthful DuplicatesMet
PROPERTIES CheckpointsOnlyAdd FailureLeavesNothing CapturesAnswered
CHECK_DEADLOCK FALSE
