SPECIFICATION Spec
CONSTANTS
    q1 = q1
    q2 = q2
    server = server
    mcp = mcp
    preserve = preserve
    adapt = adapt
    Requests = {q1, q2}
    Processes = {server, mcp}
    Process <- TwoProcess
    Intents = {preserve, adapt}
    Intent <- OneIntent
    Locators = {u, v}
    Gone = Gone
    Concurrency = 1
    Limit = 2
    Attempts = 2
    MaxPreparing = 2
    RunTime = 1
    Slack = 2
    StoreBound = 1
    MaxTime = 3
    MaxEdits = 1
    MaxImports = 1
    MaxFaults = 1
INVARIANTS CapacityRespected LeaseCoversRun ClaimedOnce
PROPERTIES LateCompletionInert
CHECK_DEADLOCK FALSE
