SPECIFICATION FairSpec
CONSTANTS
    web = web
    mcp = mcp
    Processes = {web, mcp}
    Sql = {"a", "b", "c"}
    Release <- MCRelease
    NoOne = NoOne
    Http = {web}
    MaxFaults = 1
    MaxCrashes = 1
INVARIANTS MigrationsSound  CleanupOrderly
PROPERTIES ProcessesSettle
CHECK_DEADLOCK FALSE
