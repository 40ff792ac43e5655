SPECIFICATION FairSpec
CONSTANTS
    Conns = {c1, c2}
    MaxSockets = 2
    MaxBytes = 1
    MaxActions = 2
    MaxNavigations = 1
    MaxMoves = 3
    Totals = {1, 3}
    Images = {0, 1, 2}
    StabilitySamples = 2
    Threshold = 0
    Representatives = 2
    Modes = {"scroll", "auto", "guided"}
    Traffic = {"scroll"}
    Watched = {"auto"}
    Plans = 2
INVARIANTS AnswerReleases ProxyContained ObservationTruthful
PROPERTIES QuietAfterCancel EndsClean
CHECK_DEADLOCK FALSE
