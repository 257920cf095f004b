SPECIFICATION AppSpec
CONSTANTS
    c1 = c1
    Clients <- OneClient
    Rude <- NoRude
    None = None
    Wake = Wake
    Commands <- RunOrState
    MaxJobs = 2
    LastLine = 1
CHECK_DEADLOCK FALSE
INVARIANT OneChild
INVARIANT LinesIntact
PROPERTY SettledIsComplete
PROPERTY JobsSettle
PROPERTY AppCloses
