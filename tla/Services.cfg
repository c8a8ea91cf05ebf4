CONSTANTS
    r1 = r1
    x1 = x1
    x2 = x2
    y1 = y1
    y2 = y2
    c1 = c1
    c2 = c2
    c3 = c3
    g1 = g1
    none = none
    Process = {x1, x2}
    NoProcess = none
    Version = {1, 2, 3}
    FeedAt <- Feeds
    MaxBlocked = 1
    MaxStages = 2
    MaxUpsets = 1
    Agent = {g1}
    Tab = {y1, y2}
    MaxCalls = 2
    MaxPerTab = 1
    MaxRecords = 2
    MaxAbandoned = 1
    MaxOwners = 1
    MaxTurns = 2
    Browser = {y1, y2}
    Action = {x1, x2}
    MaxAsking = 1
    MaxRouted = 1
    MaxGrants = 3
    MaxBreaks = 1
    MaxConnections = 3
    MaxRegistered = 2
    MaxShaking = 2
    MaxJobs = 2
    MaxOwnJobs = 1
    TaskId = {y1, y2}
    Caller = {c1, c2, c3}
    Id = {y1, y2}
    Daemon = {1, 2, 3}
    NoDaemon = none
    Restart = {r1}
    Host = {x1, x2}
    MaxDeaths = 1
    BrowserWindow = {x1, x2}
    NoTarget = none
    Asker = {y1, y2}
    MaxPromptUpsets = 1
SPECIFICATION Services
INVARIANTS SelectionRuns BaselinesAgree ActionsAnswered PeersAccounted ClientSettles LifecycleKept PromptsKept
PROPERTIES SelectionMoves
SYMMETRY Alike
CHECK_DEADLOCK FALSE
