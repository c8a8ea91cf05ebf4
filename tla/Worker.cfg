CONSTANTS
    x1 = x1
    x2 = x2
    x3 = x3
    none = none
    Waiter = {x1, x2}
    NeedsLoad = {x1, x2}
    MaxReadsOpen = 2
    MaxTabTurns = 2
    MaxHookFaults = 0
    Steps = 1
    MaxBuffer = 1
    MaxPageCalls = 2
    MaxSurprises = 1
    LogTab = {x1}
    NoLogTab = none
    LogEntry = {1, 2, 3}
    PingEntry = {3}
    MaxHistory = 1
    MaxLogUpsets = 2
    Rule = {x1, x2, x3}
    MaxRules = 2
    MaxPendingJobs = 3
    MaxFetchFaults = 4
    Page = {x1}
    MaxVisualCalls = 3
    MaxPagePixels = 1
    MaxPixels = 1
    MaxScenes = 1
    MaxVisualJobs = 1
SPECIFICATION Worker
INVARIANTS NavigationWaitsKept OutcomesTrue HistoryKept InterceptionEnds PixelsInScope
SYMMETRY Alike
CHECK_DEADLOCK FALSE
