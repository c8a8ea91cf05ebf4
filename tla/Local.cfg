CONSTANTS
    x1 = x1
    x2 = x2
    y1 = y1
    y2 = y2
    none = none
    WebCall = {x1, x2}
    NoWebCall = none
    MaxWebRefs = 1
    MaxSiteTurns = 2
    MaxConsoleBuffer = 1
    MaxEntries = 3
    MaxConsoleTurns = 4
    Installer = {y1, y2}
    SkillRuns <- RunsOf
    PlaceOf <- PlaceFor
    Place = {1, 2}
    Generic = 1
    MaxSkillUpsets = 1
    MaxUserWrites = 1
    Launcher = {y1, y2}
    NoLauncher = none
    MaxLaunchUpsets = 2
SPECIFICATION Local
INVARIANTS WebToolsKept ConsoleHeardOnce SkillsKept LaunchesPinned
SYMMETRY Alike
CHECK_DEADLOCK FALSE
