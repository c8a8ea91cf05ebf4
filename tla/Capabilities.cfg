CONSTANTS
    a = a
    b = b
    c = c
    d = d
    x1 = x1
    x2 = x2
    x3 = x3
    top = top
    child = child
    none = none
    Entry = {a, b, c, d}
    Tab = {1, 2}
    NoTab = 0
    Queues <- SomeQueues
    Preempts <- IsNavigation
    Root = 1
    Child = 2
    MaxMemory = 4
    MaxWaiting = 2
    MaxReads = 1
    MaxQueued = 1
    MaxActs = 2
    MaxFaults = 1
    MaxTurnsQueued = 3
    MaxRequests = 1
    MaxSeen = 3
    MaxTroubles = 2
    Gesture = {x1, x2}
    MaxMishaps = 2
    Frame = {top, child}
    TopFrame = top
    Patcher = {x1, x2, x3}
    PatchValue = {1}
    MaxPatches = 2
    MaxPageTurns = 1
    Element = {x1, x2}
    NoElement = none
    InputCall = {x3}
    MaxRefs = 2
    PruneBatch = 1
    MaxCandidates = 2
    MaxMinted = 3
    MaxPageMoves = 2
SPECIFICATION Capabilities
INVARIANTS ScanGrantsTheRule RecordingKept CaptureAgrees InputLetsGo PatchesUndone InputExact
SYMMETRY Alike
CHECK_DEADLOCK FALSE
