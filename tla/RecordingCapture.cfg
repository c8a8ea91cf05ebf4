CONSTANTS
    Root = 1
    Child = 2
    MaxMemory = 4
    MaxWaiting = 2
    MaxReads = 1
    MaxQueued = 1
    MaxActs = 2
    MaxFaults = 1
SPECIFICATION RecordingSpec
INVARIANTS OwnsCapture
CHECK_DEADLOCK FALSE
