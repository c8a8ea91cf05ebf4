CONSTANTS
    s1 = s1
    s2 = s2
    j1 = j1
    p1 = p1
    x = x
    y = y
    NoJob = NoJob
    NoPeer = NoPeer
    Agent = {p1}
    Extension = {x, y}
    Request = {s1, s2, j1}
    Recording = {j1}
    Legacy = {y}
    Owner <- OneOwner
    Target <- TwoTargets
    Chunks <- OneChunk
    OwnerCount = 2
    OwnerSize = 1
    TotalSize = 2
    MaxJournals = 1
    TransferLimit = 2
    CleanupLimit = 3
    ByteLimit = 1
    MaxChunks = 2
    MaxUpsets = 1
    MaxAsked = 2
SPECIFICATION Spec
INVARIANTS StoresKept
PROPERTIES StorageServes
CHECK_DEADLOCK FALSE
