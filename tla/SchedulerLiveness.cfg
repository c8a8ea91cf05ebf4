CONSTANTS
    a = a
    b = b
    c = c
    d = d
    p1 = p1
    p2 = p2
    x = x
    y = y
    t1 = t1
    t2 = t2
    NoTab = NoTab
    NoPeer = NoPeer
    Agent = {p1, p2}
    Extension = {x}
    Request = {a, b, c}
    Tab = {t1}
    Owner <- ExportOwner
    Target <- ExportTarget
    Method <- ExportMethod
    RequestTab <- ExportTab
    MaxScheduled = 2
    MaxQueue = 2
    MaxPending = 2
    MaxPerPeer = 1
SPECIFICATION FairSpec
INVARIANTS ReservationsKept
PROPERTIES RequestsSettle
