CONSTANTS
    a = a
    b = b
    p1 = p1
    x = x
    t1 = t1
    NoTab = NoTab
    NoPeer = NoPeer
    Agent = {p1}
    Extension = {x}
    Browser = x
    Request = {a, b}
    Tab = {t1}
    Owner <- TwoOwner
    Target <- TwoTarget
    Method <- InputAndNavigation
    RequestTab <- TwoTab
    MaxScheduled = 2
    MaxQueue = 2
    MaxPending = 2
    MaxPerPeer = 2
    Url = {"one"}
    MaxActive = 2
    MaxUpsets = 1
SPECIFICATION BridgeSpec
INVARIANTS PageInTurn
CHECK_DEADLOCK FALSE
