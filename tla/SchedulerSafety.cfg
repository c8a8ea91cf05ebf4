CONSTANTS
    a = a
    b = b
    c = c
    d = d
    p1 = p1
    p2 = p2
    x = x
    y = y
    t1 = t1
    t2 = t2
    NoTab = NoTab
    NoPeer = NoPeer
    Agent = {p1, p2}
    Extension = {x, y}
    Request = {a, b, c, d}
    Tab = {t1, t2}
    Owner <- TwoBrowsersOwner
    Target <- TwoBrowsersTarget
    Method <- TwoBrowsersMethod
    RequestTab <- TwoBrowsersTab
    MaxScheduled = 3
    MaxQueue = 3
    MaxPending = 3
    MaxPerPeer = 2
SPECIFICATION Spec
INVARIANTS OneRunningPerTab NoTurnWasted
PROPERTIES SlotKeptUntilSettled TurnsInOrder TurnsKept
