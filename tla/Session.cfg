CONSTANTS
    x1 = x1
    x2 = x2
    x3 = x3
    c1 = c1
    c2 = c2
    none = none
    NoGrant = NoGrant
    NoWindow = NoWindow
    Window = {x1, x2}
    MaxInputs = 2
    MaxRestarts = 1
    MaxUpsets = 1
    Session = {1, 2}
    DefaultSession = 1
    AgentTab = {x1, x2}
    NoAgentTab = none
    Route = {c1, c2}
    MaxLeases = 1
    MaxTabUpsets = 2
    StripTab = {x1, x2, x3}
    Group = {1, 2, 3}
    NoGroup = 0
    MaxGroupUpsets = 3
SPECIFICATION WindowRuns
INVARIANTS GrantAgrees RetryDue SessionsStay ArrangementKept
PROPERTIES OldGrantNeverReturns
SYMMETRY Alike
