SPECIFICATION LiveSpec
CONSTANTS
    Callers = {r1}
    Answerers = {d1}
    Retrying = {r1}
    Owners = {"intercept", "capture"}
    MaxDetaches = 1
    MaxCleanups = 1
    MaxDialogs = 1
    MaxHolds = 2
PROPERTIES CanceledWorkOut TabFreed
CHECK_DEADLOCK FALSE
