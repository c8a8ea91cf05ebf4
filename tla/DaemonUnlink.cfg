CONSTANTS
    Daemon = {1, 2, 3}
    NoDaemon = none
    Restart = {r1}
    Host = {h1}
    MaxDeaths = 1
SPECIFICATION LifecycleSpec
INVARIANTS NeverUnlinksLive
CHECK_DEADLOCK FALSE
