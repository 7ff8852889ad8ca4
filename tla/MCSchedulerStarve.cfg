SPECIFICATION FairSpec
CONSTANTS
    Threads = {m, a, b}
    Main = m
    Idle = Idle
    Priorities = {3}
    REALTIME = 3
    DEGRADE_QUANTA = 1
    RECOVER_MS = 1
    STARVATION_MS = 1
    MaxSleep = 1
    Recycle = TRUE
PROPERTIES
    NoStarvation
