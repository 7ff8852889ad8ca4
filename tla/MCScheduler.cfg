SPECIFICATION FairSpec
CONSTANTS
    Threads = {m, a, b}
    Main = m
    Idle = Idle
    Priorities = {2, 3}
    REALTIME = 3
    DEGRADE_QUANTA = 1
    RECOVER_MS = 1
    STARVATION_MS = 2
    MaxSleep = 1
    Recycle = FALSE
INVARIANTS
    CurrentIsSafe
    QueuesAreSound
    PriorityBounds
    BoundedWait
PROPERTIES
    
    BoostIsKept
    NoStarvation
