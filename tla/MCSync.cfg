SPECIFICATION FairSpec
CONSTANTS
    Threads = {t1, t2, t3}
    Mutexes = {1, 2}
    Events = {e1}
    Idle = Idle
    NoThread = NoThread
    NoEvent = NoEvent
    NoMutex = NoMutex
INVARIANTS
    MutualExclusion
    BlockedIsFindable
    WaitResultExact
    HandOverExact
PROPERTIES
    ImplementsFifoLock
    BlockedThreadsReturn
