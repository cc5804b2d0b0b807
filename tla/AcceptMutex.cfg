CONSTANTS
    Worker = {w1, w2}
    Shared = {l1}
    NoWorker = NoWorker
    UseMutex = TRUE
    ReusePort = FALSE
    MultiAccept = TRUE
    ConnectionN = 8
    MaxPending = 2
    MaxArrivals = 2
    MaxFdErrors = 1
    MaxEpollErrors = 1
    MaxExits = 1
SPECIFICATION FairSpec
INVARIANTS MutexNotLeaked TurnsAreExclusive NoDeafWait
PROPERTIES NotReleasedByOthers ConnectionsAreServed
\* Once MaxArrivals connections have been served the workers only wait.
CHECK_DEADLOCK FALSE
