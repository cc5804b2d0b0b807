CONSTANTS
    Worker = {w1, w2}
    Shared = {l1, l2}
    NoWorker = NoWorker
    UseMutex = FALSE
    ReusePort = FALSE
    MultiAccept = FALSE
    ConnectionN = 5
    MaxPending = 1
    MaxArrivals = 2
    MaxFdErrors = 2
    MaxEpollErrors = 0
    MaxExits = 1
SPECIFICATION FairSpec
PROPERTIES ConnectionsAreServed
\* Once MaxArrivals connections have been served the workers only wait.
CHECK_DEADLOCK FALSE
