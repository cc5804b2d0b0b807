CONSTANTS
    Proc = {w1, w2, w3}
    Master = master
    NoProc = NoProc
    Semaphore = TRUE
    MaxCrashes = 2
SPECIFICATION FairSpec
INVARIANTS MutualExclusion Accounting NoLostWakeup
PROPERTIES ImplementsCrashMutex SleepersAreServed DeadOwnerIsRecovered
