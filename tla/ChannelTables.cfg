CONSTANTS
    MaxSlots = 3
    MaxProcs = 6
    MaxBatch = 3
    QueueSize = 12
SPECIFICATION Spec
INVARIANTS LivingAreReachable
\* After MaxProcs processes nothing is started any more.
CHECK_DEADLOCK FALSE
