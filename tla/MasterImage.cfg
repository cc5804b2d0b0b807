CONSTANTS
    Workers = 2
    Cache = FALSE
    MaxSlots = 6
    Daemonized = FALSE
    Admin = {"QUIT", "TERM", "HUP", "IO"}
    MaxSignals = 2
    MaxDeaths = 1
    MaxFatal = 0
    MaxSpawnFails = 0
SPECIFICATION PoliteSpec
INVARIANTS NoOrphans NoSurplusWorkers
PROPERTIES TermEndsMaster QuitEndsMaster Settles
\* The master may have exited, or sleep with nothing more to come.
CHECK_DEADLOCK FALSE
