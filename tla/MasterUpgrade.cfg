CONSTANTS
    Workers = 1
    Cache = TRUE
    MaxSlots = 5
    Daemonized = TRUE
    Admin = {"QUIT", "HUP", "USR1", "USR2", "WINCH"}
    MaxSignals = 2
    MaxDeaths = 1
    MaxFatal = 1
    MaxSpawnFails = 1
SPECIFICATION Spec
INVARIANTS OldWorkersRetire
PROPERTIES NoSpawnWhileStopping
\* The master may have exited, or sleep with nothing more to come.
CHECK_DEADLOCK FALSE
