CONSTANTS
    Password = {p1, p2}
    NoPassword = none
    Kills = 4
    InitdbMayFail = TRUE
SPECIFICATION PgFairSpec
INVARIANTS SetUpIsComplete
PROPERTIES ServesInTheEnd
\* A server that runs, or has failed, and is not restarted does nothing more.
CHECK_DEADLOCK FALSE
