CONSTANTS
    Block = {"app", "api"}
    Primary <- MCPrimary
    Backup <- MCBackup
    Weight <- MCWeight
    MaxFails <- MCMaxFails
    MaxConns <- MCMaxConns
    Down = {}
    FailTimeout = 0
    MaxTime = 2
    Worker = {"w1", "w2"}
    Request = {"r1", "r2"}
    NonIdempotent = {"r1"}
    Cacheable = {"r2"}
    NextUpstream = {"error", "timeout", "http_404"}
    NextTries = 2
    MaxCached = 1
    None = None
SPECIFICATION FairSpec
INVARIANTS ConnsAreCounted WeightsCancel SentOnce AnswersAreOwn
PROPERTIES RequestsEnd
CHECK_DEADLOCK FALSE
