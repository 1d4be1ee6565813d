SPECIFICATION FairSpec
CONSTANTS
    Clients = {c1}
    Workers = {1, 2}
    Anonymous = {}
    Truncated = trunc
    WORKER_READY = ready
    HEARTBEAT = heartbeat
    HWM = 1
    EXPIRATION = 1
    MAX_LIVENESS = 2
    WORKER_RETRIES = 1
    MAX_RETRIES = 1
    MaxSeq = 1
    MAX_REQUESTS = 1
INVARIANT PopIsSafe
PROPERTIES NoneExpiredAfterPurge GoneWorkersForgotten RequestsAreRead HeardWorkersListed
CHECK_DEADLOCK FALSE
