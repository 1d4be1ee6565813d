SPECIFICATION FairSpec
CONSTANTS
    Clients = {c1, c2}
    Workers = {w1, w2}
    Anonymous = {}
    Truncated = trunc
    WORKER_READY = ready
    MAX_RETRIES = 2
    MaxSeq = 1
    MAX_REQUESTS = 3
INVARIANTS TypeOK OneTurnPerWorker FrontIsIdle CopiesBounded NoSilentLoss
PROPERTIES RequestsAreRead ClientsMoveOn
CHECK_DEADLOCK FALSE
