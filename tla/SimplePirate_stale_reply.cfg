SPECIFICATION FairSpec
CONSTANTS
    Clients = {c1}
    Workers = {w1}
    Anonymous = {}
    Truncated = trunc
    WORKER_READY = ready
    MAX_RETRIES = 3
    MaxSeq = 3
    MAX_REQUESTS = 4
PROPERTY AcceptedReplyMatches
CHECK_DEADLOCK FALSE
