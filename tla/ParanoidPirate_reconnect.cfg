SPECIFICATION FairSpec
CONSTANTS
    Clients = {c1}
    Workers = {1}
    Anonymous = {}
    Truncated = trunc
    WORKER_READY = ready
    HEARTBEAT = heartbeat
    HWM = 2
    EXPIRATION = 1
    MAX_LIVENESS = 2
    WORKER_RETRIES = 3
    MAX_RETRIES = 3
    MaxSeq = 1
    MAX_REQUESTS = 2
PROPERTIES LiveWorkersComeBack RequestsAreTaken
CHECK_DEADLOCK FALSE
