SPECIFICATION BalancerSpec
CONSTANTS
    Clients = {c1, c2, c3}
    Workers = {w1, w2}
    Anonymous = {}
    Truncated = trunc
    WORKER_READY = ready
    MAX_REQUESTS = 3
INVARIANTS AllServedAtExit
PROPERTIES Terminates ImplementsAtLeastOnce
CHECK_DEADLOCK FALSE
