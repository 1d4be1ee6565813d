SPECIFICATION FairSpec
CONSTANTS
    Brokers = {b1, b2}
    NBR_CLIENTS = 2
    NBR_WORKERS = 1
    MaxRequests = 1
INVARIANTS HandshakeIsMutual OneTurnPerWorker EnvelopesLeadHome OneCopyPerRequest
PROPERTY EveryRequestAnswered
CHECK_DEADLOCK FALSE
