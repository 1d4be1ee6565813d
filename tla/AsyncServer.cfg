SPECIFICATION AsyncSpec
CONSTANTS
    Clients = {c1, c2}
    Workers = {w1, w2}
    MAX_REPLIES = 2
    MaxRequests = 3
INVARIANTS OneToFiveReplies SameWorkerInOrder
PROPERTY EveryRequestServed
CHECK_DEADLOCK FALSE
