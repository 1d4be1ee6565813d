SPECIFICATION FairSpec
CONSTANTS
    Clients = {c1, c2}
    MAX_RETRIES = 3
    MaxSeq = 2
INVARIANTS AnswersMatch OneRequestPerConnection
PROPERTIES RequestsAreRead ImplementsAtLeastOnce
CHECK_DEADLOCK FALSE
