SPECIFICATION FairSpec
CONSTANTS
    UINT = 8
    MaxFile = 12
    MaxRounds = 12
INVARIANTS WrittenIsPrefix AckedIsHeld
PROPERTY TransferCompletes
CHECK_DEADLOCK FALSE
