SPECIFICATION Spec
CONSTANTS
    Clients = {c1, c2, c3}
    Server = server
    None = none
INVARIANTS BothAgree FailsOnlyIfCrowded
PROPERTY KeepsGreeting
CHECK_DEADLOCK FALSE
