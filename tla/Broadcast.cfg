SPECIFICATION BroadcastSpec
CONSTANT N = 3
INVARIANTS EveryoneBinds BroadcastWhenDone
PROPERTY FinishesIfConnected
CHECK_DEADLOCK FALSE
