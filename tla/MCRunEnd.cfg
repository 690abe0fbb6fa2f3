CONSTANTS
    Sockets = {s1}
    Posts = {p1}
    SoleAccount = TRUE
SPECIFICATION EndSpec
CHECK_DEADLOCK FALSE
INVARIANTS ToldBeforeCleanExit
PROPERTIES CalledToEnd EveryoneIsTold
