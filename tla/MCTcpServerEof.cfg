SPECIFICATION FairSpec
CONSTANTS
    Workers = {w1, w2}
    Users = {}
    MaxConnections = 1
    None = None
    MayFail = FALSE
    CounterModulus = 8
    MaxIds = 2
    MaxWaiting = 2
    MaxUnread = 1
PROPERTIES EndedConnectionsLeave
CHECK_DEADLOCK FALSE
