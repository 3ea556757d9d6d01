SPECIFICATION Spec
CONSTANTS
    Workers = {w1, w2}
    Users = {u1}
    MaxConnections = 1
    None = None
    MayFail = TRUE
    CounterModulus = 8
    MaxIds = 2
    MaxWaiting = 2
    MaxUnread = 1
INVARIANTS TypeOK CountAccounted LimitHolds ClosedOnce MapMatchesRegistry WaitingNoticed
SYMMETRY WorkerSymmetry
CHECK_DEADLOCK FALSE
