SPECIFICATION Spec
CONSTANTS
    Networks <- WholePieces
    BreakSizes = {}
    ClientWorkers = {x1}
    ClientToken = 2
    OtherTokens = {}
    Callers = {c1}
    Calls <- OneCall
    None = None
    Waiting = Waiting
    MaxRequests = 1
    ServerWorkers = {w1, w2}
    Registrations <- TwoServices
    Methods <- OneMethodEach
    Absent = Absent
    RawFrames <- NoFrames
    MaxRaw = 0
INVARIANTS ServedIsAnswered
CHECK_DEADLOCK FALSE
