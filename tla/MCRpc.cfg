SPECIFICATION Spec
CONSTANTS
    Networks <- ThreeNetworks
    BreakSizes = {0, 6}
    ClientWorkers = {x1}
    ClientToken = 2
    OtherTokens = {1}
    Callers = {c1, c2}
    Calls <- ThreeCalls
    None = None
    Waiting = Waiting
    MaxRequests = 2
    ServerWorkers = {w1, w2}
    Registrations <- TwoServices
    Methods <- OneMethodEach
    Absent = Absent
    RawFrames <- OddFrames
    MaxRaw = 2
INVARIANTS TypeOK FramesInOrder NoSleeperAnswered PendingHasCaller RequestAccounted
PROPERTIES ImplementsCalls
SYMMETRY Symmetry
CHECK_DEADLOCK FALSE
