\* The wheel itself: one ticker, three levels of two slots (8 ticks), a clock
\* that passes the range of the wheel, delays in level 0, in an upper level
\* and in the overflow list.
SPECIFICATION Spec
CONSTANTS
    TimerIds = {a, b}
    Tickers = {reactor}
    Delays = {0, 3, 9}
    NumLevels = 3
    LevelSize <- ThreeLevels
    Span <- ThreeSpans
    MaxClock = 10
    TickModulus = 64
    MayPanic = FALSE
    Once = Once
    None = None
SYMMETRY IdSymmetry
INVARIANTS
    TypeOK
    AccountedFor
    NothingSkipped
    CachesRight
    NeverEarly
    InDeadlineOrder
    CancelHolds
    InFlightTracked
