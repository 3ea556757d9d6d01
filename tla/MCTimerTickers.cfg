\* Two threads call tick() on one wheel of two levels and an overflow list,
\* callbacks may panic.  No symmetry: liveness.
SPECIFICATION FairSpec
CONSTANTS
    TimerIds = {a}
    Tickers = {t1, t2}
    Delays = {0, 3, 5}
    NumLevels = 2
    LevelSize <- TwoLevels
    Span <- TwoSpans
    MaxClock = 6
    TickModulus = 64
    MayPanic = TRUE
    Once = Once
    None = None
INVARIANTS
    FiresOnce
PROPERTIES
    DueTimersLeave
CHECK_DEADLOCK FALSE
