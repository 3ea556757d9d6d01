\* A cancel between the two critical sections of tick().
SPECIFICATION Spec
CONSTANTS
    TimerIds = {a}
    Tickers = {reactor}
    Delays = {1}
    NumLevels = 2
    LevelSize <- TwoLevels
    Span <- TwoSpans
    MaxClock = 4
    TickModulus = 64
    MayPanic = FALSE
    Once = Once
    None = None
INVARIANTS
    CancelSeesTimers
