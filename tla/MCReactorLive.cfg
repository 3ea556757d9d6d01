SPECIFICATION FairSpec
CONSTANTS
  NumWorkers = 1
  Terminate = Terminate
  s1 = s1
  waker = waker
  Sources <- OneSource
  Waker = waker
  TokenOf <- OneToken
  InterestOf <- Reads
  None = None
  Callers = {c1}
  Loop = loop
  Options <- AmplePool
  PollTimeout = 9
  Delays = {1}
  MayPanic = TRUE
  MayInterrupt = FALSE
  MaxClock = 2
  MaxLag = 1
  MaxEvents = 2
INVARIANTS StopIsHeard PollInTime
PROPERTIES TimersFire StopEndsRun ReadinessServed PoolDropEnds
CHECK_DEADLOCK FALSE
