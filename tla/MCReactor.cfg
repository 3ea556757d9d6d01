SPECIFICATION Spec
CONSTANTS
  NumWorkers = 2
  Terminate = Terminate
  s1 = s1
  waker = waker
  Sources <- OneSource
  Waker = waker
  TokenOf <- OneToken
  InterestOf <- Reads
  None = None
  Callers = {c1}
  Loop = loop
  Options <- AllModes
  PollTimeout = 1
  Delays = {}
  MayPanic = TRUE
  MayInterrupt = TRUE
  MaxClock = 0
  MaxLag = 1
  MaxEvents = 2
INVARIANTS TypeOK ReadinessAccounted AcceptedTasksRun
CHECK_DEADLOCK FALSE
