\* Safety, refinement and liveness: as many tasks as workers, two priorities.
SPECIFICATION FairSpec
CONSTANTS
    Tasks = {a, b}
    Workers = {v, w}
    Priorities = {0, 1}
    None = None
INVARIANTS
    TypeOK
    MetricsAddUp
    WakeupPerTask
    NoTaskLeftBehind
PROPERTIES
    ImplementsService
    SubmittedTasksRun
CHECK_DEADLOCK FALSE
