\* drop() against a worker that is about to wait.
SPECIFICATION FairSpec
CONSTANTS
    Tasks = {a}
    Workers = {w}
    Priorities = {0, 1}
    None = None
PROPERTIES
    DropReturns
CHECK_DEADLOCK FALSE
