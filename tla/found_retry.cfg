SPECIFICATION Spec
CONSTANTS
    Callers = {c1}
    Retries = 3
    MaxDrops = 1
INVARIANTS FailedWasRetried
CHECK_DEADLOCK FALSE
