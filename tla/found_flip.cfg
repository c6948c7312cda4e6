SPECIFICATION Spec
CONSTANTS
    OnFlip = "close_and_reverse"
    OddAt = {}
    MayDisturb = FALSE
PROPERTIES FlipsAgainstRegime
CHECK_DEADLOCK FALSE
