SPECIFICATION MCSpec
CONSTANTS
    t1 = t1
    t2 = t2
    b1 = b1
    b2 = b2
    b3 = b3
    x1 = x1
    x2 = x2
    x3 = x3
    None = None
    Configs <- MCConfigs
    Amounts = {0, 2, 3}
    MayEdit = TRUE
    Overlap = FALSE
    MaxRaise = 1
    Threads <- MCThreads
    Bots <- MCBots
    Bad <- MCBad
    FirstRows <- MCRows
    Apart = TRUE
    MaxVer = 3
    MaxDown = 1
INVARIANTS BadRowsKept AddAllOrNothing WithinFund
PROPERTIES NewestLands
CHECK_DEADLOCK FALSE
