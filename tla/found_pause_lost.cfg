SPECIFICATION MCSpec
CONSTANTS
    b1 = b1
    b2 = b2
    Bots <- MCBots
    Configs <- MCConfigs
    First <- MCFirst
    MayEdit = {}
    MayDelete = FALSE
    MayRefuse = FALSE
    MayFail = FALSE
    Tests = "any"
    Overlap = FALSE
    MaxDown = 0
PROPERTIES PauseEnds
CHECK_DEADLOCK FALSE
