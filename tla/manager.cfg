SPECIFICATION MCSpec
CONSTANTS
    b1 = b1
    b2 = b2
    Bots <- MCBots
    Configs <- MCConfigs
    First <- MCFirst
    MayEdit = {b1}
    MayDelete = TRUE
    MayRefuse = TRUE
    MayFail = TRUE
    Tests = "idle"
    Overlap = FALSE
    MaxDown = 2
INVARIANTS CardMatchesRun NeverSilentlyOff NoConflictingRuns
PROPERTIES ResumesAll StopSticks PauseEnds
CHECK_DEADLOCK FALSE
