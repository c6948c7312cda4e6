SPECIFICATION MCSpec
CONSTANTS
    Callers = {c1}
    Retries = 3
    MaxDrops = 2
    HealAfter = 1
    MinInterval = 2
    MaxInterval = 3
    FastAttempts = 2
    HealRealert = 4
    Realert = 2
    RegisterEvery = 2
    Others = TRUE
    OddAt = {"check", "verify"}
    StopAt = "exits"
    MayUpdate = TRUE
    MayCrash = FALSE
    MaxWorkers = 2
    MinForPool = 2
    MaxWindows = 2
    CutEmpty = FALSE
    FlipMode = "close_and_reverse"
    FlipOdd = {"check", "entry"}
    MayDisturb = TRUE
INVARIANTS ToldInTime SentOnce PausedBotIsFlat CutOffIsTold
PROPERTIES KeepsGood RestartsNeverStop Reconnects BarCountedOnce FlatBotPauses EntersOnlyFlat RegimeWins RunEndsClean
CHECK_DEADLOCK FALSE
