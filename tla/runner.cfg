SPECIFICATION MCSpec
CONSTANTS
    Kind = "rule"
    Broker = "ibkr"
    OddAt = {"check", "verify"}
    OddTwice = FALSE
    Prompt = TRUE
    MayStop = FALSE
    MayManualBuy = FALSE
    MayLoseReply = FALSE
    MaxBar = 4
    MaxOrders = 5
    MaxOutside = 1
    MaxAdopt = 0
    MaxCrash = 0
INVARIANTS CloseOncePerBar PriceExitsOncePerBar RowsMatchClosesTold NoStackingIbkr
PROPERTIES NeverDropHeldPolling OnlyOwnFillsPolling DueExitIsSentFair
