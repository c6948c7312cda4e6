SPECIFICATION Spec
CONSTANTS
    Kind = "rule"
    Broker = "alpaca"
    OddAt = {"postclose"}
    OddTwice = FALSE
    Prompt = TRUE
    MayStop = FALSE
    MayManualBuy = FALSE
    MayLoseReply = FALSE
    MaxBar = 3
    MaxOrders = 3
    MaxOutside = 1
    MaxAdopt = 0
    MaxCrash = 0
PROPERTIES NeverDropHeld
