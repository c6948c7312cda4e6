------------------------------ MODULE MCRunner ------------------------------
(* BotRunner in several environments: a behaviour picks one in its first     *)
(* state and keeps it.  The .cfg gives the bounds and the switches of one, a  *)
(* rule bot on IBKR: closes do not wait for cancels, orders are rejected late; *)
(* odd lists at two calls.                                                   *)
EXTENDS BotRunner

VARIABLE setup

mcvars == <<vars, setup>>

\* A graph bot on Alpaca under fair polling, odd lists at three calls.
Graph == INSTANCE BotRunner_proofs WITH
    Kind <- "graph", Broker <- "alpaca", OddAt <- {"check", "verify", "entry"}, MaxOrders <- 4

Polling == {"graph", "ibkr"}

\* The other setups are of a rule bot on Alpaca.

\* Stop and a crash at any await, lost replies and resent orders.
Crashing == INSTANCE BotRunner_proofs WITH
    Broker <- "alpaca", OddAt <- {},
    MayStop <- TRUE, MayLoseReply <- TRUE, MaxOrders <- 3, MaxCrash <- 1

\* The same with slow fills.
Slow == INSTANCE BotRunner_proofs WITH
    Broker <- "alpaca", OddAt <- {},
    Prompt <- FALSE, MayStop <- TRUE, MayLoseReply <- TRUE, MaxOrders <- 3,
    MaxOutside <- 0, MaxCrash <- 1

\* With a manual Buy and an adopted position, or with a manual Buy and Stop.
Adopting == INSTANCE BotRunner_proofs WITH
    Broker <- "alpaca", OddAt <- {},
    Prompt <- FALSE, MayManualBuy <- TRUE, MayLoseReply <- TRUE, MaxOrders <- 2,
    MaxOutside <- 0, MaxAdopt <- 1, MaxCrash <- 1
Buying == INSTANCE BotRunner_proofs WITH
    Broker <- "alpaca", OddAt <- {},
    Prompt <- FALSE, MayStop <- TRUE, MayManualBuy <- TRUE, MayLoseReply <- TRUE,
    MaxOrders <- 2, MaxOutside <- 0

\* The newest bar a setup sees.
LastBar == IF setup = "ibkr" THEN MaxBar ELSE IF setup = "graph" THEN 3 ELSE 2

MCInit == Init /\ setup \in Polling \cup {"crashing", "slow", "adopting", "buying"}

MCNext ==
    /\ \/ setup = "graph" /\ Graph!Next
       \/ setup = "ibkr" /\ Next
       \/ setup = "crashing" /\ Crashing!Next
       \/ setup = "slow" /\ Slow!Next
       \/ setup = "adopting" /\ Adopting!Next
       \/ setup = "buying" /\ Buying!Next
    /\ UNCHANGED setup
    /\ bar' <= LastBar

\* Fair polling of the graph bot, as FairSpec has it.
Fair(A) == setup = "graph" /\ UNCHANGED setup /\ Graph!Runs(A)

MCSpec ==
    /\ MCInit
    /\ [][MCNext]_mcvars
    /\ WF_mcvars(Fair(Graph!TickStart \/ Graph!CheckStep \/ Graph!EntryStep
                      \/ Graph!ExitStep))
    /\ SF_mcvars(Fair(Graph!TickStart))
    /\ SF_mcvars(Fair(Graph!CheckHeld))
    /\ SF_mcvars(Fair(Graph!VerifyOk))

\* The properties, each in the setups it is about.
NoStackingIbkr == setup = "ibkr" => NoStacking
NeverDropHeldPolling == [][(setup \in Polling => DropsOnlyFlat)]_vars
OnlyOwnFillsPolling ==
    [][(setup = "graph" => Graph!BooksOwnFill) /\ (setup = "ibkr" => BooksOwnFill)]_vars
DueExitIsSentFair == setup = "graph" => DueExitIsSent
RowsMatchClosesTold == setup \in {"graph", "crashing"} => RowsMatchCloses
=============================================================================
