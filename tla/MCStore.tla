------------------------------- MODULE MCStore -------------------------------
(* What the bots keep together, each on a small instance: bots.json and the     *)
(* fund.  A behaviour picks one in its first state and keeps it.               *)
EXTENDS BotStore

\* Of the fund.
CONSTANTS Configs, Amounts, MayEdit, Overlap, MaxRaise, None

CONSTANTS t1, t2, b1, b2, b3, x1, x2, x3

VARIABLES
    setup,
    fund, bots, disk, addLock, saveLock, req, spawned, raised, downs

fundvars == <<fund, bots, disk, addLock, saveLock, req, spawned, raised, downs>>

\* The store: two threads, a file of two bots with an unreadable row before, between and
\* after them, and one bot to add.
MCThreads == {t1, t2}
MCBots == {b1, b2, b3}
MCBad == {x1, x2, x3}
MCRows == <<x1, b1, x2, b2, x3>>
MCFewRows == <<b1, x1>>

\* The fund: two threads and room for one spawn and one add; and with edits, room for two
\* bots.
Bot(side, capital) == [symbol |-> "X", side |-> side, capital |-> capital]
MCConfigs == {Bot("long", 1), Bot("short", 2)}
Fund == INSTANCE BotFund WITH th <- req
Room == IF setup = "edits" THEN {b1, b2} ELSE Bots
FundStep ==
    /\ Fund!Next
    /\ \A t \in Threads : /\ DOMAIN req'[t].new \subseteq Room
                         /\ req'[t].op = "edit" => setup = "edits"

MCInit ==
    /\ Init /\ Fund!Init
    /\ setup \in {"store", "fund", "edits"}
    /\ setup = "store" => fund = 0

MCNext ==
    /\ \/ setup = "store" /\ Next /\ UNCHANGED fundvars
       \/ setup \in {"fund", "edits"} /\ FundStep /\ UNCHANGED vars
    /\ UNCHANGED setup

MCSpec == MCInit /\ [][MCNext]_<<setup, vars, fundvars>>

WithinFund == Fund!WithinFund
=============================================================================
