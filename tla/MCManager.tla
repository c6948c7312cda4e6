----------------------------- MODULE MCManager ------------------------------
(* BotManager in two environments; a behaviour picks one in its first state  *)
(* and keeps it.                                                             *)
EXTENDS BotManager

CONSTANTS b1, b2

VARIABLE setup

mcvars == <<vars, setup>>

Long == [symbol |-> "X", side |-> "long"]
Both == [symbol |-> "X", side |-> "both"]
Other == [symbol |-> "Y", side |-> "long"]
MCConfigs == {Long, Both, Other}
MCBots == {b1, b2}
MCFirst == [b \in {b1} |-> Long]

\* Two bots that conflict once b1 is edited.
Two == INSTANCE BotManager WITH
    First <- [b \in Bots |-> IF b = b1 THEN Other ELSE Long],
    MayDelete <- FALSE, MayRefuse <- FALSE, MayFail <- FALSE, Tests <- "none", MaxDown <- 0

\* The whole life of one bot, or two bots side by side.
MCInit ==
    \/ setup = "life" /\ Init
    \/ setup = "two" /\ Two!Init

MCNext ==
    /\ \/ setup = "life" /\ Next
       \/ setup = "two" /\ Two!Next
    /\ UNCHANGED setup

MCSpec ==
    /\ MCInit /\ [][MCNext]_mcvars
    /\ WF_mcvars(setup = "life" /\ RunEnds(b1) /\ UNCHANGED setup)

\* One bot runs in the first environment.
PauseEnds == setup = "life" => PauseEndsRun
=============================================================================
