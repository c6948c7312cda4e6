----------------------------- MODULE MCSession ------------------------------
(* GraphSession with two graphs in four environments; a behaviour picks one    *)
(* in its first state and keeps it.                                          *)
EXTENDS GraphSession, TLC

CONSTANTS g1, g2

VARIABLE setup

mcvars == <<vars, setup>>

MCGraphs == {g1, g2}
Stored2 == {MCGraphs}

\* Nothing tells the graphs apart; the properties are safety properties.
EitherGraph == Permutations(MCGraphs)

\* One graph is stored at first: the other is there once the window has saved as it;
\* without deaths, and with one edit that the page may die with.
Single == {{g} : g \in MCGraphs}
One == INSTANCE GraphSession WITH First <- Single, MaxRev <- 2, MaxDie <- 0
Dying == INSTANCE GraphSession WITH First <- Single, MaxRev <- 2, MaxEdit <- 1

\* One graph only, with one version more: enough for a conflict to be left, met again and
\* overwritten.
Deep == INSTANCE GraphSession WITH First <- Single, MaxRev <- 4

MCInit ==
    \/ setup = "both" /\ Init
    \/ setup = "one" /\ One!Init
    \/ setup = "dying" /\ Dying!Init
    \/ setup = "deep" /\ Deep!Init

MCNext ==
    /\ \/ setup = "both" /\ Next
       \/ setup = "one" /\ One!Next
       \/ setup = "dying" /\ Dying!Next
       \/ /\ setup = "deep" /\ Deep!Next
          /\ \A g \in MCGraphs : log[g] = <<>> => log'[g] = <<>>
    /\ UNCHANGED setup

MCSpec == MCInit /\ [][MCNext]_mcvars
=============================================================================
