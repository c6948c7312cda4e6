--------------------------- MODULE MCRunner_proofs ---------------------------
(* Proofs about the setups of the run "runner": what BotRunner_proofs shows of a  *)
(* bot holds of the bot of each setup, whose constants the setup gives.          *)
EXTENDS MCRunner, BotRunner_proofs

-----------------------------------------------------------------------------
(* What the setups' constants give.                                        *)

\* What a setup's instance of BotRunner_proofs takes for granted of its constants, and what
\* its theorems ask of them.
LEMMA SetupsFit ==
    ASSUME Calm
    PROVE  /\ Graph!Calm /\ Crashing!Told
           /\ {"check", "verify", "entry"} \subseteq Graph!Sites /\ {} \subseteq Crashing!Sites
  BY DEF Calm, Graph!Calm, Crashing!Told, Graph!Sites, Crashing!Sites

-----------------------------------------------------------------------------
(* The graph bot.                                                          *)

LEMMA GraphInit == ASSUME Init PROVE Graph!HeldInv /\ Graph!RowsInv
<1>1. Graph!Init
  BY DEF Init, Graph!Init, FreshMem, Graph!FreshMem, Bars, Graph!Bars, NoTime, Graph!NoTime,
         NoOrder, Graph!NoOrder, NoBar, Graph!NoBar, NoManual, Graph!NoManual
<1> QED
  BY <1>1, Graph!HeldInit, Graph!RowsInit, SwitchAssumption, BoundAssumption DEF Graph!Sites

LEMMA GraphKept ==
    ASSUME Calm, Graph!HeldInv, Graph!RowsInv, [Graph!Next]_vars
    PROVE  Graph!TypeOK' /\ Graph!HeldInv' /\ Graph!RowsInv'
<1>1. [Graph!Next]_(Graph!vars)
  BY DEF vars, Graph!vars
<1>2. Graph!TypeOK
  BY DEF Graph!HeldInv
<1>3. Graph!TypeOK'
  BY <1>1, <1>2, SetupsFit, Graph!TypeKept, SwitchAssumption, BoundAssumption
<1>4. Graph!HeldInv'
  BY <1>1, <1>3, SetupsFit, Graph!HeldInductive, SwitchAssumption, BoundAssumption
<1>5. Graph!RowsInv'
  BY <1>1, <1>3, SetupsFit, Graph!OtherRows, Graph!TickRows, SwitchAssumption, BoundAssumption
<1> QED
  BY <1>3, <1>4, <1>5

-----------------------------------------------------------------------------
(* The bot that crashes, is stopped and loses replies.                     *)

LEMMA CrashingInit == ASSUME Init PROVE Crashing!ToldInv
<1>1. Crashing!Init
  BY DEF Init, Crashing!Init, FreshMem, Crashing!FreshMem, Bars, Crashing!Bars, NoTime,
         Crashing!NoTime, NoOrder, Crashing!NoOrder, NoBar, Crashing!NoBar, NoManual,
         Crashing!NoManual
<1> QED
  BY <1>1, Crashing!ToldInit, KindAssumption, SwitchAssumption, BoundAssumption DEF Crashing!Sites

LEMMA CrashingKept ==
    ASSUME Calm, Crashing!ToldInv, [Crashing!Next]_vars PROVE Crashing!ToldInv'
<1>1. [Crashing!Next]_(Crashing!vars)
  BY DEF vars, Crashing!vars
<1>2. Crashing!TypeOK
  BY DEF Crashing!ToldInv
<1>3. Crashing!TypeOK'
  BY <1>1, <1>2, SetupsFit, Crashing!TypeKept, KindAssumption, SwitchAssumption, BoundAssumption
<1> QED
  BY <1>1, <1>3, SetupsFit, Crashing!ToldInductive, KindAssumption, SwitchAssumption, BoundAssumption

-----------------------------------------------------------------------------
(* All setups.                                                             *)

SetupsInv ==
    /\ setup = "ibkr" => HeldInv
    /\ setup = "graph" => Graph!HeldInv /\ Graph!RowsInv
    /\ setup = "crashing" => Crashing!ToldInv

\* A step is one of the setup's own bot.
LEMMA StepIsOf ==
    ASSUME [MCNext]_mcvars
    PROVE  /\ setup' = setup
           /\ setup = "ibkr" => [Next]_vars
           /\ setup = "graph" => [Graph!Next]_vars
           /\ setup = "crashing" => [Crashing!Next]_vars
  BY DEF MCNext, mcvars

LEMMA SetupsInit == ASSUME MCInit PROVE SetupsInv
  BY HeldInit, GraphInit, CrashingInit DEF MCInit, SetupsInv

LEMMA SetupsKept == ASSUME Calm, SetupsInv, [MCNext]_mcvars PROVE SetupsInv'
<1>1. CASE setup = "ibkr"
  <2>1. [Next]_vars /\ HeldInv /\ setup' = "ibkr"
    BY <1>1, StepIsOf DEF SetupsInv
  <2>2. TypeOK'
    BY <2>1, TypeKept DEF HeldInv
  <2> QED
    BY <2>1, <2>2, HeldInductive DEF SetupsInv
<1>2. CASE setup = "graph"
  BY <1>2, StepIsOf, GraphKept DEF SetupsInv
<1>3. CASE setup = "crashing"
  BY <1>3, StepIsOf, CrashingKept DEF SetupsInv
<1>4. CASE setup \notin {"ibkr", "graph", "crashing"}
  BY <1>4, StepIsOf DEF SetupsInv
<1> QED
  BY <1>1, <1>2, <1>3, <1>4

LEMMA SetupsHold == ASSUME Calm PROVE MCSpec => []SetupsInv
<1>1. SetupsInv /\ [MCNext]_mcvars => SetupsInv'
  BY SetupsKept
<1> QED
  BY <1>1, SetupsInit, PTL DEF MCSpec

\* A bot on IBKR, whose closes wait for no cancel and whose orders may be refused late,
\* never stacks a second position on one it holds.
THEOREM NeverStacksIbkr == ASSUME Calm PROVE MCSpec => []NoStackingIbkr
<1>1. SetupsInv => NoStackingIbkr
  BY DEF SetupsInv, HeldInv, BuysFit, NoStacking, NoStackingIbkr
<1> QED
  BY <1>1, SetupsHold, PTL

\* A row stands for a closing of the position, or for a crash after which it was written
\* again, of a graph bot on Alpaca that gets odd lists and of a rule bot on Alpaca that
\* crashes, is stopped and loses replies.
THEOREM SetupRowsMatch == ASSUME Calm PROVE MCSpec => []RowsMatchClosesTold
<1>1. SetupsInv => RowsMatchClosesTold
  <2>1. setup = "graph" /\ SetupsInv => RowsMatchCloses
    BY SetupsFit, Graph!RowsBound, SwitchAssumption, BoundAssumption
       DEF SetupsInv, RowsMatchCloses, Graph!RowsMatchCloses
  <2>2. setup = "crashing" /\ SetupsInv => RowsMatchCloses
    BY SetupsFit, Crashing!ToldBound, KindAssumption, SwitchAssumption, BoundAssumption
       DEF SetupsInv, RowsMatchCloses, Crashing!RowsMatchCloses
  <2> QED
    BY <2>1, <2>2 DEF RowsMatchClosesTold
<1> QED
  BY <1>1, SetupsHold, PTL

\* No poll of the two bots, with the odd lists each gets, forgets a position that the
\* broker held since the bot began to track it.
THEOREM SetupForgetsOnlyGone == ASSUME Calm PROVE MCSpec => NeverDropHeldPolling
<1>1. SetupsInv /\ [MCNext]_mcvars => (setup \in Polling => DropsOnlyFlat)
  <2>1. ASSUME SetupsInv, [MCNext]_mcvars, setup = "ibkr" PROVE DropsOnlyFlat
    <3>1. [Next]_vars /\ HeldInv
      BY <2>1, StepIsOf DEF SetupsInv
    <3>2. TypeOK'
      BY <3>1, TypeKept DEF HeldInv
    <3> QED
      BY <3>1, <3>2, ForgetsGone
  <2>2. ASSUME SetupsInv, [MCNext]_mcvars, setup = "graph" PROVE DropsOnlyFlat
    <3>1. [Graph!Next]_vars /\ Graph!HeldInv /\ Graph!RowsInv
      BY <2>2, StepIsOf DEF SetupsInv
    <3>2. Graph!TypeOK'
      BY <3>1, GraphKept
    <3>3. [Graph!Next]_(Graph!vars)
      BY <3>1 DEF vars, Graph!vars
    <3>4. Graph!DropsOnlyFlat
      BY <3>1, <3>2, <3>3, SetupsFit, Graph!ForgetsGone, SwitchAssumption, BoundAssumption
    <3> QED
      BY <3>4 DEF DropsOnlyFlat, Graph!DropsOnlyFlat
  <2> QED
    BY <2>1, <2>2 DEF Polling
<1> QED
  BY <1>1, SetupsHold, PTL DEF MCSpec, NeverDropHeldPolling

\* What the two bots take as the close of the position is a fill that came after it was
\* opened.
THEOREM SetupBooksOwnFills == ASSUME Calm PROVE MCSpec => OnlyOwnFillsPolling
<1> DEFINE Own == (setup = "graph" => Graph!BooksOwnFill) /\ (setup = "ibkr" => BooksOwnFill)
<1>1. SetupsInv => Own
  <2>1. setup = "ibkr" /\ SetupsInv => BooksOwnFill
    BY BooksOwn DEF SetupsInv
  <2>2. setup = "graph" /\ SetupsInv => Graph!BooksOwnFill
    BY SetupsFit, Graph!BooksOwn, SwitchAssumption, BoundAssumption DEF SetupsInv
  <2> QED
    BY <2>1, <2>2
<1> HIDE DEF Own
<1>2. MCSpec => [][Own]_vars
  BY <1>1, SetupsHold, PTL
<1> QED
  BY <1>2 DEF OnlyOwnFillsPolling, Own
=============================================================================
