-------------------------- MODULE BotRunner_proofs --------------------------
(***************************************************************************)
(* Proofs about one bot's polling loop, for every value of the constants:   *)
(* the type invariant; that a run of the bot sends at most one close order  *)
(* and looks at the price exits at most once on each bar; and what becomes  *)
(* of a held position while only the bot's own loop acts on it.             *)
(***************************************************************************)
EXTENDS BotRunner, TLAPS

-----------------------------------------------------------------------------
(* The strengthening.  A tick works on bar bot.lastBar, and mem.prevBar is  *)
(* the bar it goes back to when it fails.                                   *)

Running == live # "off"
BeforeClose == {"check", "confirm", "verify", "cancel", "close"}

\* A task that is not running sits at no await.
OffSleeps == ~Running => pc = "sleep"

\* Neither the state in memory nor the saved one is ahead of the data provider.
BarsInOrder ==
    /\ bot.lastBar <= bar /\ disk.lastBar <= bar
    /\ Running /\ pc # "sleep" => mem.prevBar < bot.lastBar

\* Until a tick's close goes out, closes were only sent on bars a failed tick does not
\* go back over; later, on no bar after the one it works on.
ClosesBehind ==
    Running => \A b \in Bars : hist.closes[b] > 0
                 => b <= IF pc \in BeforeClose THEN mem.prevBar ELSE bot.lastBar

\* The price exits were looked at on no bar after the one the tick works on, and a bar
\* that will be worked on again is remembered in mem.exitsBar.
EvalsBehind ==
    Running => \A b \in Bars : hist.evals[b] > 0
                 => /\ b <= IF pc = "sleep" THEN bar ELSE bot.lastBar
                    /\ pc \in {"check", "confirm"} /\ b = bot.lastBar => mem.exitsBar = b
                    /\ pc = "sleep" /\ b = bar => b \in {bot.lastBar, mem.exitsBar}

OncePerBarInv ==
    /\ TypeOK /\ OffSleeps /\ BarsInOrder /\ ClosesBehind /\ EvalsBehind
    /\ CloseOncePerBar /\ PriceExitsOncePerBar
-----------------------------------------------------------------------------
(* What the state updates keep.                                            *)

\* A count per bar is a natural number, and so is one more.
LEMMA OnBars ==
    ASSUME NEW f \in [Bars -> Nat], NEW b \in Bars
    PROVE  f[b] \in Nat /\ f[b] + 1 \in Nat
  OBVIOUS

\* Setting the count of one bar keeps a count per bar.
LEMMA SetBar ==
    ASSUME NEW f \in [Bars -> Nat], NEW b, NEW n, b \in Bars => n \in Nat
    PROVE  [f EXCEPT ![b] = n] \in [Bars -> Nat]
  OBVIOUS

\* The number of closing fills, the model's clock of the broker, is a natural number.
LEMMA FillCount == TypeOK => Len(acct.fills) \in Nat
  BY DEF TypeOK, Accounts

\* Beginning to track a position keeps the history well typed.
LEMMA TrackingType ==
    ASSUME TypeOK, NEW h \in Histories PROVE Tracking(h) \in Histories
<1>1. (acct.pos <= 0) \in BOOLEAN
  OBVIOUS
<1>2. ASSUME NEW n \in Nat, NEW b \in BOOLEAN
      PROVE  [h EXCEPT !.wasGone = b, !.since = n] \in Histories
  BY DEF Histories
<1> QED
  BY <1>1, <1>2, FillCount, Zenon DEF Tracking

\* A look at the price exits keeps the history well typed.
LEMMA LookedType ==
    ASSUME NEW h \in Histories, NEW b PROVE Looked(h, b) \in Histories
<1>1. ASSUME NEW e \in [Bars -> Nat] PROVE [h EXCEPT !.evals = e] \in Histories
  BY DEF Histories
<1>2. h.evals \in [Bars -> Nat]
  BY DEF Histories
<1>3. b \in Bars => (IF mem.exitsBar = b THEN h.evals[b] ELSE h.evals[b] + 1) \in Nat
  BY <1>2, OnBars, Zenon
<1> QED
  BY <1>1, <1>2, <1>3, SetBar, Zenon DEF Looked

\* Looking at the exits on a bar keeps the history well typed.
LEMMA EvaluateType ==
    ASSUME TypeOK, NEW due, NEW checked, Evaluate(due, checked) PROVE hist' \in Histories
<1>1. hist \in Histories
  BY DEF TypeOK
<1>2. (IF bot.tracked THEN hist ELSE Tracking(hist)) \in Histories
  BY <1>1, TrackingType, Zenon
<1> QED
  BY <1>2, LookedType, Zenon DEF Evaluate

\* Sending a close keeps the history well typed.
LEMMA SentType ==
    ASSUME TypeOK PROVE Sent(hist) \in Histories
<1>1. ASSUME NEW e \in [Bars -> Nat], NEW s \in SUBSET Nat
      PROVE  [hist EXCEPT !.closes = e, !.blind = s] \in Histories
  BY DEF Histories, TypeOK
<1>2. hist.closes \in [Bars -> Nat] /\ hist.blind \in SUBSET Nat /\ acct.nextId \in Nat
  BY DEF Histories, Accounts, TypeOK
<1>3. bot.lastBar \in Bars => hist.closes[bot.lastBar] + 1 \in Nat
  BY <1>2, OnBars, Zenon
<1>4. (IF mem.checked THEN hist.blind ELSE hist.blind \cup {acct.nextId}) \in SUBSET Nat
  BY <1>2
<1> QED
  BY <1>1, <1>2, <1>3, <1>4, SetBar, Zenon DEF Sent

\* Booking an exit row keeps the history well typed.
LEMMA BookedType ==
    ASSUME TypeOK PROVE Booked(hist) \in Histories
  BY DEF Booked, Histories, TypeOK

\* The updates of BotState that several paths share keep it well typed.
LEMMA BotUpdates ==
    ASSUME TypeOK, NEW b \in BotStates
    PROVE  /\ Cleared(b) \in BotStates /\ ClearedAll(b) \in BotStates
           /\ Entered(b) \in BotStates /\ Resumed(b) \in BotStates
           /\ \A p \in BOOLEAN : [b EXCEPT !.paused = p] \in BotStates
<1>1. Cleared(b) \in BotStates
  BY DEF Cleared, BotStates, NoOrder
<1>2. ClearedAll(b) \in BotStates
  BY <1>1 DEF ClearedAll, BotStates, NoTime
<1>3. ASSUME NEW n \in Int
      PROVE  [b EXCEPT !.tracked = TRUE, !.entryTime = n] \in BotStates
  BY DEF BotStates
<1>4. Len(acct.fills) \in Int /\ b.entryTime \in Int
  BY FillCount DEF BotStates
<1>5. Entered(b) \in BotStates
  BY <1>3, <1>4, Zenon DEF Entered
<1>6. Resumed(b) \in BotStates
  <2>1. CASE b.tracked \/ b.entryTime # NoTime
    BY <2>1, <1>3, <1>4, Zenon DEF Resumed
  <2>2. CASE ~(b.tracked \/ b.entryTime # NoTime)
    BY <2>2, <1>3, <1>4, Zenon DEF Resumed
  <2> QED
    BY <2>1, <2>2
<1>7. ASSUME NEW p \in BOOLEAN PROVE [b EXCEPT !.paused = p] \in BotStates
  BY DEF BotStates
<1> QED
  BY <1>1, <1>2, <1>5, <1>6, <1>7

\* A tick that raises leaves memory and bots.json well typed.
LEMMA FailTickType ==
    ASSUME TypeOK, FailTick
    PROVE  bot' \in BotStates /\ disk' \in BotStates /\ pc' \in PCs
<1>1. RestoreBar \in BotStates
  BY DEF RestoreBar, BotStates, TypeOK, Memories
<1> QED
  BY <1>1 DEF FailTick, PCs

\* An accepted order keeps the account well typed.
LEMMA WithOrderType ==
    ASSUME TypeOK, NEW side \in Side, NEW q \in Nat PROVE WithOrder(side, q) \in Accounts
<1>1. [id |-> acct.nextId, side |-> side, qty |-> q, working |-> TRUE] \in Order
  BY DEF TypeOK, Accounts, Order
<1>2. ASSUME NEW o \in SUBSET Order, NEW n \in Nat
      PROVE  [acct EXCEPT !.orders = o, !.nextId = n] \in Accounts
  BY DEF TypeOK, Accounts
<1>3. acct.orders \in SUBSET Order /\ acct.nextId + 1 \in Nat
  BY DEF TypeOK, Accounts
<1>4. ASSUME NEW o \in Order PROVE acct.orders \cup {o} \in SUBSET Order
  BY <1>3
<1> QED
  BY <1>1, <1>2, <1>3, <1>4, Zenon DEF WithOrder

\* So does an accepted entry order of one share.
LEMMA BuyType ==
    ASSUME TypeOK PROVE WithOrder("buy", 1) \in Accounts
  BY WithOrderType DEF Side

\* So does an accepted close of the whole live position.
LEMMA WithCloseType ==
    ASSUME TypeOK PROVE WithClose \in Accounts
<1>1. CASE acct.pos > 0
  BY <1>1, WithOrderType DEF TypeOK, Accounts, WithClose, Side
<1>2. CASE ~(acct.pos > 0)
  <2>1. -acct.pos \in Nat
    BY <1>2 DEF TypeOK, Accounts
  <2> QED
    BY <2>1, <1>2, WithOrderType DEF WithClose, Side
<1> QED
  BY <1>1, <1>2

\* An answer's empty flag is a Boolean.
LEMMA AnswerType ==
    ASSUME NEW site, NEW a \in Answers(site) PROVE a.empty \in BOOLEAN
<1>1. \E s, e : a = [sees |-> s, empty |-> e] /\ e \in BOOLEAN
  BY Zenon DEF Answers
<1> QED
  BY <1>1
-----------------------------------------------------------------------------
(* Type correctness.                                                       *)

TickTypes ==
    acct \in Accounts /\ bot \in BotStates /\ disk \in BotStates
    /\ mem \in Memories /\ pc \in PCs /\ hist \in Histories

\* The steps before the position check keep TypeOK.
LEMMA StartType ==
    ASSUME TypeOK, TickStart \/ IdlePoll \/ GraphRefused \/ IndicatorError \/ CookError
    PROVE  TickTypes'
<1> USE DEF TypeOK, TickTypes
<1>1. CASE TickStart
  BY <1>1 DEF TickStart, BotStates, Memories, PCs, Bars
<1>2. CASE IdlePoll
  BY <1>2 DEF IdlePoll
<1>3. CASE GraphRefused
  BY <1>3, BotUpdates DEF GraphRefused
<1>4. CASE IndicatorError
  BY <1>4 DEF IndicatorError, PCs
<1>5. CASE CookError
  BY <1>5, FailTickType DEF CookError
<1> QED
  BY <1>1, <1>2, <1>3, <1>4, <1>5

\* Booking a close made outside the bot keeps its state well typed.
LEMMA BookOutsideType ==
    ASSUME TypeOK, BookOutside
    PROVE  /\ bot' \in BotStates /\ disk' \in BotStates /\ mem' \in Memories
           /\ pc' \in PCs /\ hist' \in Histories
<1>1. hist' \in Histories
  BY BookedType DEF BookOutside
<1>2. mem' \in Memories
  BY DEF BookOutside, Memories, TypeOK
<1>3. pc' \in PCs
  BY DEF BookOutside, PCs
<1>4. bot \in BotStates
  BY DEF TypeOK
<1>5. /\ Cleared(bot) \in BotStates
      /\ [ClearedAll(bot) EXCEPT !.paused = TRUE] \in BotStates
  BY <1>4, BotUpdates
<1>6. bot' \in BotStates /\ disk' \in BotStates
  BY <1>4, <1>5, Zenon DEF BookOutside
<1> QED
  BY <1>1, <1>2, <1>3, <1>6

\* The position check and its confirmation keep the state well typed.
LEMMA CheckType ==
    ASSUME TypeOK, CheckStep PROVE TickTypes'
<1> USE DEF TypeOK, TickTypes
<1>1. CASE CheckHeld
  <2>1. PICK a \in Answers("check"), due \in BOOLEAN :
          /\ acct' = acct /\ Evaluate(due, TRUE)
          /\ mem' = [mem EXCEPT !.missing = 0, !.checked = TRUE]
          /\ bot' = Resumed(bot) /\ pc' = IF due THEN "verify" ELSE "sleep"
          /\ disk' = disk
    BY <1>1 DEF CheckHeld
  <2>2. acct' \in Accounts
    BY <2>1
  <2>3. mem' \in Memories
    BY <2>1 DEF Memories
  <2>4. hist' \in Histories
    BY <2>1, EvaluateType
  <2>5. bot' \in BotStates
    BY <2>1, BotUpdates
  <2> QED
    BY <2>1, <2>2, <2>3, <2>4, <2>5 DEF PCs
<1>2. CASE CheckFailedFlat
  BY <1>2, FailTickType DEF CheckFailedFlat
<1>3. CASE CheckFailedHeld
  <2>1. PICK due \in BOOLEAN :
          /\ Evaluate(due, FALSE)
          /\ mem' = [mem EXCEPT !.exitsBar = bot.lastBar, !.exitsDue = due, !.checked = FALSE]
          /\ \/ due /\ pc' = "verify" /\ UNCHANGED <<bot, disk>>
             \/ ~due /\ FailTick
    BY <1>3 DEF CheckFailedHeld
  <2>2. mem' \in Memories
    BY <2>1 DEF Memories, BotStates
  <2>3. hist' \in Histories
    BY <2>1, EvaluateType
  <2>4. bot' \in BotStates /\ disk' \in BotStates /\ pc' \in PCs
    BY <2>1, FailTickType DEF PCs
  <2> QED
    BY <1>3, <2>2, <2>3, <2>4 DEF CheckFailedHeld
<1>4. CASE CheckMissing
  <2>1. PICK a \in Answers("check") :
          /\ acct' = acct /\ mem' = [mem EXCEPT !.empty = a.empty]
          /\ IF bot.tracked THEN pc' = "confirm" /\ bot' = bot
                            ELSE pc' = "entry" /\ bot' = Cleared(bot)
    BY <1>4 DEF CheckMissing
  <2>2. a.empty \in BOOLEAN
    BY AnswerType
  <2>3. acct' \in Accounts /\ mem' \in Memories
    BY <2>1, <2>2 DEF Memories
  <2>4. bot' \in BotStates /\ pc' \in PCs
    BY <2>1, BotUpdates DEF PCs
  <2> QED
    BY <1>4, <2>3, <2>4 DEF CheckMissing
<1>5. CASE ConfirmByFill \/ ConfirmByCount
  BY <1>5, BookOutsideType DEF ConfirmByFill, ConfirmByCount
<1>6. CASE NotConfirmed
  <2>1. MissingNow \in Nat
    BY DEF MissingNow, Memories
  <2>2. mem' \in Memories
    BY <1>6, <2>1 DEF NotConfirmed, Memories
  <2> QED
    BY <1>6, <2>2, FailTickType DEF NotConfirmed
<1> QED
  BY <1>1, <1>2, <1>3, <1>4, <1>5, <1>6 DEF CheckStep

\* The entry keeps the state well typed.
LEMMA EntryType ==
    ASSUME TypeOK, EntryStep PROVE TickTypes'
<1> USE DEF TypeOK, TickTypes
<1>1. CASE EntrySkipped \/ EntryGo
  BY <1>1 DEF EntrySkipped, EntryGo, PCs
<1>2. CASE SubmitAccepted
  <2>1. mem' \in Memories
    BY <1>2 DEF SubmitAccepted, Memories, Accounts
  <2> QED
    BY <1>2, <2>1, BuyType DEF SubmitAccepted, PCs
<1>3. CASE SubmitTwice
  <2>2. acct.orders \in SUBSET Order /\ acct.nextId \in Nat /\ acct.nextId + 1 \in Nat
    BY DEF Accounts
  <2>1. mem' \in Memories
    <3>1. ASSUME NEW n \in Nat PROVE [mem EXCEPT !.order = n] \in Memories
      BY DEF Memories
    <3> QED
      BY <1>3, <2>2, <3>1, Zenon DEF SubmitTwice
  <2>3. {[id |-> i, side |-> "buy", qty |-> 1, working |-> TRUE]
            : i \in {acct.nextId, acct.nextId + 1}} \in SUBSET Order
    <3>1. ASSUME NEW i \in Nat
          PROVE  [id |-> i, side |-> "buy", qty |-> 1, working |-> TRUE] \in Order
      BY DEF Order, Side
    <3> QED
      BY <2>2, <3>1
  <2>4. ASSUME NEW o \in SUBSET Order, NEW n \in Nat
        PROVE  [acct EXCEPT !.orders = o, !.nextId = n] \in Accounts
    BY DEF Accounts
  <2>5. ASSUME NEW o \in SUBSET Order PROVE acct.orders \cup o \in SUBSET Order
    BY <2>2
  <2>6. acct.nextId + 2 \in Nat
    BY <2>2
  <2>7. acct' \in Accounts
    BY <1>3, <2>3, <2>4, <2>5, <2>6, Zenon DEF SubmitTwice
  <2> QED
    BY <1>3, <2>1, <2>7 DEF SubmitTwice, PCs
<1>4. CASE SubmitFailed
  BY <1>4, BuyType DEF SubmitFailed, PCs
<1>5. CASE EntryTracked
  BY <1>5, BotUpdates, TrackingType DEF EntryTracked, PCs
<1>6. CASE EntrySave
  BY <1>6 DEF EntrySave, PCs
<1> QED
  BY <1>1, <1>2, <1>3, <1>4, <1>5, <1>6 DEF EntryStep

\* The exit keeps the state well typed.
LEMMA ExitType ==
    ASSUME TypeOK, ExitStep PROVE TickTypes'
<1> USE DEF TypeOK, TickTypes
<1>1. CASE VerifyFailed
  <2>1. NotSent /\ acct' = acct
    BY <1>1 DEF VerifyFailed
  <2>2. mem' \in Memories
    BY <2>1 DEF NotSent, Memories, BotStates
  <2> QED
    BY <2>1, <2>2, FailTickType DEF NotSent
<1>2. CASE VerifyMismatch
  <2>1. bot' \in BotStates
    <3>1. ASSUME NEW n \in Int
          PROVE  [bot EXCEPT !.tracked = FALSE, !.entryTime = n] \in BotStates
      BY DEF BotStates
    <3>2. NoTime \in Int
      BY DEF NoTime
    <3> QED
      BY <1>2, <3>1, <3>2, Zenon DEF VerifyMismatch
  <2> QED
    BY <1>2, <2>1 DEF VerifyMismatch, PCs
<1>3. CASE VerifyOk
  <2>1. hist' \in Histories
    BY <1>3 DEF VerifyOk, Histories
  <2> QED
    BY <1>3, <2>1 DEF VerifyOk, PCs
<1>4. CASE CancelSells
  <2>1. acct.orders \in SUBSET Order
    BY DEF Accounts
  <2>2. (acct.orders \ Sells) \cup {[o EXCEPT !.working = FALSE] : o \in Sells} \in SUBSET Order
    <3>1. ASSUME NEW o \in Order PROVE [o EXCEPT !.working = FALSE] \in Order
      BY DEF Order
    <3> QED
      BY <2>1, <3>1 DEF Sells
  <2>3. ASSUME NEW o \in SUBSET Order PROVE [acct EXCEPT !.orders = o] \in Accounts
    BY DEF Accounts
  <2>4. acct' \in Accounts
    BY <1>4, <2>2, <2>3, Zenon DEF CancelSells
  <2> QED
    BY <1>4, <2>4 DEF CancelSells, PCs
<1>5. CASE CloseAccepted
  <2>1. acct' \in Accounts /\ hist' \in Histories
    BY <1>5, WithCloseType, SentType DEF CloseAccepted
  <2>2. acct.nextId \in Nat
    BY DEF Accounts
  <2>3. bot' \in BotStates /\ disk' \in BotStates
    BY <1>5, <2>2 DEF CloseAccepted, BotStates
  <2>4. mem' \in Memories
    BY <1>5 DEF CloseAccepted, Memories
  <2> QED
    BY <1>5, <2>1, <2>3, <2>4 DEF CloseAccepted, PCs
<1>6. CASE CloseFailed
  <2>1. acct' \in Accounts /\ hist' \in Histories
    BY <1>6, WithCloseType, SentType DEF CloseFailed
  <2>2. mem' \in Memories
    BY <1>6 DEF CloseFailed, Memories
  <2> QED
    BY <1>6, <2>1, <2>2 DEF CloseFailed, PCs
<1>7. CASE PostCloseGivesUp
  BY <1>7 DEF PostCloseGivesUp, PCs
<1>8. CASE PostCloseGone
  <2>1. PICK drawdown \in BOOLEAN :
          bot' = [ClearedAll(bot) EXCEPT !.paused = @ \/ drawdown]
    BY <1>8 DEF PostCloseGone
  <2>2. (ClearedAll(bot).paused \/ drawdown) \in BOOLEAN
    OBVIOUS
  <2>3. bot' \in BotStates
    BY <2>1, <2>2, BotUpdates, Zenon
  <2> QED
    BY <1>8, <2>3, BookedType DEF PostCloseGone, PCs
<1> QED
  BY <1>1, <1>2, <1>3, <1>4, <1>5, <1>6, <1>7, <1>8 DEF ExitStep

\* Every step of the runner's coroutine keeps TypeOK.
LEMMA RunnerType ==
    ASSUME TypeOK, RunnerStep PROVE TypeOK'
<1>1. TickTypes'
  BY StartType, CheckType, EntryType, ExitType DEF RunnerStep, Runs
<1> QED
  BY <1>1 DEF RunnerStep, Runs, TickTypes, TypeOK

\* The broker and the data provider keep TypeOK.
LEMMA BrokerType ==
    ASSUME TypeOK, BrokerStep PROVE TypeOK'
<1> USE DEF TypeOK
<1>1. ASSUME NEW p \in Int, SetPos(p) PROVE hist' \in Histories
  <2>1. ASSUME NEW n \in Nat, NEW f \in BOOLEAN
        PROVE  [hist EXCEPT !.flats = n, !.wasGone = f] \in Histories
    BY DEF Histories
  <2>2. (IF p = 0 /\ acct.pos # 0 THEN hist.flats + 1 ELSE hist.flats) \in Nat
    BY DEF Histories
  <2>3. (hist.wasGone \/ p <= 0) \in BOOLEAN
    OBVIOUS
  <2> QED
    BY <1>1, <2>1, <2>2, <2>3, Zenon DEF SetPos
<1>2. CASE NewBar
  BY <1>2, BoundAssumption DEF NewBar, Bars, outside
<1>3. CASE OutsideClose
  <2>1. acct' \in Accounts
    <3>1. ASSUME NEW q \in Int, NEW s \in Seq(Nat), NEW n \in Nat
          PROVE  [acct EXCEPT !.pos = q, !.fills = s, !.outsideCloses = n] \in Accounts
      BY DEF Accounts
    <3>2. Append(acct.fills, NoOrder) \in Seq(Nat) /\ acct.outsideCloses + 1 \in Nat
      BY DEF Accounts, NoOrder
    <3>3. 0 \in Int
      OBVIOUS
    <3> QED
      BY <1>3, <3>1, <3>2, <3>3, Zenon DEF OutsideClose
  <2> QED
    BY <1>1, <1>3, <2>1 DEF OutsideClose, outside
<1>4. CASE OutsideOpen
  <2>1. acct' \in Accounts
    <3>1. ASSUME NEW q \in Int, NEW n \in Nat
          PROVE  [acct EXCEPT !.pos = q, !.outsideOpens = n] \in Accounts
      BY DEF Accounts
    <3>2. acct.outsideOpens + 1 \in Nat
      BY DEF Accounts
    <3>3. 1 \in Int
      OBVIOUS
    <3> QED
      BY <1>4, <3>1, <3>2, <3>3, Zenon DEF OutsideOpen
  <2> QED
    BY <1>1, <1>4, <2>1 DEF OutsideOpen, outside
<1>5. ASSUME NEW o \in acct.orders, Fill(o) PROVE TypeOK'
  <2>1. acct.orders \in SUBSET Order /\ acct.pos \in Int /\ acct.fills \in Seq(Nat)
    BY DEF Accounts
  <2>2. o \in Order
    BY <2>1
  <2>3. o.qty \in Nat /\ o.id \in Nat
    BY <2>2 DEF Order
  <2> DEFINE p == IF o.side = "buy" THEN acct.pos + o.qty ELSE acct.pos - o.qty
             f == IF o.side = "sell" THEN Append(acct.fills, o.id) ELSE acct.fills
  <2>4. p \in Int
    BY <2>1, <2>3
  <2>5. f \in Seq(Nat)
    BY <2>1, <2>3
  <2>6. acct.orders \ {o} \in SUBSET Order
    BY <2>1
  <2>7. ASSUME NEW q \in Int, NEW os \in SUBSET Order, NEW s \in Seq(Nat)
        PROVE  [acct EXCEPT !.pos = q, !.orders = os, !.fills = s] \in Accounts
    BY DEF Accounts
  <2>8. acct' = [acct EXCEPT !.pos = p, !.orders = acct.orders \ {o}, !.fills = f] /\ SetPos(p)
    BY <1>5 DEF Fill
  <2>9. acct' \in Accounts /\ hist' \in Histories
    BY <1>1, <2>4, <2>5, <2>6, <2>7, <2>8, Zenon
  <2> QED
    BY <1>5, <2>9 DEF Fill, outside
<1>6. ASSUME NEW o \in acct.orders, CancelDone(o) PROVE TypeOK'
  <2>1. acct.orders \ {o} \in SUBSET Order
    BY DEF Accounts
  <2>2. ASSUME NEW os \in SUBSET Order PROVE [acct EXCEPT !.orders = os] \in Accounts
    BY DEF Accounts
  <2>3. acct' \in Accounts
    BY <1>6, <2>1, <2>2, Zenon DEF CancelDone
  <2> QED
    BY <1>6, <2>3 DEF CancelDone, outside
<1> QED
  BY <1>2, <1>3, <1>4, <1>5, <1>6 DEF BrokerStep

\* The end of a task, its stray calls and a reject from IBKR keep TypeOK.
LEMMA TaskType ==
    ASSUME TypeOK, TaskStep PROVE TypeOK'
<1> USE DEF TypeOK
<1>1. CASE RunnerEnds
  BY <1>1 DEF RunnerEnds, PCs
<1>2. CASE StrayBuy
  BY <1>2, BuyType DEF StrayBuy
<1>3. CASE StraySell
  BY <1>3, WithCloseType DEF StraySell
<1>4. CASE Reject
  BY <1>4, BotUpdates DEF Reject, outside
<1> QED
  BY <1>1, <1>2, <1>3, <1>4 DEF TaskStep

\* Stop, Buy, a start and a crash keep TypeOK.
LEMMA UserType ==
    ASSUME TypeOK, UserStep PROVE TypeOK'
<1> USE DEF TypeOK
<1>1. CASE Stop
  <2>1. bot' \in BotStates
    BY <1>1 DEF Stop, BotStates
  <2> QED
    BY <1>1, <2>1 DEF Stop
<1>2. CASE StopClose
  BY <1>2, WithCloseType DEF StopClose
<1>3. CASE StopSave
  BY <1>3 DEF StopSave
<1>4. CASE Start
  <2>1. bot' \in BotStates
    BY <1>4, BotUpdates DEF Start
  <2>2. ASSUME NEW f \in [Bars -> Nat], NEW g \in [Bars -> Nat]
        PROVE  [hist EXCEPT !.closes = f, !.evals = g] \in Histories
    BY DEF Histories
  <2>3. hist' \in Histories
    BY <1>4, <2>2 DEF Start
  <2>4. mem' \in Memories
    BY <1>4 DEF Start, FreshMem, Memories, NoBar, NoOrder
  <2> QED
    BY <1>4, <2>1, <2>3, <2>4 DEF Start
<1>5. CASE Crash
  <2>1. hist' \in Histories
    BY <1>5 DEF Crash, Histories
  <2>2. manual' \in [at: {"idle", "submit", "poll"}, order: Nat]
    BY <1>5 DEF Crash, NoManual, NoOrder
  <2> QED
    BY <1>5, <2>1, <2>2 DEF Crash, PCs
<1>6. CASE ManualCheck
  BY <1>6 DEF ManualCheck
<1>7. CASE ManualSubmit
  <2>1. acct.nextId \in Nat
    BY DEF Accounts
  <2> QED
    BY <1>7, <2>1, BuyType DEF ManualSubmit, NoManual, NoOrder
<1>8. CASE ManualTracked
  BY <1>8, BotUpdates, TrackingType DEF ManualTracked, NoManual, NoOrder
<1> QED
  BY <1>1, <1>2, <1>3, <1>4, <1>5, <1>6, <1>7, <1>8 DEF UserStep

\* A new bot is well typed.
LEMMA InitType == Init => TypeOK
<1> SUFFICES ASSUME Init PROVE TypeOK
  OBVIOUS
<1>1. bar \in Bars
  BY BoundAssumption DEF Init, Bars
<1>2. acct \in Accounts
  BY DEF Init, Accounts
<1>3. bot \in BotStates /\ disk \in BotStates
  BY DEF Init, BotStates, NoTime, NoOrder, NoBar
<1>4. mem \in Memories
  BY DEF Init, FreshMem, Memories, NoBar, NoOrder
<1>5. hist \in Histories
  BY DEF Init, Histories
<1> QED
  BY <1>1, <1>2, <1>3, <1>4, <1>5 DEF Init, TypeOK, PCs, NoManual, NoOrder

\* Every step keeps it.
LEMMA TypeKept ==
    ASSUME TypeOK, [Next]_vars PROVE TypeOK'
<1>1. CASE Next
  BY <1>1, BrokerType, RunnerType, TaskType, UserType DEF Next
<1>2. CASE UNCHANGED vars
  BY <1>2 DEF vars, TypeOK
<1> QED
  BY <1>1, <1>2

\* Every variable keeps its type: in particular the count of missing checks and the
\* history counters stay natural numbers, whatever the broker answers.
THEOREM TypeCorrect == Spec => []TypeOK
<1>1. TypeOK /\ [Next]_vars => TypeOK'
  BY TypeKept
<1> QED
  BY <1>1, InitType, PTL DEF Spec
-----------------------------------------------------------------------------
(* One close and one look at the price exits per bar.                      *)

Early == {"check", "confirm"}

\* The bars the strengthening compares are natural numbers.
LEMMA Scalars ==
    ASSUME TypeOK
    PROVE  /\ bot.lastBar \in Nat /\ disk.lastBar \in Nat /\ bar \in Nat
           /\ mem.prevBar \in Nat /\ mem.exitsBar \in Nat /\ Bars \subseteq Nat
           /\ hist.closes \in [Bars -> Nat] /\ hist.evals \in [Bars -> Nat]
  BY DEF TypeOK, BotStates, Memories, Histories, Bars

\* A step that neither goes back in the tick, nor sends a close, nor looks at the exits.
Forward ==
    /\ bar' = bar /\ bot'.lastBar = bot.lastBar
    /\ disk'.lastBar \in {disk.lastBar, bot.lastBar}
    /\ mem'.prevBar = mem.prevBar /\ mem'.exitsBar = mem.exitsBar
    /\ hist'.closes = hist.closes /\ hist'.evals = hist.evals
    /\ Running' => Running
    /\ ~Running' => pc' = "sleep"
    /\ pc = "sleep" => pc' = "sleep"
    /\ pc' \in BeforeClose => pc \in BeforeClose
    /\ pc' \in Early => pc \in Early

\* A step that leaves the bars and the counts alone, or only moves on in the tick, keeps
\* the invariant.
LEMMA ForwardKeeps ==
    ASSUME OncePerBarInv, TypeOK', Forward PROVE OncePerBarInv'
<1> USE Scalars DEF OncePerBarInv, Forward, BeforeClose, Early
<1>1. OffSleeps' /\ BarsInOrder'
  BY DEF OffSleeps, BarsInOrder, Running
<1>2. ClosesBehind'
  BY DEF ClosesBehind, BarsInOrder
<1>3. EvalsBehind'
  BY DEF EvalsBehind, BarsInOrder
<1>4. CloseOncePerBar' /\ PriceExitsOncePerBar'
  BY DEF CloseOncePerBar, PriceExitsOncePerBar, Running
<1> QED
  BY <1>1, <1>2, <1>3, <1>4

\* The tick fails before its close went out and puts the bar back.
LEMMA BackKeeps ==
    ASSUME OncePerBarInv, TypeOK', FailTick, Running, Running', bar' = bar,
           pc \in {"check", "confirm", "verify"},
           mem'.prevBar = mem.prevBar,
           mem'.exitsBar \in {mem.exitsBar, bot.lastBar},
           pc = "verify" => mem'.exitsBar = bot.lastBar,
           hist'.closes = hist.closes, hist'.evals = hist.evals
    PROVE  OncePerBarInv'
<1> USE Scalars DEF OncePerBarInv, BeforeClose, Early
<1>1. bot'.lastBar = mem.prevBar /\ disk'.lastBar = mem.prevBar /\ pc' = "sleep"
  BY DEF FailTick, RestoreBar, TypeOK, BotStates
<1>2. OffSleeps' /\ BarsInOrder'
  BY <1>1 DEF OffSleeps, BarsInOrder
<1>3. ClosesBehind'
  BY <1>1 DEF ClosesBehind
<1>4. EvalsBehind'
  BY <1>1 DEF EvalsBehind, BarsInOrder
<1>5. CloseOncePerBar' /\ PriceExitsOncePerBar'
  BY DEF CloseOncePerBar, PriceExitsOncePerBar, Running
<1> QED
  BY <1>2, <1>3, <1>4, <1>5

\* The shared updates of BotState leave the bar alone.
LEMMA UnchangedBars ==
    ASSUME TypeOK, NEW b \in BotStates
    PROVE  /\ Cleared(b).lastBar = b.lastBar /\ ClearedAll(b).lastBar = b.lastBar
           /\ Entered(b).lastBar = b.lastBar /\ Resumed(b).lastBar = b.lastBar
           /\ \A v : [b EXCEPT !.paused = v].lastBar = b.lastBar
  BY DEF Cleared, ClearedAll, Entered, Resumed, BotStates

\* Tracking a position and booking a row leave the counts per bar alone.
LEMMA UnchangedMarks ==
    ASSUME NEW h \in Histories
    PROVE  /\ Tracking(h).closes = h.closes /\ Tracking(h).evals = h.evals
           /\ Booked(h).closes = h.closes /\ Booked(h).evals = h.evals
<1>1. ASSUME NEW n, NEW s
      PROVE  /\ [h EXCEPT !.wasGone = n, !.since = s].closes = h.closes
             /\ [h EXCEPT !.wasGone = n, !.since = s].evals = h.evals
  BY DEF Histories
<1>2. Booked(h).closes = h.closes /\ Booked(h).evals = h.evals
  BY DEF Booked, Histories
<1> QED
  BY <1>1, <1>2, Zenon DEF Tracking

\* A look at the price exits touches one bar, and a bar it was already taken on is only
\* looked at again when mem.exitsBar says so.
LEMMA Looks ==
    ASSUME OncePerBarInv, Running, pc = "check", NEW due, NEW checked, Evaluate(due, checked)
    PROVE  /\ hist'.closes = hist.closes
           /\ \A b \in Bars : /\ hist'.evals[b] <= 1
                              /\ hist'.evals[b] > 0 => b <= bot.lastBar
<1> USE Scalars DEF OncePerBarInv
<1>1. hist' = Looked(hist, bot.lastBar) \/ hist' = Looked(Tracking(hist), bot.lastBar)
  BY Zenon DEF Evaluate
<1>2. \A b \in Bars : /\ hist.evals[b] \in Nat /\ hist.evals[b] <= 1
                      /\ hist.evals[b] > 0 => b <= bot.lastBar
                      /\ hist.evals[b] > 0 /\ b = bot.lastBar => mem.exitsBar = b
  BY DEF EvalsBehind, PriceExitsOncePerBar, Running
<1>3. /\ hist'.closes = hist.closes
      /\ hist'.evals = [hist.evals EXCEPT ![bot.lastBar] =
                           IF mem.exitsBar = bot.lastBar THEN @ ELSE @ + 1]
  <2>1. hist \in Histories
    BY DEF TypeOK
  <2>2. ASSUME NEW h \in Histories
        PROVE  /\ Looked(h, bot.lastBar).closes = h.closes
               /\ Looked(h, bot.lastBar).evals = [h.evals EXCEPT ![bot.lastBar] =
                           IF mem.exitsBar = bot.lastBar THEN @ ELSE @ + 1]
    BY DEF Looked, Histories
  <2>4. Tracking(hist).closes = hist.closes /\ Tracking(hist).evals = hist.evals
    BY <2>1, UnchangedMarks, Zenon
  <2>5. Tracking(hist) \in Histories
    BY <2>1, TrackingType, Zenon
  <2> QED
    BY <1>1, <2>1, <2>2, <2>4, <2>5, Zenon
<1> QED
  BY <1>2, <1>3

\* Looking at the exits of a listed position keeps the invariant.
LEMMA CheckHeldKeeps ==
    ASSUME OncePerBarInv, TypeOK', Running, Running', bar' = bar, CheckHeld
    PROVE  OncePerBarInv'
<1> USE Scalars DEF OncePerBarInv, BeforeClose
<1>1. PICK due \in BOOLEAN :
         /\ Evaluate(due, TRUE) /\ pc = "check"
         /\ mem' = [mem EXCEPT !.missing = 0, !.checked = TRUE]
         /\ bot' = Resumed(bot) /\ disk' = disk
         /\ pc' = IF due THEN "verify" ELSE "sleep"
  BY DEF CheckHeld
<1>2. bot'.lastBar = bot.lastBar
  BY <1>1 DEF Resumed, TypeOK, BotStates
<1>3. mem'.prevBar = mem.prevBar /\ mem'.exitsBar = mem.exitsBar
  BY <1>1 DEF TypeOK, Memories
<1>4. /\ hist'.closes = hist.closes
      /\ \A b \in Bars : hist'.evals[b] <= 1 /\ (hist'.evals[b] > 0 => b <= bot.lastBar)
  BY <1>1, Looks
<1>5. OffSleeps' /\ BarsInOrder'
  BY <1>1, <1>2, <1>3 DEF OffSleeps, BarsInOrder
<1>6. ClosesBehind'
  BY <1>1, <1>2, <1>3, <1>4 DEF ClosesBehind, BarsInOrder
<1>7. EvalsBehind'
  BY <1>1, <1>2, <1>3, <1>4 DEF EvalsBehind, BarsInOrder
<1>8. CloseOncePerBar' /\ PriceExitsOncePerBar'
  BY <1>4 DEF CloseOncePerBar, PriceExitsOncePerBar, Running
<1> QED
  BY <1>5, <1>6, <1>7, <1>8

\* Looking at the price exits while the check fails keeps the invariant.
LEMMA CheckFailedHeldKeeps ==
    ASSUME OncePerBarInv, TypeOK', Running, Running', bar' = bar, CheckFailedHeld
    PROVE  OncePerBarInv'
<1> USE Scalars DEF OncePerBarInv, BeforeClose
<1>1. PICK due \in BOOLEAN :
         /\ Evaluate(due, FALSE) /\ pc = "check"
         /\ mem' = [mem EXCEPT !.exitsBar = bot.lastBar, !.exitsDue = due, !.checked = FALSE]
         /\ \/ due /\ pc' = "verify" /\ UNCHANGED <<bot, disk>>
            \/ ~due /\ FailTick
  BY DEF CheckFailedHeld
<1>2. mem'.prevBar = mem.prevBar /\ mem'.exitsBar = bot.lastBar
  BY <1>1 DEF TypeOK, Memories
<1>3. \/ pc' = "verify" /\ bot' = bot /\ disk' = disk
      \/ pc' = "sleep" /\ bot'.lastBar = mem.prevBar /\ disk'.lastBar = mem.prevBar
  BY <1>1 DEF FailTick, RestoreBar, TypeOK, BotStates
<1>4. /\ hist'.closes = hist.closes
      /\ \A b \in Bars : hist'.evals[b] <= 1 /\ (hist'.evals[b] > 0 => b <= bot.lastBar)
  BY <1>1, Looks
<1>5. OffSleeps' /\ BarsInOrder'
  BY <1>1, <1>2, <1>3 DEF OffSleeps, BarsInOrder
<1>6. ClosesBehind'
  BY <1>1, <1>2, <1>3, <1>4 DEF ClosesBehind, BarsInOrder
<1>7. EvalsBehind'
  BY <1>1, <1>2, <1>3, <1>4 DEF EvalsBehind, BarsInOrder
<1>8. CloseOncePerBar' /\ PriceExitsOncePerBar'
  BY <1>4 DEF CloseOncePerBar, PriceExitsOncePerBar, Running
<1> QED
  BY <1>5, <1>6, <1>7, <1>8

\* Before its close goes out, a tick has sent none on its bar.
LEMMA SendKeeps ==
    ASSUME OncePerBarInv, TypeOK', Running, Running', bar' = bar, pc = "close",
           pc' \in {"postclose", "sleep"}, hist' \in {hist, Sent(hist)},
           bot'.lastBar = bot.lastBar, disk'.lastBar \in {disk.lastBar, bot.lastBar},
           mem'.prevBar = mem.prevBar, mem'.exitsBar = mem.exitsBar
    PROVE  OncePerBarInv'
<1> USE Scalars DEF OncePerBarInv, BeforeClose
<1>1. /\ hist'.evals = hist.evals
      /\ hist'.closes \in {hist.closes, [hist.closes EXCEPT ![bot.lastBar] = @ + 1]}
  BY DEF Sent, TypeOK, Histories
<1>2. \A b \in Bars : /\ hist.closes[b] \in Nat /\ hist.closes[b] <= 1
                      /\ hist.closes[b] > 0 => b <= mem.prevBar
  BY DEF ClosesBehind, CloseOncePerBar, Running
<1>3. mem.prevBar < bot.lastBar
  BY DEF BarsInOrder
<1>4. \A b \in Bars : hist'.closes[b] <= 1 /\ (hist'.closes[b] > 0 => b <= bot.lastBar)
  BY <1>1, <1>2, <1>3
<1>5. OffSleeps' /\ BarsInOrder'
  BY DEF OffSleeps, BarsInOrder
<1>6. ClosesBehind'
  BY <1>4 DEF ClosesBehind
<1>7. EvalsBehind'
  BY <1>1 DEF EvalsBehind, BarsInOrder
<1>8. CloseOncePerBar' /\ PriceExitsOncePerBar'
  BY <1>1, <1>4 DEF CloseOncePerBar, PriceExitsOncePerBar, Running
<1> QED
  BY <1>5, <1>6, <1>7, <1>8

\* Beginning a tick on a new bar keeps the invariant.
LEMMA TickStartKeeps ==
    ASSUME OncePerBarInv, TypeOK', Running, Running', bar' = bar, TickStart
    PROVE  OncePerBarInv'
<1> USE Scalars DEF OncePerBarInv, BeforeClose, TickStart
<1>1. bot'.lastBar = bar /\ mem'.prevBar = bot.lastBar /\ mem'.exitsBar = mem.exitsBar
  BY DEF TypeOK, BotStates, Memories
<1>2. OffSleeps' /\ BarsInOrder'
  BY <1>1 DEF OffSleeps, BarsInOrder
<1>3. ClosesBehind'
  BY <1>1 DEF ClosesBehind
<1>4. EvalsBehind'
  BY <1>1 DEF EvalsBehind
<1>5. CloseOncePerBar' /\ PriceExitsOncePerBar'
  BY DEF CloseOncePerBar, PriceExitsOncePerBar, Running
<1> QED
  BY <1>2, <1>3, <1>4, <1>5

\* The steps of a tick that only go forward.
LEMMA ForwardTick ==
    ASSUME OncePerBarInv, TypeOK', Running, Running', UNCHANGED bar,
           \/ IdlePoll \/ GraphRefused \/ IndicatorError \/ CheckMissing
           \/ ConfirmByFill \/ ConfirmByCount
           \/ EntrySkipped \/ EntryGo \/ SubmitAccepted \/ SubmitTwice \/ SubmitFailed
           \/ EntryTracked \/ EntrySave
           \/ VerifyMismatch \/ VerifyOk \/ CancelSells \/ PostCloseGivesUp \/ PostCloseGone
    PROVE  OncePerBarInv'
<1> USE DEF BeforeClose, Early
<1>0. /\ bot \in BotStates /\ mem \in Memories /\ hist \in Histories /\ TypeOK
      /\ pc = "sleep" \/ pc # "sleep"
  BY DEF OncePerBarInv, TypeOK
<1>a. ASSUME NEW v PROVE /\ [mem EXCEPT !.missing = v].prevBar = mem.prevBar
                         /\ [mem EXCEPT !.missing = v].exitsBar = mem.exitsBar
                         /\ [mem EXCEPT !.empty = v].prevBar = mem.prevBar
                         /\ [mem EXCEPT !.empty = v].exitsBar = mem.exitsBar
                         /\ [mem EXCEPT !.order = v].prevBar = mem.prevBar
                         /\ [mem EXCEPT !.order = v].exitsBar = mem.exitsBar
  BY <1>0 DEF Memories
<1>b. [bot EXCEPT !.tracked = FALSE, !.entryTime = NoTime].lastBar = bot.lastBar
  BY <1>0 DEF BotStates
<1>1. CASE IdlePoll \/ IndicatorError \/ EntrySkipped \/ EntryGo \/ SubmitFailed
           \/ EntrySave \/ CancelSells \/ PostCloseGivesUp
  <2>1. Forward
    BY <1>1 DEF Forward, IdlePoll, IndicatorError, EntrySkipped, EntryGo, SubmitFailed,
                EntrySave, CancelSells, PostCloseGivesUp
  <2> QED
    BY <2>1, ForwardKeeps
<1>2. CASE GraphRefused
  <2>1. Forward
    BY <1>0, <1>2, UnchangedBars DEF Forward, GraphRefused
  <2> QED
    BY <2>1, ForwardKeeps
<1>3. CASE CheckMissing \/ SubmitAccepted \/ SubmitTwice
  <2>1. Forward
    <3>1. bot' \in {bot, Cleared(bot)}
      BY <1>3 DEF CheckMissing, SubmitAccepted, SubmitTwice
    <3>2. bot'.lastBar = bot.lastBar
      BY <1>0, <3>1, UnchangedBars
    <3>3. mem'.prevBar = mem.prevBar /\ mem'.exitsBar = mem.exitsBar
      <4>1. CASE CheckMissing
        BY <4>1, <1>a DEF CheckMissing
      <4>2. CASE SubmitAccepted
        BY <4>2, <1>a DEF SubmitAccepted
      <4>3. CASE SubmitTwice
        BY <4>3, <1>a DEF SubmitTwice
      <4> QED
        BY <1>3, <4>1, <4>2, <4>3
    <3> QED
      BY <3>2, <3>3, <1>3 DEF Forward, CheckMissing, SubmitAccepted, SubmitTwice
  <2> QED
    BY <2>1, ForwardKeeps
<1>4. CASE ConfirmByFill \/ ConfirmByCount
  <2>1. pc = "confirm" /\ BookOutside
    BY <1>4 DEF ConfirmByFill, ConfirmByCount
  <2>2. bot'.lastBar = bot.lastBar /\ disk'.lastBar = bot.lastBar
    BY <1>0, <2>1 DEF BookOutside, ClearedAll, Cleared, BotStates
  <2>3. mem'.prevBar = mem.prevBar /\ mem'.exitsBar = mem.exitsBar
    BY <2>1, <1>a, Zenon DEF BookOutside
  <2>4. hist'.closes = hist.closes /\ hist'.evals = hist.evals
    BY <1>0, <2>1, UnchangedMarks, Zenon DEF BookOutside
  <2>5. Forward
    BY <2>1, <2>2, <2>3, <2>4 DEF Forward, BookOutside
  <2> QED
    BY <2>5, ForwardKeeps
<1>5. CASE EntryTracked
  <2>1. Forward
    BY <1>0, <1>5, UnchangedBars, UnchangedMarks DEF Forward, EntryTracked
  <2> QED
    BY <2>1, ForwardKeeps
<1>6. CASE VerifyOk \/ VerifyMismatch
  <2>1. Forward
    BY <1>b, <1>6 DEF Forward, VerifyOk, VerifyMismatch
  <2> QED
    BY <2>1, ForwardKeeps
<1>7. CASE PostCloseGone
  <2>1. bot'.lastBar = bot.lastBar /\ disk'.lastBar = bot.lastBar
    BY <1>0, <1>7 DEF PostCloseGone, ClearedAll, Cleared, BotStates
  <2>2. Forward
    BY <1>0, <1>7, <2>1, UnchangedMarks DEF Forward, PostCloseGone
  <2> QED
    BY <2>2, ForwardKeeps
<1> QED
  BY <1>1, <1>2, <1>3, <1>4, <1>5, <1>6, <1>7

\* The steps of a tick that fail before its close went out.
LEMMA BackTick ==
    ASSUME OncePerBarInv, TypeOK', Running, Running', UNCHANGED bar,
           CookError \/ CheckFailedFlat \/ NotConfirmed \/ VerifyFailed
    PROVE  OncePerBarInv'
<1>0. mem \in Memories /\ hist \in Histories
  BY DEF OncePerBarInv, TypeOK
<1>1. CASE CookError \/ CheckFailedFlat
  BY <1>1, BackKeeps DEF CookError, CheckFailedFlat
<1>2. CASE NotConfirmed
  <2>1. ASSUME NEW v PROVE /\ [mem EXCEPT !.missing = v].prevBar = mem.prevBar
                           /\ [mem EXCEPT !.missing = v].exitsBar = mem.exitsBar
    BY <1>0 DEF Memories
  <2> QED
    BY <1>2, <2>1, BackKeeps DEF NotConfirmed
<1>3. CASE VerifyFailed
  <2>1. /\ [mem EXCEPT !.exitsBar = bot.lastBar, !.exitsDue = TRUE].prevBar = mem.prevBar
        /\ [mem EXCEPT !.exitsBar = bot.lastBar, !.exitsDue = TRUE].exitsBar = bot.lastBar
    BY <1>0 DEF Memories
  <2> QED
    BY <1>3, <2>1, BackKeeps DEF VerifyFailed, NotSent
<1> QED
  BY <1>1, <1>2, <1>3

\* The two outcomes of the close call keep the invariant.
LEMMA SendTick ==
    ASSUME OncePerBarInv, TypeOK', Running, Running', UNCHANGED bar,
           CloseAccepted \/ CloseFailed
    PROVE  OncePerBarInv'
<1>0. bot \in BotStates /\ mem \in Memories
  BY DEF OncePerBarInv, TypeOK
<1>1. /\ [bot EXCEPT !.pending = acct.nextId].lastBar = bot.lastBar
      /\ [mem EXCEPT !.exitsDue = FALSE].prevBar = mem.prevBar
      /\ [mem EXCEPT !.exitsDue = FALSE].exitsBar = mem.exitsBar
  BY <1>0 DEF BotStates, Memories
<1>2. CASE CloseAccepted
  BY <1>1, <1>2, SendKeeps DEF CloseAccepted
<1>3. CASE CloseFailed
  BY <1>1, <1>3, SendKeeps DEF CloseFailed
<1> QED
  BY <1>2, <1>3

\* Every step of the runner's coroutine keeps the invariant.
LEMMA RunnerKeeps ==
    ASSUME OncePerBarInv, TypeOK', RunnerStep PROVE OncePerBarInv'
<1>1. Running /\ Running' /\ UNCHANGED bar
  BY DEF RunnerStep, Runs, Running
<1> QED
  BY <1>1, TickStartKeeps, ForwardTick, BackTick, CheckHeldKeeps, CheckFailedHeldKeeps,
     SendTick DEF RunnerStep, Runs, CheckStep, EntryStep, ExitStep

\* The broker, a request thread or a dead task's call: none moves the tick.
LEMMA OthersKeep ==
    ASSUME OncePerBarInv, TypeOK',
           \/ OutsideClose \/ OutsideOpen \/ (\E o \in acct.orders : Fill(o) \/ CancelDone(o))
           \/ TaskStep \/ Stop \/ StopClose \/ StopSave
           \/ ManualCheck \/ ManualSubmit \/ ManualTracked
    PROVE  OncePerBarInv'
<1>0. bot \in BotStates /\ hist \in Histories /\ TypeOK
  BY DEF OncePerBarInv, TypeOK
<1>a. ASSUME NEW n, NEW w
      PROVE  /\ [hist EXCEPT !.flats = n, !.wasGone = w].closes = hist.closes
             /\ [hist EXCEPT !.flats = n, !.wasGone = w].evals = hist.evals
  BY <1>0 DEF Histories
<1>b. ASSUME NEW p, SetPos(p) PROVE hist'.closes = hist.closes /\ hist'.evals = hist.evals
  BY <1>0, <1>b DEF SetPos, Histories
<1>c. [bot EXCEPT !.tracked = FALSE].lastBar = bot.lastBar
  BY <1>0 DEF BotStates
<1>1. CASE OutsideClose \/ OutsideOpen \/ \E o \in acct.orders : Fill(o) \/ CancelDone(o)
  <2>1. /\ UNCHANGED <<bar, bot, disk, mem, pc, live>>
        /\ hist'.closes = hist.closes /\ hist'.evals = hist.evals
    BY <1>1, <1>b, Zenon DEF OutsideClose, OutsideOpen, Fill, CancelDone, outside
  <2>2. Forward
    BY <2>1 DEF Forward, Running, OncePerBarInv, OffSleeps
  <2> QED
    BY <2>2, ForwardKeeps
<1>2. CASE TaskStep
  <2>1. CASE RunnerEnds
    <3>1. Forward
      BY <2>1 DEF Forward, Running, RunnerEnds, OncePerBarInv, OffSleeps, BeforeClose, Early
    <3> QED
      BY <3>1, ForwardKeeps
  <2>2. CASE StrayBuy \/ StraySell
    BY <2>2, ForwardKeeps DEF Forward, Running, StrayBuy, StraySell, OncePerBarInv, OffSleeps
  <2>3. CASE Reject
    BY <1>0, <2>3, UnchangedBars, ForwardKeeps
       DEF Forward, Running, Reject, outside, OncePerBarInv, OffSleeps
  <2> QED
    BY <1>2, <2>1, <2>2, <2>3 DEF TaskStep
<1>3. CASE Stop \/ StopClose \/ StopSave \/ ManualCheck \/ ManualSubmit \/ ManualTracked
  <2>1. Forward
    BY <1>0, <1>c, <1>3, UnchangedBars, UnchangedMarks
       DEF Forward, Running, Stop, StopClose, StopSave, ManualCheck, ManualSubmit,
           ManualTracked, OncePerBarInv, OffSleeps
  <2> QED
    BY <2>1, ForwardKeeps
<1> QED
  BY <1>1, <1>2, <1>3

\* A new bar keeps the invariant.
LEMMA NewBarKeeps ==
    ASSUME OncePerBarInv, TypeOK', NewBar PROVE OncePerBarInv'
<1> USE Scalars DEF OncePerBarInv
<1>1. bar' = bar + 1 /\ UNCHANGED <<bot, disk, mem, pc, live, hist>>
  BY DEF NewBar, outside
<1>2. OffSleeps' /\ BarsInOrder'
  BY <1>1 DEF OffSleeps, BarsInOrder, Running
<1>3. ClosesBehind'
  BY <1>1 DEF ClosesBehind, Running
<1>4. EvalsBehind'
  BY <1>1 DEF EvalsBehind, BarsInOrder, Running
<1>5. CloseOncePerBar' /\ PriceExitsOncePerBar'
  BY <1>1 DEF CloseOncePerBar, PriceExitsOncePerBar
<1> QED
  BY <1>2, <1>3, <1>4, <1>5

\* A new run has sent nothing yet; a crash leaves none running.
LEMMA RestartKeeps ==
    ASSUME OncePerBarInv, TypeOK', Start \/ Crash PROVE OncePerBarInv'
<1> USE Scalars DEF OncePerBarInv
<1>0. bot \in BotStates /\ hist \in Histories /\ TypeOK
  BY DEF TypeOK
<1>1. CASE Start
  <2>1. /\ pc' = "sleep" /\ bar' = bar
        /\ bot'.lastBar = bot.lastBar /\ disk'.lastBar = bot.lastBar
    BY <1>0, <1>1, UnchangedBars DEF Start, OffSleeps, Running
  <2>2. \A b \in Bars : hist'.closes[b] = 0 /\ hist'.evals[b] = 0
    BY <1>0, <1>1 DEF Start, Histories
  <2>3. OffSleeps' /\ BarsInOrder'
    BY <2>1 DEF OffSleeps, BarsInOrder
  <2>4. ClosesBehind' /\ EvalsBehind' /\ CloseOncePerBar' /\ PriceExitsOncePerBar'
    BY <2>2 DEF ClosesBehind, EvalsBehind, CloseOncePerBar, PriceExitsOncePerBar
  <2> QED
    BY <2>3, <2>4
<1>2. CASE Crash
  <2>1. ~Running' /\ pc' = "sleep" /\ bar' = bar /\ bot' = disk /\ disk' = disk
    BY <1>2 DEF Crash, Running
  <2> QED
    BY <2>1 DEF OffSleeps, BarsInOrder, ClosesBehind, EvalsBehind, CloseOncePerBar,
                PriceExitsOncePerBar, Running
<1> QED
  BY <1>1, <1>2

\* The invariant is inductive.
LEMMA OncePerBarInductive ==
    ASSUME OncePerBarInv, TypeOK', [Next]_vars PROVE OncePerBarInv'
<1>1. CASE Next
  BY <1>1, RunnerKeeps, OthersKeep, NewBarKeeps, RestartKeeps
     DEF Next, BrokerStep, UserStep
<1>2. CASE UNCHANGED vars
  BY <1>2 DEF vars, OncePerBarInv, TypeOK, OffSleeps, BarsInOrder, ClosesBehind,
              EvalsBehind, CloseOncePerBar, PriceExitsOncePerBar, Running
<1> QED
  BY <1>1, <1>2

\* At the start nothing was worked on, so nothing was sent or looked at.
LEMMA OncePerBarInit == Init => OncePerBarInv
<1> SUFFICES ASSUME Init PROVE OncePerBarInv
  OBVIOUS
<1>1. TypeOK
  BY InitType
<1>2. /\ pc = "sleep" /\ bar = 1 /\ bot.lastBar = 0 /\ disk.lastBar = 0
      /\ \A b \in Bars : hist.closes[b] = 0 /\ hist.evals[b] = 0
  BY DEF Init, NoBar
<1> QED
  BY <1>1, <1>2 DEF OncePerBarInv, OffSleeps, BarsInOrder, ClosesBehind, EvalsBehind,
                    CloseOncePerBar, PriceExitsOncePerBar

\* The inductive invariant holds in every state the bot reaches.
LEMMA OncePerBarHolds == Spec => []OncePerBarInv
<1>1. OncePerBarInv /\ TypeOK' /\ [Next]_vars => OncePerBarInv'
  BY OncePerBarInductive
<1> QED
  BY <1>1, OncePerBarInit, TypeCorrect, PTL DEF Spec

\* However often a bar is retried, a run of the bot sends at most one close order on it.
THEOREM CloseOnce == Spec => []CloseOncePerBar
<1>1. OncePerBarInv => CloseOncePerBar
  BY DEF OncePerBarInv
<1> QED
  BY <1>1, OncePerBarHolds, PTL

\* However often a bar is retried, a run of the bot looks at the price exits at most
\* once on it.
THEOREM PriceExitsOnce == Spec => []PriceExitsOncePerBar
<1>1. OncePerBarInv => PriceExitsOncePerBar
  BY DEF OncePerBarInv
<1> QED
  BY <1>1, OncePerBarHolds, PTL
-----------------------------------------------------------------------------
(* What is held.  Nobody but the bot's own loop acts on the position: no     *)
(* Stop, no manual Buy, no crash and no position that is opened by hand.     *)
(* Entries fill before the bot stops polling and no reply is lost.  Odd       *)
(* lists come at the position check, while none is counted, and at the       *)
(* verification; on Alpaca at the entry as well.                             *)

Calm ==
    /\ Prompt /\ ~MayStop /\ ~MayManualBuy /\ ~MayLoseReply /\ ~OddTwice
    /\ MaxAdopt = 0 /\ MaxCrash = 0
    /\ "postclose" \notin OddAt /\ (Broker = "ibkr" => "entry" \notin OddAt)

Buys == {o \in acct.orders : o.side = "buy"}

\* Nothing runs beside the task.
Quiet ==
    /\ stray = {} /\ stopper = "idle" /\ manual = NoManual
    /\ live \in {"on", "off"} /\ (live = "off" => pc = "sleep")

\* Ids are given out in order, and none is that of no order.
IdsInOrder ==
    /\ acct.nextId > NoOrder
    /\ \A o \in acct.orders : o.qty > 0 /\ o.id < acct.nextId
    /\ \A k \in DOMAIN acct.fills : acct.fills[k] < acct.nextId

\* A buy that is out is the entry being polled for, or what a close of a position that
\* had turned around sent; with all of it filled, no more than one share is held.
\* Nobody asks for its cancel.
BuysFit ==
    /\ acct.pos <= 1
    /\ \A o, p \in Buys : o = p
    /\ \A o \in Buys : acct.pos + o.qty <= IF pc = "entrypoll" THEN 1 ELSE 0
    /\ pc = "entrypoll" => \A o \in Buys : o.id = mem.order
    /\ pc \in {"submit", "cancel", "close"} => Buys = {}
    /\ \A o \in Buys : o.working

\* On Alpaca the one sell that is out is for what is held.
SellsFit == Broker = "alpaca" =>
    /\ acct.pos >= 0
    /\ \A o, p \in Sells : o = p
    /\ \A o \in Sells : o.qty = acct.pos

\* A held position is tracked once the entry's fill was seen.
Tracks ==
    /\ ~bot.tracked /\ pc # "entrypoll" => acct.pos <= 0
    /\ pc \in {"entry", "submit", "entrypoll"} => ~bot.tracked /\ bot.pending = NoOrder
    /\ pc \in {"confirm", "entrysave", "verify", "cancel", "close", "postclose"} => bot.tracked

\* A fill the bot would take as the close of its position came after it was opened, and
\* none has come while the position is held.
ClosesAfter == bot.tracked =>
    /\ hist.since <= Len(acct.fills) /\ bot.entryTime = hist.since
    /\ bot.pending # NoOrder => \A k \in 1..hist.since : acct.fills[k] # bot.pending
    /\ acct.pos > 0 =>
        /\ Broker = "alpaca" => Len(acct.fills) = hist.since
        /\ bot.pending # NoOrder => \A k \in DOMAIN acct.fills : acct.fills[k] # bot.pending
    /\ acct.pos <= 0 => hist.wasGone

\* The count that confirms a close is never reached on a held position.
CountFits ==
    /\ mem.missing <= 1
    /\ pc = "confirm" /\ acct.pos > 0 /\ ~mem.empty => mem.missing = 0

HeldInv ==
    TypeOK /\ Quiet /\ IdsInOrder /\ BuysFit /\ SellsFit /\ Tracks /\ ClosesAfter /\ CountFits

\* The types of the fields that count here.
LEMMA Fields ==
    ASSUME TypeOK
    PROVE  /\ acct.pos \in Int /\ acct.nextId \in Nat /\ acct.fills \in Seq(Nat)
           /\ Len(acct.fills) \in Nat /\ acct.orders \subseteq Order
           /\ mem.missing \in Nat /\ mem.order \in Nat /\ mem.empty \in BOOLEAN
           /\ bot.tracked \in BOOLEAN /\ bot.pending \in Nat /\ bot.entryTime \in Int
           /\ hist.since \in Nat /\ hist.wasGone \in BOOLEAN /\ hist.crashes \in Nat
           /\ acct.outsideOpens \in Nat
  BY FillCount DEF TypeOK, Accounts, Memories, BotStates, Histories

\* A list names what is held, or is one of the odd ones.
LEMMA ListSays ==
    ASSUME TypeOK, NEW site, NEW a \in Answers(site)
    PROVE  /\ a.sees = "long" => acct.pos > 0
           /\ a.sees = "short" => acct.pos < 0
           /\ a.sees = "none" /\ site \notin OddAt => acct.pos = 0
           /\ a.sees = "none" /\ site = "check" /\ ~OddTwice /\ ~a.empty =>
                acct.pos = 0 \/ mem.missing = 0
           /\ a.sees \in {"long", "short", "none", "error"}
<1>1. acct.pos \in Int /\ mem.missing \in Nat
  BY Fields
<1> DEFINE odd == IF site \notin OddAt THEN {}
                  ELSE IF site = "check" /\ mem.missing > 0 /\ ~OddTwice THEN {TRUE} ELSE BOOLEAN
<1>2. \/ \E e \in BOOLEAN : a = [sees |-> Seen, empty |-> e]
      \/ a = [sees |-> "error", empty |-> FALSE]
      \/ \E e \in odd : a = [sees |-> "none", empty |-> e]
  BY Zenon DEF Answers
<1>3. CASE \E e \in BOOLEAN : a = [sees |-> Seen, empty |-> e]
  BY <1>1, <1>3 DEF Seen
<1>4. CASE a = [sees |-> "error", empty |-> FALSE]
  BY <1>4
<1>5. CASE \E e \in odd : a = [sees |-> "none", empty |-> e]
  <2>1. PICK e \in odd : a = [sees |-> "none", empty |-> e]
    BY <1>5
  <2>2. a.sees = "none" /\ a.empty = e
    BY <2>1
  <2>3. site \in OddAt /\ (site = "check" /\ mem.missing > 0 /\ ~OddTwice => e = TRUE)
    BY <2>1
  <2> QED
    BY <1>1, <2>2, <2>3
<1> QED
  BY <1>2, <1>3, <1>4, <1>5

\* A step that leaves the account alone and looks away from no held position.
LEMMA SameAccount ==
    ASSUME HeldInv, TypeOK', Quiet', acct' = acct,
           pc' = "entrypoll" <=> pc = "entrypoll",
           pc = "entrypoll" => mem'.order = mem.order,
           pc' \in {"submit", "cancel", "close"} => Buys = {},
           ~bot'.tracked /\ pc' # "entrypoll" => acct.pos <= 0,
           pc' \in {"entry", "submit", "entrypoll"} => ~bot'.tracked /\ bot'.pending = NoOrder,
           pc' \in {"confirm", "entrysave", "verify", "cancel", "close", "postclose"} => bot'.tracked,
           bot'.tracked => /\ bot.tracked /\ bot'.pending = bot.pending
                           /\ bot'.entryTime = bot.entryTime
                           /\ hist'.since = hist.since /\ hist'.wasGone = hist.wasGone,
           mem'.missing <= 1,
           pc' = "confirm" /\ acct.pos > 0 /\ ~mem'.empty => mem'.missing = 0
    PROVE  HeldInv'
<1>1. Buys' = Buys /\ Sells' = Sells
  BY DEF Buys, Sells
<1>2. IdsInOrder' /\ BuysFit' /\ SellsFit'
  BY <1>1 DEF HeldInv, IdsInOrder, BuysFit, SellsFit
<1>3. Tracks' /\ CountFits'
  BY DEF Tracks, CountFits
<1>4. ClosesAfter'
  BY DEF HeldInv, ClosesAfter
<1> QED
  BY <1>2, <1>3, <1>4 DEF HeldInv

\* The start of a tick, and what fails before the position check.
LEMMA StartHeld ==
    ASSUME HeldInv, TypeOK', Quiet',
           TickStart \/ IdlePoll \/ GraphRefused \/ IndicatorError \/ CookError
    PROVE  HeldInv'
<1>1. /\ acct' = acct /\ pc' \in {pc, "sleep", "check"} /\ pc # "entrypoll"
      /\ pc' # pc => pc \in {"sleep", "check"}
      /\ mem'.order = mem.order /\ mem'.missing = mem.missing /\ mem'.empty = mem.empty
      /\ bot'.tracked = bot.tracked /\ bot'.pending = bot.pending
      /\ bot'.entryTime = bot.entryTime /\ hist' = hist /\ pc \in {"sleep", "check"}
  BY DEF HeldInv, TypeOK, BotStates, Memories, TickStart, IdlePoll, GraphRefused, IndicatorError,
         CookError, FailTick, RestoreBar
<1> QED
  BY <1>1, SameAccount DEF HeldInv, Tracks, CountFits

\* Looking at the exits changes nothing the position depends on.
LEMMA LookedSame ==
    ASSUME NEW h \in Histories, NEW b
    PROVE  Looked(h, b).since = h.since /\ Looked(h, b).wasGone = h.wasGone
<1>1. ASSUME NEW e PROVE /\ [h EXCEPT !.evals = e].since = h.since
                         /\ [h EXCEPT !.evals = e].wasGone = h.wasGone
  BY DEF Histories
<1> QED
  BY <1>1, Zenon DEF Looked

\* Neither does putting the bar back.
LEMMA FailedSame ==
    ASSUME TypeOK, FailTick
    PROVE  /\ pc' = "sleep" /\ bot'.tracked = bot.tracked /\ bot'.pending = bot.pending
           /\ bot'.entryTime = bot.entryTime
  BY DEF TypeOK, BotStates, FailTick, RestoreBar

\* The exits of a tracked position.
LEMMA EvaluatedSame ==
    ASSUME TypeOK, NEW due, NEW checked, Evaluate(due, checked), bot.tracked
    PROVE  hist'.since = hist.since /\ hist'.wasGone = hist.wasGone
  BY LookedSame DEF TypeOK, Evaluate

\* A position the broker lists is tracked already, and stays tracked.
LEMMA CheckHeldHeld ==
    ASSUME HeldInv, TypeOK', Quiet', CheckHeld PROVE HeldInv'
<1>1. PICK a \in Answers("check"), due \in BOOLEAN :
        /\ a.sees = "long" /\ acct' = acct /\ Evaluate(due, TRUE)
        /\ mem' = [mem EXCEPT !.missing = 0, !.checked = TRUE]
        /\ bot' = Resumed(bot) /\ pc' = IF due THEN "verify" ELSE "sleep"
        /\ pc = "check"
  BY DEF CheckHeld
<1>2. bot.tracked
  BY <1>1, ListSays, Fields DEF HeldInv, Tracks
<1>3. /\ bot'.tracked /\ bot'.pending = bot.pending /\ bot'.entryTime = bot.entryTime
      /\ mem'.missing = 0 /\ mem'.order = mem.order
  BY <1>1, <1>2 DEF HeldInv, TypeOK, BotStates, Memories, Resumed
<1>4. hist'.since = hist.since /\ hist'.wasGone = hist.wasGone
  BY <1>1, <1>2, EvaluatedSame DEF HeldInv
<1> QED
  BY <1>1, <1>2, <1>3, <1>4, SameAccount

\* A broker that could not be asked changes nothing about the position.
LEMMA CheckFailedHeldInv ==
    ASSUME HeldInv, TypeOK', Quiet', CheckFailedFlat \/ CheckFailedHeld PROVE HeldInv'
<1>1. CASE CheckFailedFlat
  <2>1. /\ pc' = "sleep" /\ ~bot'.tracked /\ acct' = acct /\ mem' = mem /\ pc = "check"
    BY <1>1, FailedSame DEF CheckFailedFlat, HeldInv
  <2> QED
    BY <2>1, <1>1, SameAccount DEF HeldInv, Tracks, CountFits, CheckFailedFlat
<1>2. CASE CheckFailedHeld
  <2>1. PICK due \in BOOLEAN :
          /\ Evaluate(due, FALSE)
          /\ mem' = [mem EXCEPT !.exitsBar = bot.lastBar, !.exitsDue = due, !.checked = FALSE]
          /\ \/ due /\ pc' = "verify" /\ UNCHANGED <<bot, disk>>
             \/ ~due /\ FailTick
    BY <1>2, Zenon DEF CheckFailedHeld
  <2>2. pc = "check" /\ bot.tracked /\ acct' = acct
    BY <1>2, Zenon DEF CheckFailedHeld
  <2>3. hist'.since = hist.since /\ hist'.wasGone = hist.wasGone
    BY <2>1, <2>2, EvaluatedSame DEF HeldInv
  <2>4. mem'.missing = mem.missing /\ mem'.order = mem.order
    BY <2>1 DEF HeldInv, TypeOK, Memories
  <2>5. /\ pc' \in {"sleep", "verify"} /\ bot'.tracked /\ bot'.pending = bot.pending
        /\ bot'.entryTime = bot.entryTime
    BY <2>1, <2>2, FailedSame DEF HeldInv
  <2> QED
    BY <2>2, <2>3, <2>4, <2>5, SameAccount DEF HeldInv, CountFits
<1> QED
  BY <1>1, <1>2

\* A list without the position is counted only when the position is not held, or when
\* none is counted yet.
LEMMA CheckMissingHeld ==
    ASSUME Calm, HeldInv, TypeOK', Quiet', CheckMissing PROVE HeldInv'
<1>1. PICK a \in Answers("check") :
        /\ a.sees \in {"none", "short"} /\ acct' = acct /\ mem' = [mem EXCEPT !.empty = a.empty]
        /\ IF bot.tracked THEN pc' = "confirm" /\ bot' = bot
                          ELSE pc' = "entry" /\ bot' = Cleared(bot)
        /\ pc = "check" /\ hist' = hist
  BY DEF CheckMissing
<1>2. acct.pos > 0 /\ ~a.empty => mem.missing = 0
  BY <1>1, ListSays, Fields DEF HeldInv, Calm
<1>3. mem'.missing = mem.missing /\ mem'.order = mem.order /\ mem'.empty = a.empty
  BY <1>1 DEF HeldInv, TypeOK, Memories
<1>4. mem.missing <= 1 /\ (~bot.tracked => acct.pos <= 0)
  BY <1>1 DEF HeldInv, CountFits, Tracks
<1>5. CASE bot.tracked
  BY <1>1, <1>2, <1>3, <1>4, <1>5, SameAccount
<1>6. CASE ~bot.tracked
  <2>1. ~bot'.tracked /\ bot'.pending = NoOrder
    BY <1>1, <1>6 DEF HeldInv, TypeOK, BotStates, Cleared
  <2> QED
    BY <1>1, <1>2, <1>3, <1>4, <1>6, <2>1, SameAccount
<1> QED
  BY <1>5, <1>6

\* What the bot takes as the close of its position came after it was opened, and while
\* the position is held there is no such fill.
LEMMA ClosingFillsAfter ==
    ASSUME HeldInv, bot.tracked
    PROVE  /\ \A k \in ClosingFills : k > hist.since
           /\ acct.pos > 0 => ClosingFills = {}
<1> USE DEF HeldInv
<1>1. DOMAIN acct.fills = 1..Len(acct.fills) /\ Len(acct.fills) \in Nat /\ hist.since \in Nat
  BY Fields
<1>2. ASSUME NEW k \in ClosingFills PROVE k > hist.since /\ ~(acct.pos > 0)
  <2>1. k \in 1..Len(acct.fills) /\ Belongs(k)
    BY <1>1, <1>2 DEF ClosingFills
  <2>2. CASE bot.pending # NoOrder /\ acct.fills[k] = bot.pending
    BY <1>1, <2>1, <2>2 DEF ClosesAfter
  <2>3. CASE Broker = "alpaca" /\ k > bot.entryTime
    BY <1>1, <2>1, <2>3 DEF ClosesAfter
  <2> QED
    BY <2>1, <2>2, <2>3 DEF Belongs
<1> QED
  BY <1>2

\* Booking a close made outside the bot is right when nothing is held.
LEMMA BookOutsideHeld ==
    ASSUME HeldInv, TypeOK', Quiet', BookOutside, acct' = acct, pc = "confirm", acct.pos <= 0
    PROVE  HeldInv'
<1>1. ~bot'.tracked /\ bot'.pending = NoOrder
  BY DEF HeldInv, TypeOK, BotStates, BookOutside, Cleared, ClearedAll, NoOrder
<1>2. mem'.missing = 0 /\ pc' \in {"entry", "sleep"}
  BY DEF HeldInv, TypeOK, Memories, BookOutside
<1> QED
  BY <1>1, <1>2, SameAccount

\* Two lists without the position are counted only when nothing is held.
LEMMA ConfirmsGone ==
    ASSUME HeldInv, ConfirmByCount PROVE acct.pos <= 0
<1>1. acct.pos \in Int /\ mem.missing \in Nat
  BY Fields DEF HeldInv
<1>2. mem.missing <= 1 /\ (acct.pos > 0 /\ ~mem.empty => mem.missing = 0)
  BY DEF HeldInv, CountFits, ConfirmByCount
<1>3. MissingNow >= 2
  BY DEF ConfirmByCount
<1>4. CASE mem.empty
  BY <1>1, <1>2, <1>3, <1>4 DEF MissingNow
<1>5. CASE ~mem.empty
  BY <1>1, <1>2, <1>3, <1>5 DEF MissingNow
<1> QED
  BY <1>4, <1>5

\* A close is confirmed only when nothing is held.
LEMMA ConfirmHeld ==
    ASSUME HeldInv, TypeOK', Quiet', ConfirmByFill \/ ConfirmByCount \/ NotConfirmed
    PROVE  HeldInv'
<1>1. pc = "confirm" /\ acct' = acct /\ bot.tracked /\ acct.pos \in Int
  BY Fields DEF HeldInv, Tracks, ConfirmByFill, ConfirmByCount, NotConfirmed
<1>2. CASE ConfirmByFill
  <2>1. acct.pos <= 0
    BY <1>1, <1>2, ClosingFillsAfter DEF ConfirmByFill
  <2> QED
    BY <1>1, <1>2, <2>1, BookOutsideHeld DEF ConfirmByFill
<1>3. CASE ConfirmByCount
  BY <1>1, <1>3, ConfirmsGone, BookOutsideHeld DEF ConfirmByCount
<1>4. CASE NotConfirmed
  <2>1. /\ pc' = "sleep" /\ bot'.tracked /\ bot'.pending = bot.pending
        /\ bot'.entryTime = bot.entryTime /\ hist' = hist
    BY <1>1, <1>4, FailedSame DEF HeldInv, NotConfirmed
  <2>2. mem'.missing <= 1
    <3>1. mem'.missing = MissingNow /\ MissingNow < 2
      BY <1>4 DEF HeldInv, TypeOK, Memories, NotConfirmed
    <3>2. MissingNow \in Nat
      BY Fields DEF HeldInv, MissingNow
    <3> QED
      BY <3>1, <3>2
  <2> QED
    BY <1>1, <2>1, <2>2, SameAccount
<1> QED
  BY <1>2, <1>3, <1>4

\* An entry goes out only while nothing is held and no buy is out.
LEMMA EntryChosenHeld ==
    ASSUME Calm, HeldInv, TypeOK', Quiet', EntrySkipped \/ EntryGo \/ SubmitFailed \/ EntrySave
    PROVE  HeldInv'
<1> USE DEF HeldInv
<1>1. CASE EntrySkipped \/ SubmitFailed
  <2>1. /\ pc \in {"entry", "submit"} /\ pc' = "sleep" /\ acct' = acct /\ bot' = bot /\ mem' = mem
    BY <1>1 DEF Calm, EntrySkipped, SubmitFailed
  <2>2. ~bot.tracked /\ acct.pos <= 0 /\ mem.missing <= 1
    BY <2>1 DEF Tracks, CountFits
  <2> QED
    BY <2>1, <2>2, SameAccount
<1>2. CASE EntryGo
  <2>1. PICK a \in Answers("entry") : a.sees \in {"none", "long"}
    BY <1>2 DEF EntryGo
  <2>2. pc = "entry" /\ pc' = "submit" /\ UNCHANGED <<acct, bot, mem, hist>>
    BY <1>2 DEF EntryGo
  <2>3. ~bot.tracked /\ bot.pending = NoOrder /\ acct.pos <= 0 /\ mem.missing <= 1
    BY <2>2 DEF Tracks, CountFits
  <2>4. acct.pos = 0
    <3>1. CASE Broker = "alpaca"
      BY <2>3, <3>1, Fields DEF SellsFit
    <3>2. CASE Broker = "ibkr"
      BY <2>1, <2>3, <3>2, ListSays, Fields DEF Calm
    <3> QED
      BY <3>1, <3>2, BrokerAssumption
  <2>5. Buys = {}
    <3>1. ASSUME NEW o \in Buys PROVE FALSE
      <4>1. acct.pos + o.qty <= 0 /\ o.qty > 0 /\ o.qty \in Nat
        BY <2>2, <3>1, Fields DEF BuysFit, IdsInOrder, Buys, Order
      <4> QED
        BY <2>4, <4>1
    <3> QED
      BY <3>1
  <2> QED
    BY <2>2, <2>3, <2>5, SameAccount
<1>3. CASE EntrySave
  <2>1. pc = "entrysave" /\ pc' = "sleep" /\ UNCHANGED <<acct, bot, mem, hist>>
    BY <1>3 DEF EntrySave
  <2>2. bot.tracked /\ mem.missing <= 1
    BY <2>1 DEF Tracks, CountFits
  <2> QED
    BY <2>1, <2>2, SameAccount
<1> QED
  BY <1>1, <1>2, <1>3

\* An accepted entry is the one buy that is out.
LEMMA SubmitHeld ==
    ASSUME HeldInv, TypeOK', Quiet', SubmitAccepted PROVE HeldInv'
<1> USE DEF HeldInv
<1>1. /\ pc = "submit" /\ pc' = "entrypoll" /\ bot' = bot /\ hist' = hist
      /\ mem'.order = acct.nextId /\ mem'.missing = mem.missing
  BY DEF SubmitAccepted, TypeOK, Memories
<1>2. ~bot.tracked /\ bot.pending = NoOrder /\ acct.pos <= 0 /\ Buys = {}
  BY <1>1 DEF Tracks, BuysFit
<1> DEFINE n == [id |-> acct.nextId, side |-> "buy", qty |-> 1, working |-> TRUE]
<1>3. /\ acct'.pos = acct.pos /\ acct'.fills = acct.fills /\ acct'.nextId = acct.nextId + 1
      /\ acct'.orders = acct.orders \cup {n}
  BY DEF SubmitAccepted, WithOrder, TypeOK, Accounts
<1>4. Buys' = {n} /\ Sells' = Sells
  BY <1>2, <1>3 DEF Buys, Sells
<1>5. IdsInOrder'
  <2>1. ASSUME NEW o \in acct'.orders PROVE o.qty > 0 /\ o.id < acct.nextId + 1
    <3>1. CASE o \in acct.orders
      BY <3>1, Fields DEF IdsInOrder, Order
    <3>2. CASE o = n
      BY <3>2, Fields
    <3> QED
      BY <1>3, <2>1, <3>1, <3>2
  <2>2. ASSUME NEW k \in DOMAIN acct.fills PROVE acct.fills[k] < acct.nextId + 1
    BY <2>2, Fields DEF IdsInOrder
  <2>3. acct.nextId + 1 > NoOrder
    BY Fields DEF NoOrder
  <2> QED
    BY <1>3, <2>1, <2>2, <2>3 DEF IdsInOrder
<1>6. BuysFit' /\ SellsFit'
  BY <1>1, <1>2, <1>3, <1>4, Fields DEF BuysFit, SellsFit
<1>7. Tracks' /\ ClosesAfter' /\ CountFits'
  BY <1>1, <1>2, <1>3 DEF Tracks, ClosesAfter, CountFits
<1> QED
  BY <1>5, <1>6, <1>7

\* The bot tracks the position once the entry has filled.
LEMMA TrackedHeld ==
    ASSUME Calm, HeldInv, TypeOK', Quiet', EntryTracked PROVE HeldInv'
<1> USE DEF HeldInv
<1>1. /\ pc = "entrypoll" /\ pc' = "entrysave" /\ acct' = acct /\ mem' = mem
      /\ bot' = Entered(bot) /\ hist' = Tracking(hist) /\ ~Unfilled(mem.order)
  BY DEF Calm, EntryTracked
<1>2. Buys = {}
  BY <1>1 DEF BuysFit, Unfilled, Buys
<1>3. Buys' = Buys /\ Sells' = Sells
  BY <1>1 DEF Buys, Sells
<1>4. /\ bot'.tracked /\ bot'.pending = NoOrder /\ bot'.entryTime = Len(acct.fills)
  BY <1>1 DEF Entered, TypeOK, BotStates, Tracks
<1>5. hist'.since = Len(acct.fills) /\ (acct.pos <= 0 => hist'.wasGone)
  BY <1>1 DEF Tracking, TypeOK, Histories
<1>6. IdsInOrder' /\ BuysFit' /\ SellsFit'
  BY <1>1, <1>2, <1>3 DEF IdsInOrder, BuysFit, SellsFit
<1>7. Tracks' /\ CountFits'
  BY <1>1, <1>4 DEF Tracks, CountFits
<1>8. ClosesAfter'
  BY <1>1, <1>4, <1>5, Fields DEF ClosesAfter
<1> QED
  BY <1>6, <1>7, <1>8

\* The steps of an exit that leave the account alone.
LEMMA VerifyHeld ==
    ASSUME HeldInv, TypeOK', Quiet', VerifyFailed \/ VerifyMismatch \/ VerifyOk PROVE HeldInv'
<1> USE DEF HeldInv
<1>1. pc = "verify" /\ acct' = acct /\ bot.tracked /\ mem.missing <= 1
  BY DEF Tracks, CountFits, VerifyFailed, VerifyMismatch, VerifyOk
<1>2. CASE VerifyFailed
  <2>1. /\ pc' = "sleep" /\ bot'.tracked /\ bot'.pending = bot.pending
        /\ bot'.entryTime = bot.entryTime /\ hist' = hist
        /\ mem'.missing = mem.missing
    BY <1>1, <1>2, FailedSame DEF VerifyFailed, NotSent, TypeOK, Memories
  <2> QED
    BY <1>1, <2>1, SameAccount
<1>3. CASE VerifyMismatch
  <2>1. acct.pos < 0
    BY <1>3, ListSays DEF VerifyMismatch
  <2>2. pc' = "sleep" /\ ~bot'.tracked /\ mem' = mem
    BY <1>3 DEF VerifyMismatch, TypeOK, BotStates
  <2> QED
    BY <1>1, <2>1, <2>2, Fields, SameAccount
<1>4. CASE VerifyOk
  <2>1. acct.pos > 0 /\ pc' = "cancel" /\ UNCHANGED <<bot, mem, hist>>
    BY <1>4, ListSays DEF VerifyOk
  <2>2. Buys = {}
    <3>1. ASSUME NEW o \in Buys PROVE FALSE
      <4>1. acct.pos + o.qty <= 0 /\ o.qty > 0 /\ o.qty \in Nat
        BY <1>1, <3>1, Fields DEF BuysFit, IdsInOrder, Buys, Order
      <4> QED
        BY <2>1, <4>1, Fields
    <3> QED
      BY <3>1
  <2> QED
    BY <1>1, <2>1, <2>2, SameAccount
<1> QED
  BY <1>2, <1>3, <1>4

\* Asking for the cancel of the open sells changes only whether they work.
LEMMA CancelHeld ==
    ASSUME HeldInv, TypeOK', Quiet', CancelSells PROVE HeldInv'
<1> USE DEF HeldInv
<1>1. pc = "cancel" /\ pc' = "close" /\ UNCHANGED <<bot, mem, hist>>
  BY DEF CancelSells
<1>2. bot.tracked /\ Buys = {}
  BY <1>1 DEF Tracks, BuysFit
<1>3. CASE acct' = acct
  BY <1>1, <1>2, <1>3, SameAccount DEF CountFits
<1>4. CASE acct' = [acct EXCEPT !.orders = (@ \ Sells) \cup {[o EXCEPT !.working = FALSE] : o \in Sells}]
  <2>1. /\ acct'.pos = acct.pos /\ acct'.fills = acct.fills /\ acct'.nextId = acct.nextId
        /\ acct'.orders = (acct.orders \ Sells) \cup {[o EXCEPT !.working = FALSE] : o \in Sells}
    BY <1>4 DEF TypeOK, Accounts
  <2>2. ASSUME NEW p \in acct'.orders
        PROVE  \E o \in acct.orders : /\ p.id = o.id /\ p.side = o.side /\ p.qty = o.qty
                                      /\ o \in Sells => p = [o EXCEPT !.working = FALSE]
    <3>1. CASE p \in acct.orders \ Sells
      BY <3>1
    <3>2. CASE p \in {[o EXCEPT !.working = FALSE] : o \in Sells}
      <4>1. PICK o \in Sells : p = [o EXCEPT !.working = FALSE]
        BY <3>2
      <4>2. o \in Order /\ o \in acct.orders
        BY <4>1, Fields DEF Sells
      <4> QED
        BY <4>1, <4>2 DEF Order
    <3> QED
      BY <2>1, <3>1, <3>2
  <2>3. Buys' = {}
    BY <1>2, <2>2 DEF Buys
  <2>4. \A p \in Sells' : \E o \in Sells : p = [o EXCEPT !.working = FALSE] /\ p.qty = o.qty
    BY <2>2 DEF Sells
  <2>5. IdsInOrder'
    BY <2>1, <2>2 DEF IdsInOrder
  <2>6. BuysFit'
    BY <1>1, <2>1, <2>3 DEF BuysFit
  <2>7. SellsFit'
    BY <2>1, <2>4 DEF SellsFit
  <2>8. Tracks' /\ ClosesAfter' /\ CountFits'
    BY <1>1, <1>2, <2>1 DEF Tracks, ClosesAfter, CountFits
  <2> QED
    BY <2>5, <2>6, <2>7, <2>8
<1> QED
  BY <1>3, <1>4 DEF CancelSells

\* Sending a close changes nothing the position depends on.
LEMMA SentSame ==
    ASSUME TypeOK PROVE Sent(hist).since = hist.since /\ Sent(hist).wasGone = hist.wasGone
<1> DEFINE C == [hist.closes EXCEPT ![bot.lastBar] = @ + 1]
           D == IF mem.checked THEN hist.blind ELSE hist.blind \cup {acct.nextId}
<1>1. ASSUME NEW c, NEW d PROVE /\ [hist EXCEPT !.closes = c, !.blind = d].since = hist.since
                                /\ [hist EXCEPT !.closes = c, !.blind = d].wasGone = hist.wasGone
  BY DEF TypeOK, Histories
<1>2. Sent(hist) = [hist EXCEPT !.closes = C, !.blind = D]
  BY DEF Sent
<1> HIDE DEF C, D
<1> QED
  BY <1>1, <1>2

\* An accepted close is for all that is held, and its id is newer than every fill.
LEMMA CloseHeld ==
    ASSUME HeldInv, TypeOK', Quiet', CloseAccepted PROVE HeldInv'
<1> USE DEF HeldInv
<1> DEFINE long == acct.pos > 0
           n == [id |-> acct.nextId, side |-> IF long THEN "sell" ELSE "buy",
                 qty |-> IF long THEN acct.pos ELSE -acct.pos, working |-> TRUE]
<1>1. /\ pc = "close" /\ pc' = "postclose" /\ acct.pos # 0 /\ (Broker = "alpaca" => Sells = {})
      /\ acct' = WithClose
  BY DEF CloseAccepted, CanClose
<1>2. bot.tracked /\ Buys = {}
  BY <1>1 DEF Tracks, BuysFit
<1>3. /\ bot'.tracked /\ bot'.pending = acct.nextId /\ bot'.entryTime = bot.entryTime
      /\ hist'.since = hist.since /\ hist'.wasGone = hist.wasGone
      /\ mem'.missing = mem.missing
  <2>1. bot' = [bot EXCEPT !.pending = acct.nextId] /\ hist' = Sent(hist)
    BY DEF CloseAccepted
  <2>2. hist'.since = hist.since /\ hist'.wasGone = hist.wasGone
    BY <2>1, SentSame
  <2>3. mem'.missing = mem.missing
    BY DEF CloseAccepted, TypeOK, Memories
  <2> QED
    BY <1>2, <2>1, <2>2, <2>3 DEF TypeOK, BotStates
<1>4. /\ acct'.pos = acct.pos /\ acct'.fills = acct.fills /\ acct'.nextId = acct.nextId + 1
      /\ acct'.orders = acct.orders \cup {n}
  BY <1>1 DEF WithClose, WithOrder, TypeOK, Accounts
<1>5. n.qty > 0 /\ n.id = acct.nextId
  BY <1>1, Fields
<1>6. IdsInOrder'
  <2>1. ASSUME NEW o \in acct'.orders PROVE o.qty > 0 /\ o.id < acct.nextId + 1
    <3>1. CASE o \in acct.orders
      BY <3>1, Fields DEF IdsInOrder, Order
    <3>2. CASE o = n
      BY <1>5, <3>2, Fields
    <3> QED
      BY <1>4, <2>1, <3>1, <3>2
  <2>2. ASSUME NEW k \in DOMAIN acct.fills PROVE acct.fills[k] < acct.nextId + 1
    BY <2>2, Fields DEF IdsInOrder
  <2>3. acct.nextId + 1 > NoOrder
    BY Fields DEF NoOrder
  <2> QED
    BY <1>4, <2>1, <2>2, <2>3 DEF IdsInOrder
<1>7. BuysFit' /\ SellsFit'
  <2>1. CASE long
    <3>1. Buys' = {} /\ Sells' = Sells \cup {n} /\ n.qty = acct.pos
      BY <1>2, <1>4, <2>1 DEF Buys, Sells
    <3> QED
      BY <1>1, <1>4, <3>1, Fields DEF BuysFit, SellsFit
  <2>2. CASE ~long
    <3>1. Buys' = {n} /\ Sells' = Sells /\ n.qty = -acct.pos
      BY <1>2, <1>4, <2>2 DEF Buys, Sells
    <3>2. Broker # "alpaca"
      BY <1>1, <2>2, Fields DEF SellsFit
    <3>3. acct.pos + n.qty <= 0 /\ acct.pos <= 1
      BY <2>2, <3>1, Fields
    <3> QED
      BY <1>1, <1>4, <3>1, <3>2, <3>3 DEF BuysFit, SellsFit
  <2> QED
    BY <2>1, <2>2
<1>8. Tracks' /\ CountFits'
  BY <1>1, <1>3 DEF Tracks, CountFits
<1>9. ClosesAfter'
  <2>1. ASSUME NEW k \in DOMAIN acct.fills PROVE acct.fills[k] # acct.nextId
    <3>1. acct.fills[k] \in Nat
      BY <2>1, Fields
    <3> QED
      BY <2>1, <3>1, Fields DEF IdsInOrder
  <2>2. \A k \in 1..hist.since : k \in DOMAIN acct.fills
    BY <1>2, Fields DEF ClosesAfter
  <2> QED
    BY <1>2, <1>3, <1>4, <2>1, <2>2 DEF ClosesAfter
<1> QED
  BY <1>6, <1>7, <1>8, <1>9

\* The other ends of an exit.
LEMMA ClosedHeld ==
    ASSUME Calm, HeldInv, TypeOK', Quiet', CloseFailed \/ PostCloseGivesUp \/ PostCloseGone
    PROVE  HeldInv'
<1> USE DEF HeldInv
<1>1. /\ pc \in {"close", "postclose"} /\ pc' = "sleep" /\ acct' = acct
      /\ bot.tracked /\ mem.missing <= 1
  BY DEF Calm, Tracks, CountFits, CloseFailed, PostCloseGivesUp, PostCloseGone
<1>2. CASE CloseFailed \/ PostCloseGivesUp
  <2>1. bot' = bot /\ hist' = hist /\ mem'.missing = mem.missing
    BY <1>2 DEF Calm, CloseFailed, PostCloseGivesUp, TypeOK, Memories
  <2> QED
    BY <1>1, <2>1, SameAccount
<1>3. CASE PostCloseGone
  <2>1. acct.pos <= 0
    BY <1>3, ListSays, Fields DEF Calm, PostCloseGone
  <2>2. ~bot'.tracked /\ mem' = mem
    BY <1>3 DEF PostCloseGone, TypeOK, BotStates, ClearedAll, Cleared
  <2> QED
    BY <1>1, <2>1, <2>2, SameAccount
<1> QED
  BY <1>2, <1>3

\* Every step of the tick.
LEMMA TickHeld ==
    ASSUME Calm, HeldInv, TypeOK', RunnerStep PROVE HeldInv'
<1>1. Quiet'
  BY DEF RunnerStep, Runs, HeldInv, Quiet
<1>2. ~SubmitTwice
  BY DEF Calm, SubmitTwice
<1>3. TickStart \/ IdlePoll \/ GraphRefused \/ IndicatorError \/ CookError
      \/ CheckStep \/ EntryStep \/ ExitStep
  BY DEF RunnerStep, Runs
<1>4. CASE TickStart \/ IdlePoll \/ GraphRefused \/ IndicatorError \/ CookError
  BY <1>1, <1>4, StartHeld
<1>5. CASE CheckStep
  BY <1>1, <1>5, CheckHeldHeld, CheckFailedHeldInv, CheckMissingHeld, ConfirmHeld DEF CheckStep
<1>6. CASE EntryStep
  BY <1>1, <1>2, <1>6, EntryChosenHeld, SubmitHeld, TrackedHeld DEF EntryStep
<1>7. CASE ExitStep
  BY <1>1, <1>7, VerifyHeld, CancelHeld, CloseHeld, ClosedHeld DEF ExitStep
<1> QED
  BY <1>3, <1>4, <1>5, <1>6, <1>7

\* A new position keeps the time the bot began to track, and notes when nothing is held.
LEMMA SetPosSame ==
    ASSUME TypeOK, NEW p \in Int, SetPos(p)
    PROVE  hist'.since = hist.since /\ (p <= 0 \/ hist.wasGone => hist'.wasGone)
  BY DEF SetPos, TypeOK, Histories

\* The broker fills a buy: it was the entry being polled for, or leaves nothing held.
LEMMA BuyFillHeld ==
    ASSUME HeldInv, TypeOK', Quiet', NEW o \in Buys, Fill(o) PROVE HeldInv'
<1> USE DEF HeldInv
<1> DEFINE p == acct.pos + o.qty
<1>1. /\ acct'.pos = p /\ acct'.orders = acct.orders \ {o} /\ acct'.nextId = acct.nextId
      /\ acct'.fills = acct.fills
      /\ UNCHANGED <<bot, mem, pc>> /\ hist'.since = hist.since
      /\ (p <= 0 => hist'.wasGone) /\ (hist.wasGone => hist'.wasGone)
  <2>1. o.side = "buy"
    BY DEF Buys
  <2> QED
    BY <2>1 DEF Fill, SetPos, TypeOK, Accounts, Histories
<1>2. o.qty \in Nat /\ o.qty > 0 /\ acct.pos \in Int /\ o \in acct.orders
  BY Fields DEF Buys, Order, IdsInOrder
<1>3. p <= (IF pc = "entrypoll" THEN 1 ELSE 0) /\ Buys' = {} /\ Sells' = Sells
  BY <1>1 DEF BuysFit, Buys, Sells
<1>4. IdsInOrder'
  BY <1>1 DEF IdsInOrder
<1>5. BuysFit'
  BY <1>1, <1>2, <1>3 DEF BuysFit
<1>6. SellsFit'
  <2>1. ASSUME Broker = "alpaca", NEW s \in Sells PROVE FALSE
    <3>1. s.qty = acct.pos /\ s.qty > 0 /\ p <= 1
      BY <1>2, <1>3, <2>1 DEF SellsFit, Sells, IdsInOrder
    <3> QED
      BY <1>2, <3>1
  <2> QED
    BY <1>1, <1>2, <1>3, <2>1 DEF SellsFit
<1>7. Tracks' /\ CountFits'
  <2>1. pc # "entrypoll" => p <= 0 /\ acct.pos <= 0
    BY <1>2, <1>3
  <2>2. Tracks'
    BY <1>1, <2>1 DEF Tracks
  <2>3. pc = "confirm" => ~(acct'.pos > 0)
    BY <1>1, <1>2, <2>1
  <2> QED
    BY <1>1, <2>2, <2>3 DEF CountFits
<1>8. ClosesAfter'
  <2>1. bot.tracked => p <= 0
    BY <1>3 DEF Tracks
  <2> QED
    BY <1>1, <1>2, <2>1 DEF ClosesAfter
<1> QED
  BY <1>4, <1>5, <1>6, <1>7, <1>8

\* A fill is added after those there are.
LEMMA OneMoreFill ==
    ASSUME NEW s \in Seq(Nat), NEW id \in Nat, NEW f, f = Append(s, id)
    PROVE  /\ Len(f) = Len(s) + 1
           /\ \A k \in DOMAIN s : f[k] = s[k]
           /\ DOMAIN s = 1..Len(s)
           /\ \A k \in DOMAIN f : f[k] = id \/ k \in DOMAIN s
  OBVIOUS

\* A closing fill, of a sell of the bot or of somebody else, leaves nothing held.
LEMMA CloseFillHeld ==
    ASSUME HeldInv, TypeOK', Quiet', NEW id \in Nat, id < acct.nextId,
           UNCHANGED <<bot, mem, pc>>,
           acct'.orders \subseteq acct.orders, acct'.nextId = acct.nextId,
           acct'.fills = Append(acct.fills, id), acct'.pos < acct.pos, acct'.pos <= 0,
           hist'.since = hist.since, hist'.wasGone,
           Broker = "alpaca" => acct'.pos = 0 /\ Sells' = {}
    PROVE  HeldInv'
<1> USE DEF HeldInv
<1>1. acct.pos \in Int /\ acct'.pos \in Int
  BY Fields DEF TypeOK, Accounts
<1>2. /\ Len(acct'.fills) = Len(acct.fills) + 1
      /\ \A k \in DOMAIN acct.fills : acct'.fills[k] = acct.fills[k]
      /\ DOMAIN acct.fills = 1..Len(acct.fills)
      /\ \A k \in DOMAIN acct'.fills : acct'.fills[k] = id \/ k \in DOMAIN acct.fills
  <2> DEFINE s == acct.fills
             f == acct'.fills
  <2>1. s \in Seq(Nat) /\ f = Append(s, id)
    BY Fields
  <2> HIDE DEF s, f
  <2>2. /\ Len(f) = Len(s) + 1
        /\ \A k \in DOMAIN s : f[k] = s[k]
        /\ DOMAIN s = 1..Len(s)
        /\ \A k \in DOMAIN f : f[k] = id \/ k \in DOMAIN s
    BY <2>1, OneMoreFill
  <2> QED
    BY <2>2 DEF s, f
<1>3. IdsInOrder'
  BY <1>2 DEF IdsInOrder
<1>4. Buys' \subseteq Buys
  BY DEF Buys
<1>5. BuysFit'
  <2>1. ASSUME NEW o \in Buys' PROVE acct'.pos + o.qty <= IF pc = "entrypoll" THEN 1 ELSE 0
    <3>1. o \in Buys /\ o.qty \in Nat
      BY <1>4, <2>1, Fields DEF Buys, Order
    <3> QED
      BY <1>1, <3>1 DEF BuysFit
  <2>2. acct'.pos <= 1
    BY <1>1
  <2> QED
    BY <1>4, <2>1, <2>2 DEF BuysFit
<1>6. SellsFit'
  BY <1>1 DEF SellsFit
<1>7. Tracks' /\ CountFits'
  BY <1>1 DEF Tracks, CountFits
<1>8. ClosesAfter'
  BY <1>1, <1>2, Fields DEF ClosesAfter
<1> QED
  BY <1>3, <1>5, <1>6, <1>7, <1>8

\* The broker's steps: fills, cancels, closes from outside, bars.
LEMMA BrokerHeld ==
    ASSUME Calm, HeldInv, TypeOK', BrokerStep PROVE HeldInv'
<1> USE DEF HeldInv
<1>1. Quiet'
  BY DEF BrokerStep, NewBar, OutsideClose, OutsideOpen, Fill, CancelDone, outside, Quiet
<1>2. ~OutsideOpen
  BY Fields DEF Calm, OutsideOpen
<1>3. CASE NewBar
  BY <1>1, <1>3, SameAccount DEF NewBar, BuysFit, Tracks, CountFits
<1>4. CASE OutsideClose
  <2>1. /\ acct.pos > 0 /\ acct'.pos = 0 /\ acct'.orders = acct.orders
        /\ acct'.nextId = acct.nextId /\ acct'.fills = Append(acct.fills, NoOrder)
        /\ (Broker = "alpaca" => Sells = {}) /\ UNCHANGED <<bot, mem, pc>>
    BY <1>4 DEF OutsideClose, TypeOK, Accounts
  <2>4. hist'.since = hist.since /\ hist'.wasGone
    BY <1>4, SetPosSame DEF OutsideClose
  <2>2. Sells' = Sells
    BY <2>1 DEF Sells
  <2>3. NoOrder \in Nat /\ NoOrder < acct.nextId
    BY Fields DEF NoOrder, IdsInOrder
  <2>5. acct.pos \in Int
    BY Fields DEF TypeOK, Accounts
  <2> HIDE DEF HeldInv
  <2>6. acct'.pos < acct.pos /\ acct'.pos <= 0 /\ acct'.orders \subseteq acct.orders
    BY <2>1, <2>5
  <2> QED
    BY <1>1, <2>1, <2>2, <2>3, <2>4, <2>6, CloseFillHeld
<1>5. ASSUME NEW o \in acct.orders, Fill(o) PROVE HeldInv'
  <2>1. CASE o.side = "buy"
    BY <1>1, <1>5, <2>1, BuyFillHeld DEF Buys
  <2>2. CASE o.side = "sell"
    <3>1. o.qty \in Nat /\ o.qty > 0 /\ o.id \in Nat /\ o.id < acct.nextId /\ acct.pos \in Int
      BY Fields DEF Order, IdsInOrder
    <3>2. acct.pos <= 1
      BY DEF BuysFit
    <3>3. acct.pos - o.qty <= 0 /\ acct.pos - o.qty < acct.pos
      BY <3>1, <3>2
    <3>4. /\ acct'.pos = acct.pos - o.qty /\ acct'.orders = acct.orders \ {o}
          /\ acct'.nextId = acct.nextId /\ acct'.fills = Append(acct.fills, o.id)
          /\ UNCHANGED <<bot, mem, pc>>
      BY <1>5, <2>2 DEF Fill, TypeOK, Accounts
    <3>5. hist'.since = hist.since /\ hist'.wasGone
      BY <1>5, <2>2, <3>3 DEF Fill, SetPos, TypeOK, Histories
    <3>6. Broker = "alpaca" => acct'.pos = 0 /\ Sells' = {}
      <4>1. o \in Sells /\ Sells' = Sells \ {o}
        BY <2>2, <3>4 DEF Sells
      <4> QED
        BY <3>1, <3>4, <4>1 DEF SellsFit
    <3> QED
      BY <1>1, <3>1, <3>3, <3>4, <3>5, <3>6, CloseFillHeld
  <2> QED
    BY <2>1, <2>2, Fields DEF Order, Side
<1>6. ASSUME NEW o \in acct.orders, CancelDone(o) PROVE HeldInv'
  <2>1. /\ acct'.pos = acct.pos /\ acct'.orders = acct.orders \ {o}
        /\ acct'.nextId = acct.nextId /\ acct'.fills = acct.fills
        /\ UNCHANGED <<bot, mem, pc, hist>>
    BY <1>6 DEF CancelDone, TypeOK, Accounts
  <2>2. Buys' \subseteq Buys /\ Sells' \subseteq Sells
    BY <2>1 DEF Buys, Sells
  <2>3. IdsInOrder' /\ BuysFit' /\ SellsFit'
    BY <2>1, <2>2 DEF IdsInOrder, BuysFit, SellsFit
  <2>4. Tracks' /\ ClosesAfter' /\ CountFits'
    BY <2>1 DEF Tracks, ClosesAfter, CountFits
  <2> QED
    BY <1>1, <2>3, <2>4
<1> QED
  BY <1>2, <1>3, <1>4, <1>5, <1>6 DEF BrokerStep

\* The task ends and starts again; nothing else runs.
LEMMA RestHeld ==
    ASSUME Calm, HeldInv, TypeOK', TaskStep \/ UserStep PROVE HeldInv'
<1> USE DEF HeldInv
<1>1. ~StrayBuy /\ ~StraySell /\ ~Stop /\ ~StopClose /\ ~StopSave /\ ~ManualCheck
      /\ ~ManualSubmit /\ ~ManualTracked
  BY DEF Calm, Quiet, NoManual, StrayBuy, StraySell, Stop, StopClose, StopSave, ManualCheck,
         ManualSubmit, ManualTracked
<1>2. ~Crash
  BY Fields DEF Calm, Crash
<1>3. CASE RunnerEnds
  <2>1. /\ pc = "sleep" /\ pc' = "sleep" /\ UNCHANGED <<acct, bot, mem, hist>>
    BY <1>3 DEF RunnerEnds, Quiet
  <2>2. Quiet'
    BY <1>3, <2>1 DEF RunnerEnds, Quiet
  <2> QED
    BY <2>1, <2>2, SameAccount DEF Tracks, CountFits
<1>4. CASE Reject
  <2>1. /\ UNCHANGED <<acct, mem, pc, hist>> /\ bot'.tracked = bot.tracked
        /\ bot'.pending = bot.pending /\ bot'.entryTime = bot.entryTime
    BY <1>4 DEF Reject, TypeOK, BotStates
  <2>2. Quiet'
    BY <1>4 DEF Reject, outside, Quiet
  <2> QED
    BY <2>1, <2>2, SameAccount DEF BuysFit, Tracks, CountFits
<1>5. CASE Start
  <2>1. pc = "sleep" /\ pc' = "sleep" /\ acct' = acct
    BY <1>5 DEF Start, Quiet
  <2>2. /\ bot'.tracked = bot.tracked /\ bot'.pending = bot.pending
        /\ bot'.entryTime = bot.entryTime
        /\ hist'.since = hist.since /\ hist'.wasGone = hist.wasGone /\ mem'.missing = 0
    BY <1>5 DEF Start, FreshMem, TypeOK, BotStates, Histories
  <2>3. Quiet'
    BY <1>5, <2>1 DEF Start, Quiet
  <2> QED
    BY <2>1, <2>2, <2>3, SameAccount DEF Tracks
<1> QED
  BY <1>1, <1>2, <1>3, <1>4, <1>5 DEF TaskStep, UserStep

\* The inductive invariant holds at first and is kept.
LEMMA HeldInit == Init => HeldInv
<1> SUFFICES ASSUME Init PROVE HeldInv
  OBVIOUS
<1>1. TypeOK
  BY InitType
<1>2. Quiet /\ IdsInOrder /\ BuysFit /\ SellsFit
  BY DEF Init, Quiet, IdsInOrder, BuysFit, SellsFit, Buys, Sells, NoOrder
<1>3. Tracks /\ ClosesAfter /\ CountFits
  BY DEF Init, Tracks, ClosesAfter, CountFits, FreshMem
<1> QED
  BY <1>1, <1>2, <1>3 DEF HeldInv

LEMMA HeldInductive ==
    ASSUME Calm, HeldInv, [Next]_vars, TypeOK' PROVE HeldInv'
<1>1. CASE UNCHANGED vars
  BY <1>1 DEF vars, HeldInv, Quiet, IdsInOrder, BuysFit, SellsFit, Tracks, ClosesAfter, CountFits,
              Buys, Sells, TypeOK
<1> QED
  BY <1>1, TickHeld, BrokerHeld, RestHeld DEF Next

LEMMA HeldHolds == ASSUME Calm PROVE Spec => []HeldInv
<1>1. HeldInv /\ TypeOK' /\ [Next]_vars => HeldInv'
  BY HeldInductive
<1> QED
  BY <1>1, HeldInit, TypeCorrect, PTL DEF Spec

\* No step of a calm bot but a fill moves the position, and a fill forgets nothing.
LEMMA ForgetsAtRest ==
    ASSUME Calm, HeldInv, TypeOK', [Next]_vars, bot.tracked, ~bot'.tracked
    PROVE  acct' = acct /\ pc' # "entrypoll"
<1> USE DEF HeldInv
<1>1. bot' # bot /\ pc \notin {"submit", "entrypoll"}
  BY DEF Tracks
<1>2. ~BrokerStep
  BY <1>1 DEF BrokerStep, NewBar, OutsideClose, OutsideOpen, Fill, CancelDone
<1>3. CASE TaskStep \/ UserStep
  <2>1. RunnerEnds \/ Reject \/ Start
    BY <1>3, Fields DEF Calm, Quiet, NoManual, TaskStep, UserStep, StrayBuy, StraySell, Stop,
       StopClose, StopSave, ManualCheck, ManualSubmit, ManualTracked, Crash
  <2>2. bot'.tracked
    BY <2>1 DEF RunnerEnds, Reject, Start, TypeOK, BotStates
  <2> QED
    BY <2>2
<1>4. CASE RunnerStep
  <2>1. TickStart \/ IdlePoll \/ GraphRefused \/ IndicatorError \/ CookError
        \/ CheckStep \/ EntryStep \/ ExitStep
    BY <1>4 DEF RunnerStep, Runs
  <2>2. CASE TickStart \/ IdlePoll \/ GraphRefused \/ IndicatorError \/ CookError
    BY <1>1, <2>2 DEF TickStart, IdlePoll, GraphRefused, IndicatorError, CookError, FailTick
  <2>3. CASE CheckStep
    <3>1. acct' = acct
      BY <2>3 DEF CheckStep, CheckHeld, CheckFailedFlat, CheckFailedHeld, CheckMissing,
                  ConfirmByFill, ConfirmByCount, NotConfirmed
    <3>2. pc \in {"check", "confirm"} /\ pc' \in {"sleep", "verify", "confirm", "entry"}
      BY <2>3 DEF CheckStep, CheckHeld, CheckFailedFlat, CheckFailedHeld, CheckMissing,
                  ConfirmByFill, ConfirmByCount, NotConfirmed, FailTick, BookOutside
    <3> QED
      BY <3>1, <3>2
  <2>4. CASE EntryStep
    BY <1>1, <2>4 DEF EntryStep, EntrySkipped, EntryGo, SubmitAccepted, SubmitTwice,
                      SubmitFailed, EntryTracked, EntrySave
  <2>5. CASE ExitStep
    <3>1. ~CancelSells
      BY <1>1 DEF CancelSells
    <3>2. ~CloseAccepted
      BY DEF CloseAccepted, TypeOK, BotStates
    <3>3. ~CloseFailed
      BY <1>1 DEF CloseFailed
    <3> QED
      BY <2>5, <3>1, <3>2, <3>3 DEF ExitStep, VerifyFailed, NotSent, FailTick, VerifyMismatch,
                                    VerifyOk, PostCloseGivesUp, PostCloseGone
  <2> QED
    BY <2>1, <2>2, <2>3, <2>4, <2>5
<1> QED
  BY <1>1, <1>2, <1>3, <1>4 DEF Next, vars

\* A calm bot never stacks a second position on one it holds.
THEOREM NeverStacks == ASSUME Calm PROVE Spec => []NoStacking
<1>1. HeldInv => NoStacking
  BY DEF HeldInv, BuysFit, NoStacking
<1> QED
  BY <1>1, HeldHolds, PTL

LEMMA ForgetsGone ==
    ASSUME Calm, HeldInv, TypeOK', [Next]_vars PROVE DropsOnlyFlat
<1> SUFFICES ASSUME bot.tracked, ~bot'.tracked PROVE hist.wasGone
  BY DEF DropsOnlyFlat
<1>1. acct'.pos <= 0
  BY HeldInductive, ForgetsAtRest DEF HeldInv, Tracks
<1>2. acct' = acct
  BY ForgetsAtRest DEF HeldInv
<1> QED
  BY <1>1, <1>2 DEF HeldInv, ClosesAfter

\* A calm bot forgets a tracked position only after the broker stopped holding it.
THEOREM ForgetsOnlyGone == ASSUME Calm PROVE Spec => NeverDropHeld
<1>1. HeldInv /\ TypeOK' /\ [Next]_vars => DropsOnlyFlat
  BY ForgetsGone
<1> QED
  BY <1>1, HeldHolds, TypeCorrect, PTL DEF Spec, NeverDropHeld

LEMMA BooksOwn == ASSUME HeldInv PROVE BooksOwnFill
  BY ClosingFillsAfter DEF HeldInv, Tracks, BooksOwnFill

\* A calm bot takes as the close of its position only a fill that came after it was opened.
THEOREM BooksOwnFills == ASSUME Calm PROVE Spec => OnlyOwnFills
<1>1. HeldInv => BooksOwnFill
  BY BooksOwn
<1> QED
  BY <1>1, HeldHolds, PTL DEF OnlyOwnFills

-----------------------------------------------------------------------------
(* Rows.  On Alpaca the position of a calm bot closes once, and each row the *)
(* bot books uses up one closing.                                          *)

\* The position the bot tracks, or the entry it polls for, was opened and closed again.
OverNow == acct.pos = 0 /\ (bot.tracked \/ (pc = "entrypoll" /\ Buys = {}))
RowsInv == hist.rows + (IF OverNow THEN 1 ELSE 0) <= hist.flats

SameRows == hist'.rows = hist.rows /\ hist'.flats = hist.flats

LEMMA RowCounts ==
    ASSUME TypeOK PROVE hist.rows \in Nat /\ hist.flats \in Nat /\ hist.crashes \in Nat
  BY DEF TypeOK, Histories

\* Counts change neither when a position begins to be tracked, nor by a look at the
\* exits, nor by a close that is sent.
LEMMA CountsSame ==
    ASSUME TypeOK
    PROVE  /\ Tracking(hist).rows = hist.rows /\ Tracking(hist).flats = hist.flats
           /\ \A b : Looked(hist, b).rows = hist.rows /\ Looked(hist, b).flats = hist.flats
           /\ Sent(hist).rows = hist.rows /\ Sent(hist).flats = hist.flats
<1>1. Tracking(hist).rows = hist.rows /\ Tracking(hist).flats = hist.flats
  BY DEF Tracking, TypeOK, Histories
<1>2. ASSUME NEW b PROVE Looked(hist, b).rows = hist.rows /\ Looked(hist, b).flats = hist.flats
  <2>1. ASSUME NEW e PROVE /\ [hist EXCEPT !.evals = e].rows = hist.rows
                           /\ [hist EXCEPT !.evals = e].flats = hist.flats
    BY DEF TypeOK, Histories
  <2> QED
    BY <2>1, Zenon DEF Looked
<1>3. Sent(hist).rows = hist.rows /\ Sent(hist).flats = hist.flats
  <2> DEFINE C == [hist.closes EXCEPT ![bot.lastBar] = @ + 1]
             D == IF mem.checked THEN hist.blind ELSE hist.blind \cup {acct.nextId}
  <2>1. ASSUME NEW c, NEW d PROVE /\ [hist EXCEPT !.closes = c, !.blind = d].rows = hist.rows
                                  /\ [hist EXCEPT !.closes = c, !.blind = d].flats = hist.flats
    BY DEF TypeOK, Histories
  <2>2. Sent(hist) = [hist EXCEPT !.closes = C, !.blind = D]
    BY DEF Sent
  <2> HIDE DEF C, D
  <2> QED
    BY <2>1, <2>2
<1> QED
  BY <1>1, <1>2, <1>3

\* A step that books nothing and moves no position.
LEMMA NoRow ==
    ASSUME RowsInv, SameRows, OverNow' => OverNow, TypeOK PROVE RowsInv'
  BY RowCounts DEF RowsInv, SameRows

\* A step that books one row for a position that is over.
LEMMA OneRow ==
    ASSUME RowsInv, TypeOK, OverNow, ~OverNow', hist'.rows = hist.rows + 1, hist'.flats = hist.flats
    PROVE  RowsInv'
  BY RowCounts DEF RowsInv

\* The position check books a row only for a position that is over.
LEMMA CheckRows ==
    ASSUME Broker = "alpaca", HeldInv, RowsInv, CheckStep PROVE RowsInv'
<1> USE DEF HeldInv
<1>1. acct' = acct /\ acct.pos >= 0 /\ acct.pos \in Int
      /\ pc \in {"check", "confirm"} /\ pc' # "entrypoll"
  BY Fields DEF SellsFit, CheckStep, CheckHeld, CheckFailedFlat, CheckFailedHeld, CheckMissing,
            ConfirmByFill, ConfirmByCount, NotConfirmed, FailTick, BookOutside
<1>2. CASE CheckHeld
  <2>1. PICK a \in Answers("check"), due \in BOOLEAN : a.sees = "long" /\ Evaluate(due, TRUE)
    BY <1>2, Zenon DEF CheckHeld
  <2>2. acct.pos > 0
    BY <2>1, ListSays
  <2>3. bot.tracked
    BY <1>1, <2>2 DEF Tracks
  <2>4. SameRows
    BY <2>1, <2>3, CountsSame DEF Evaluate, SameRows
  <2> QED
    BY <1>1, <2>2, <2>4, NoRow DEF OverNow
<1>3. CASE CheckFailedFlat
  <2>1. SameRows /\ ~bot'.tracked
    BY <1>3, FailedSame DEF CheckFailedFlat, SameRows
  <2> QED
    BY <1>1, <2>1, NoRow DEF OverNow
<1>4. CASE CheckFailedHeld
  <2>1. bot.tracked /\ \E due \in BOOLEAN : Evaluate(due, FALSE)
    BY <1>4, Zenon DEF CheckFailedHeld
  <2>2. SameRows
    BY <2>1, CountsSame DEF Evaluate, SameRows
  <2> QED
    BY <1>1, <2>1, <2>2, NoRow DEF OverNow
<1>5. CASE CheckMissing
  <2>1. SameRows /\ (bot'.tracked => bot.tracked)
    BY <1>5 DEF CheckMissing, SameRows, Cleared, TypeOK, BotStates
  <2> QED
    BY <1>1, <2>1, NoRow DEF OverNow
<1>6. CASE ConfirmByFill \/ ConfirmByCount
  <2>1. pc = "confirm" /\ bot.tracked
    BY <1>6 DEF Tracks, ConfirmByFill, ConfirmByCount
  <2>2. acct.pos <= 0
    <3>1. CASE ConfirmByFill
      BY <1>1, <2>1, <3>1, ClosingFillsAfter DEF ConfirmByFill
    <3>2. CASE ConfirmByCount
      BY <3>2, ConfirmsGone
    <3> QED
      BY <1>6, <3>1, <3>2
  <2>3. OverNow
    BY <1>1, <2>1, <2>2 DEF OverNow
  <2>4. /\ hist' = Booked(hist) /\ ~bot'.tracked
    BY <1>6 DEF ConfirmByFill, ConfirmByCount, BookOutside, Cleared, ClearedAll, TypeOK, BotStates
  <2>5. hist'.rows = hist.rows + 1 /\ hist'.flats = hist.flats
    BY <2>4 DEF Booked, TypeOK, Histories
  <2>6. ~OverNow'
    BY <1>1, <2>4 DEF OverNow
  <2> QED
    BY <2>3, <2>5, <2>6, OneRow
<1>7. CASE NotConfirmed
  <2>1. SameRows /\ bot'.tracked = bot.tracked
    BY <1>7, FailedSame DEF NotConfirmed, SameRows
  <2> QED
    BY <1>1, <2>1, NoRow DEF OverNow
<1> QED
  BY <1>2, <1>3, <1>4, <1>5, <1>6, <1>7 DEF CheckStep

\* An entry books nothing; the position it opened may be over before it is tracked.
LEMMA EntryRows ==
    ASSUME Calm, HeldInv, RowsInv, EntryStep PROVE RowsInv'
<1> USE DEF HeldInv
<1>1. CASE EntrySkipped \/ EntryGo \/ SubmitFailed \/ EntrySave
  <2>1. /\ acct' = acct /\ bot' = bot /\ hist' = hist /\ pc' # "entrypoll"
    BY <1>1 DEF Calm, EntrySkipped, EntryGo, SubmitFailed, EntrySave
  <2> QED
    BY <2>1, NoRow DEF OverNow, SameRows
<1>2. CASE SubmitAccepted
  <2>1. bot' = bot /\ hist' = hist /\ ~bot.tracked
    BY <1>2 DEF SubmitAccepted, Tracks
  <2>2. Buys' # {}
    <3> DEFINE n == [id |-> acct.nextId, side |-> "buy", qty |-> 1, working |-> TRUE]
    <3>1. n \in acct'.orders
      BY <1>2 DEF SubmitAccepted, WithOrder, TypeOK, Accounts
    <3>2. n.side = "buy"
      OBVIOUS
    <3> HIDE DEF n
    <3> QED
      BY <3>1, <3>2 DEF Buys
  <2> QED
    BY <2>1, <2>2, NoRow DEF OverNow, SameRows
<1>3. CASE EntryTracked
  <2>1. pc = "entrypoll" /\ acct' = acct /\ hist' = Tracking(hist) /\ ~Unfilled(mem.order)
    BY <1>3 DEF Calm, EntryTracked
  <2>2. Buys = {}
    BY <2>1 DEF BuysFit, Unfilled, Buys
  <2> QED
    BY <2>1, <2>2, CountsSame, NoRow DEF OverNow, SameRows
<1>4. ~SubmitTwice
  BY DEF Calm, SubmitTwice
<1> QED
  BY <1>1, <1>2, <1>3, <1>4 DEF EntryStep

\* An exit books one row, once the close it sent has filled.
LEMMA ExitRows ==
    ASSUME Calm, Broker = "alpaca", HeldInv, RowsInv, ExitStep PROVE RowsInv'
<1> USE DEF HeldInv
<1>1. acct.pos >= 0 /\ acct.pos \in Int /\ bot.tracked
      /\ pc \in {"verify", "cancel", "close", "postclose"} /\ pc' # "entrypoll"
  BY Fields DEF SellsFit, Tracks, ExitStep, VerifyFailed, VerifyMismatch, VerifyOk, CancelSells,
            CloseAccepted, CloseFailed, PostCloseGivesUp, PostCloseGone, NotSent, FailTick
<1>2. CASE PostCloseGone
  <2>1. acct.pos = 0 /\ acct' = acct
    BY <1>1, <1>2, ListSays DEF Calm, PostCloseGone
  <2>2. hist'.rows = hist.rows + 1 /\ hist'.flats = hist.flats
    BY <1>2 DEF PostCloseGone, Booked, TypeOK, Histories
  <2>3. ~bot'.tracked
    BY <1>2 DEF PostCloseGone, ClearedAll, Cleared, TypeOK, BotStates
  <2> QED
    BY <1>1, <2>1, <2>2, <2>3, OneRow DEF OverNow
<1>3. CASE ~PostCloseGone
  <2>1. acct'.pos = acct.pos
    BY <1>1, <1>3 DEF ExitStep, VerifyFailed, VerifyMismatch, VerifyOk, CancelSells,
            CloseAccepted, CloseFailed, PostCloseGivesUp, WithClose, WithOrder, Calm,
            TypeOK, Accounts
  <2>2. SameRows
    BY <1>1, <1>3, CountsSame DEF ExitStep, VerifyFailed, VerifyMismatch, VerifyOk, CancelSells,
            CloseAccepted, CloseFailed, PostCloseGivesUp, NotSent, Calm, SameRows
  <2> QED
    BY <1>1, <2>1, <2>2, NoRow DEF OverNow
<1> QED
  BY <1>2, <1>3

\* What is not the check, the entry or the exit books nothing; a fill that closes the
\* position is counted before the bot can book it.
LEMMA OtherRows ==
    ASSUME Calm, HeldInv, RowsInv, TypeOK', [Next]_vars, ~RunnerStep PROVE RowsInv'
<1> USE DEF HeldInv
<1>1. CASE UNCHANGED vars
  BY <1>1 DEF vars, RowsInv, OverNow, Buys
<1>2. CASE TaskStep \/ UserStep
  <2>1. RunnerEnds \/ Reject \/ Start
    BY <1>2, Fields DEF Calm, Quiet, NoManual, TaskStep, UserStep, StrayBuy, StraySell, Stop,
       StopClose, StopSave, ManualCheck, ManualSubmit, ManualTracked, Crash
  <2>2. /\ acct' = acct /\ bot'.tracked = bot.tracked /\ SameRows
        /\ (pc' = "entrypoll" => pc = "entrypoll")
    <3>1. CASE RunnerEnds
      BY <3>1 DEF RunnerEnds, SameRows
    <3>2. CASE Reject
      BY <3>2 DEF Reject, outside, TypeOK, BotStates, SameRows
    <3>3. CASE Start
      BY <3>3 DEF Start, TypeOK, BotStates, Histories, SameRows
    <3> QED
      BY <2>1, <3>1, <3>2, <3>3
  <2> QED
    BY <2>2, NoRow DEF OverNow, Buys
<1>3. CASE NewBar
  BY <1>3, NoRow DEF NewBar, OverNow, Buys, SameRows
<1>4. ~OutsideOpen
  BY Fields DEF Calm, OutsideOpen
<1>5. ASSUME NEW o \in acct.orders, CancelDone(o) PROVE RowsInv'
  <2>1. /\ acct'.pos = acct.pos /\ acct'.orders = acct.orders \ {o}
        /\ UNCHANGED <<bot, pc, hist>>
    BY <1>5 DEF CancelDone, TypeOK, Accounts
  <2>2. CASE pc = "entrypoll" /\ o.side = "buy"
    BY <1>5, <2>2 DEF CancelDone, Buys, BuysFit
  <2>3. CASE ~(pc = "entrypoll" /\ o.side = "buy")
    <3>1. OverNow' => OverNow
      BY <2>1, <2>3 DEF OverNow, Buys
    <3> QED
      BY <2>1, <3>1, NoRow DEF SameRows
  <2> QED
    BY <2>2, <2>3
<1>6. ASSUME NEW p \in Int, SetPos(p), acct'.pos = p, p # acct.pos PROVE RowsInv'
  <2>1. CASE p = 0
    <3>1. hist'.flats = hist.flats + 1 /\ hist'.rows = hist.rows /\ ~OverNow
      BY <1>6, <2>1 DEF SetPos, TypeOK, Histories, OverNow
    <3> QED
      BY <3>1, RowCounts DEF RowsInv
  <2>2. CASE p # 0
    <3>1. SameRows /\ ~OverNow'
      BY <1>6, <2>2 DEF SetPos, TypeOK, Histories, OverNow, SameRows
    <3> QED
      BY <3>1, NoRow
  <2> QED
    BY <2>1, <2>2
<1>7. CASE OutsideClose
  <2>1. acct.pos > 0 /\ acct'.pos = 0 /\ SetPos(0)
    BY <1>7 DEF OutsideClose, TypeOK, Accounts
  <2> QED
    BY <1>6, <2>1
<1>8. ASSUME NEW o \in acct.orders, Fill(o) PROVE RowsInv'
  <2>1. o.qty \in Nat /\ o.qty > 0 /\ acct.pos \in Int
    BY Fields DEF Order, IdsInOrder
  <2> DEFINE p == IF o.side = "buy" THEN acct.pos + o.qty ELSE acct.pos - o.qty
  <2>2. p \in Int /\ p # acct.pos
    BY <2>1
  <2>3. acct'.pos = p /\ SetPos(p)
    BY <1>8 DEF Fill, TypeOK, Accounts
  <2> HIDE DEF p
  <2> QED
    BY <1>6, <2>2, <2>3
<1> QED
  BY <1>1, <1>2, <1>3, <1>4, <1>5, <1>7, <1>8 DEF Next, BrokerStep

\* The ticks of the bot.
LEMMA TickRows ==
    ASSUME Calm, Broker = "alpaca", HeldInv, RowsInv, RunnerStep PROVE RowsInv'
<1>1. CASE TickStart \/ IdlePoll \/ GraphRefused \/ IndicatorError \/ CookError
  <2>1. /\ acct' = acct /\ bot'.tracked = bot.tracked /\ hist' = hist /\ pc' # "entrypoll"
    BY <1>1, FailedSame DEF HeldInv, TickStart, IdlePoll, GraphRefused, IndicatorError, CookError,
                            TypeOK, BotStates
  <2> QED
    BY <2>1, NoRow DEF HeldInv, OverNow, SameRows
<1> QED
  BY <1>1, CheckRows, EntryRows, ExitRows DEF RunnerStep, Runs

LEMMA RowsInit == Init => RowsInv
  BY DEF Init, RowsInv, OverNow

LEMMA RowsBound == ASSUME HeldInv, RowsInv PROVE RowsMatchCloses
  BY RowCounts DEF HeldInv, RowsInv, RowsMatchCloses

\* On Alpaca every exit row a calm bot books stands for one closing of its position.
THEOREM RowsMatch == ASSUME Calm, Broker = "alpaca" PROVE Spec => []RowsMatchCloses
<1>1. Init => RowsInv
  BY RowsInit
<1>2. HeldInv /\ RowsInv /\ TypeOK' /\ [Next]_vars => RowsInv'
  BY OtherRows, TickRows
<1>3. HeldInv /\ RowsInv => RowsMatchCloses
  BY RowsBound
<1> QED
  BY <1>1, <1>2, <1>3, HeldHolds, TypeCorrect, PTL DEF Spec

-----------------------------------------------------------------------------
(* Rows under Stops, crashes, lost replies and adopted positions, on Alpaca  *)
(* and with position lists that tell the truth or fail.                      *)

Told == Broker = "alpaca" /\ OddAt = {} /\ Prompt /\ ~MayManualBuy

\* One sell at most is out, for no more than what is held; the order an entry is polled
\* for is a buy, and nobody asks for its cancel.
OrdersFit ==
    /\ acct.pos >= 0
    /\ \A o \in acct.orders : o.qty > 0 /\ o.id < acct.nextId
    /\ \A o \in Buys : o.working
    /\ \A o, p \in Sells : o = p
    /\ \A o \in Sells : o.qty <= acct.pos
    /\ pc = "entrypoll" => mem.order < acct.nextId /\ \A o \in acct.orders : o.id = mem.order => o \in Buys

\* A closing was counted that the bot may book: of the position it tracks, of the entry it
\* polls for, of the close it sent, or of the position whose close it confirms.
RowDue ==
    \/ pc = "confirm"
    \/ /\ acct.pos = 0
       /\ bot.tracked \/ pc = "postclose" \/ (pc = "entrypoll" /\ ~Unfilled(mem.order))

RowsTold == hist.rows + (IF RowDue THEN 1 ELSE 0) <= hist.flats + hist.crashes

\* A task that is off left no tick behind.
Rests == live = "off" => pc = "sleep"

ToldInv == TypeOK /\ manual = NoManual /\ Rests /\ OrdersFit /\ RowsTold

SameCounts == SameRows /\ hist'.crashes = hist.crashes

\* A step that books nothing and counts no closing.
LEMMA NoRowTold ==
    ASSUME TypeOK, RowsTold, SameCounts, RowDue' => RowDue PROVE RowsTold'
  BY RowCounts DEF RowsTold, SameCounts, SameRows

\* A step that books the row that is due.
LEMMA OneRowTold ==
    ASSUME TypeOK, RowsTold, RowDue, ~RowDue', hist'.rows = hist.rows + 1,
           hist'.flats = hist.flats, hist'.crashes = hist.crashes
    PROVE  RowsTold'
  BY RowCounts DEF RowsTold

\* A step that leaves the account alone.
LEMMA SameOrders ==
    ASSUME OrdersFit, acct' = acct,
           pc' = "entrypoll" => pc = "entrypoll" /\ mem'.order = mem.order
    PROVE  OrdersFit'
<1>1. Buys' = Buys /\ Sells' = Sells
  BY DEF Buys, Sells
<1> QED
  BY <1>1 DEF OrdersFit

\* A step that places an order.
LEMMA PlacedOrder ==
    ASSUME TypeOK, OrdersFit, NEW side \in Side, NEW q \in Nat, q > 0,
           acct' = WithOrder(side, q), side = "sell" => Sells = {} /\ q <= acct.pos,
           pc' = "entrypoll" => \/ pc = "entrypoll" /\ mem'.order = mem.order
                                \/ mem'.order = acct.nextId /\ side = "buy"
    PROVE  /\ OrdersFit' /\ acct'.pos = acct.pos
           /\ pc' = "entrypoll" /\ pc = "entrypoll" /\ mem'.order = mem.order =>
                Unfilled(mem.order)' = Unfilled(mem.order)
           /\ pc' = "entrypoll" /\ mem'.order = acct.nextId => Unfilled(mem.order)'
<1> DEFINE n == [id |-> acct.nextId, side |-> side, qty |-> q, working |-> TRUE]
<1>1. /\ acct'.pos = acct.pos /\ acct'.nextId = acct.nextId + 1
      /\ acct'.orders = acct.orders \cup {n}
  BY DEF WithOrder, TypeOK, Accounts
<1>2. n.id = acct.nextId /\ n.side = side /\ n.qty = q /\ n.working
  OBVIOUS
<1>3. acct.nextId \in Nat /\ acct.pos \in Int /\ mem.order \in Nat /\ acct.orders \subseteq Order
  BY Fields
<1>4. \A o \in acct.orders : o.id \in Nat /\ o.qty \in Nat
  BY <1>3 DEF Order
<1> HIDE DEF n
<1>5. /\ \A o \in Buys' : o \in Buys \/ o = n
      /\ Buys \subseteq Buys' /\ (side = "buy" => n \in Buys')
      /\ Sells' = IF side = "sell" THEN Sells \cup {n} ELSE Sells
  BY <1>1, <1>2 DEF Buys, Sells, Side
<1>6. ASSUME NEW o \in acct'.orders PROVE o.qty > 0 /\ o.id < acct'.nextId
  BY <1>1, <1>2, <1>3, <1>4, <1>6 DEF OrdersFit
<1>7. ASSUME pc' = "entrypoll"
      PROVE  mem'.order < acct'.nextId /\ \A o \in acct'.orders : o.id = mem'.order => o \in Buys'
  <2>1. CASE pc = "entrypoll" /\ mem'.order = mem.order
    BY <1>1, <1>2, <1>3, <1>4, <1>5, <2>1 DEF OrdersFit
  <2>2. CASE mem'.order = acct.nextId /\ side = "buy"
    <3>1. \A o \in acct.orders : o.id # acct.nextId
      BY <1>3, <1>4 DEF OrdersFit
    <3> QED
      BY <1>1, <1>2, <1>3, <1>5, <2>2, <3>1
  <2> QED
    BY <1>7, <2>1, <2>2
<1>8. /\ acct'.pos >= 0 /\ (\A o \in Buys' : o.working) /\ (\A o, p \in Sells' : o = p)
      /\ \A o \in Sells' : o.qty <= acct'.pos
  BY <1>1, <1>2, <1>5 DEF OrdersFit
<1>9. OrdersFit'
  BY <1>6, <1>7, <1>8 DEF OrdersFit
<1>10. pc = "entrypoll" /\ mem'.order = mem.order => Unfilled(mem.order)' = Unfilled(mem.order)
  BY <1>1, <1>2, <1>3 DEF Unfilled, OrdersFit
<1>11. mem'.order = acct.nextId => Unfilled(mem.order)'
  BY <1>1, <1>2 DEF Unfilled
<1> QED
  BY <1>1, <1>9, <1>10, <1>11

\* A close is for all that is held, when no sell is out.
LEMMA PlacedClose ==
    ASSUME Told, TypeOK, OrdersFit, CanClose, acct' = WithClose,
           pc' = "entrypoll" => pc = "entrypoll" /\ mem'.order = mem.order
    PROVE  /\ OrdersFit' /\ acct'.pos = acct.pos
           /\ pc' = "entrypoll" => Unfilled(mem.order)' = Unfilled(mem.order)
<1>1. acct.pos > 0 /\ acct.pos \in Nat /\ Sells = {}
  BY Fields DEF Told, OrdersFit, CanClose
<1>2. acct' = WithOrder("sell", acct.pos) /\ "sell" \in Side
  BY <1>1 DEF WithClose, Side
<1> QED
  BY <1>1, <1>2, PlacedOrder

\* A look at the exits changes no count.
LEMMA EvaluatedCounts ==
    ASSUME TypeOK, NEW due, NEW checked, Evaluate(due, checked) PROVE SameCounts
<1>1. ASSUME NEW h \in Histories, NEW b
      PROVE  /\ Looked(h, b).rows = h.rows /\ Looked(h, b).flats = h.flats
             /\ Looked(h, b).crashes = h.crashes
  <2>1. ASSUME NEW e PROVE /\ [h EXCEPT !.evals = e].rows = h.rows
                           /\ [h EXCEPT !.evals = e].flats = h.flats
                           /\ [h EXCEPT !.evals = e].crashes = h.crashes
    BY DEF Histories
  <2> QED
    BY <2>1, Zenon DEF Looked
<1>2. hist \in Histories /\ Tracking(hist) \in Histories
  BY TrackingType DEF TypeOK
<1>3. /\ Tracking(hist).rows = hist.rows /\ Tracking(hist).flats = hist.flats
      /\ Tracking(hist).crashes = hist.crashes
  BY DEF Tracking, TypeOK, Histories
<1>4. CASE bot.tracked
  BY <1>1, <1>2, <1>4 DEF Evaluate, SameCounts, SameRows
<1>5. CASE ~bot.tracked
  BY <1>1, <1>2, <1>3, <1>5 DEF Evaluate, SameCounts, SameRows
<1> QED
  BY <1>4, <1>5

\* The position check and what confirms a close.
LEMMA CheckTold ==
    ASSUME Told, ToldInv, CheckStep PROVE OrdersFit' /\ RowsTold'
<1> USE DEF ToldInv
<1>1. acct' = acct /\ acct.pos \in Int /\ acct.pos >= 0
      /\ pc \in {"check", "confirm"} /\ pc' \in {"sleep", "verify", "confirm", "entry"}
  BY Fields DEF OrdersFit, CheckStep, CheckHeld, CheckFailedFlat, CheckFailedHeld, CheckMissing,
            ConfirmByFill, ConfirmByCount, NotConfirmed, FailTick, BookOutside
<1>2. OrdersFit'
  BY <1>1, SameOrders
<1>3. CASE CheckHeld
  <2>1. PICK a \in Answers("check"), due \in BOOLEAN :
          a.sees = "long" /\ Evaluate(due, TRUE) /\ pc' = IF due THEN "verify" ELSE "sleep"
    BY <1>3, Zenon DEF CheckHeld
  <2>2. acct.pos > 0
    BY <2>1, ListSays
  <2>3. SameCounts
    BY <2>1, EvaluatedCounts
  <2> QED
    BY <1>1, <1>2, <2>1, <2>2, <2>3, NoRowTold DEF RowDue
<1>4. CASE CheckFailedFlat
  <2>1. SameCounts /\ bot'.tracked = bot.tracked /\ pc' = "sleep"
    BY <1>4, FailedSame DEF CheckFailedFlat, SameCounts, SameRows
  <2> QED
    BY <1>1, <1>2, <2>1, NoRowTold DEF RowDue
<1>5. CASE CheckFailedHeld
  <2>1. PICK due \in BOOLEAN :
          /\ Evaluate(due, FALSE)
          /\ \/ due /\ pc' = "verify" /\ UNCHANGED <<bot, disk>>
             \/ ~due /\ FailTick
    BY <1>5, Zenon DEF CheckFailedHeld
  <2>2. SameCounts
    BY <2>1, EvaluatedCounts
  <2>3. bot'.tracked = bot.tracked /\ pc' \in {"sleep", "verify"}
    BY <2>1, FailedSame
  <2> QED
    BY <1>1, <1>2, <2>2, <2>3, NoRowTold DEF RowDue
<1>6. CASE CheckMissing
  <2>1. PICK a \in Answers("check") :
          /\ a.sees \in {"none", "short"}
          /\ IF bot.tracked THEN pc' = "confirm" /\ bot' = bot
                            ELSE pc' = "entry" /\ bot' = Cleared(bot)
    BY <1>6 DEF CheckMissing
  <2>2. acct.pos = 0
    BY <1>1, <2>1, ListSays DEF Told
  <2>3. SameCounts
    BY <1>6 DEF CheckMissing, SameCounts, SameRows
  <2>4. bot'.tracked => bot.tracked
    BY <2>1 DEF Cleared, TypeOK, BotStates
  <2> QED
    BY <1>1, <1>2, <2>1, <2>2, <2>3, <2>4, NoRowTold DEF RowDue
<1>7. CASE ConfirmByFill \/ ConfirmByCount
  <2>1. /\ RowDue /\ hist' = Booked(hist) /\ ~bot'.tracked /\ pc' \in {"sleep", "entry"}
    BY <1>7 DEF RowDue, ConfirmByFill, ConfirmByCount, BookOutside, Cleared, ClearedAll, TypeOK, BotStates
  <2>2. hist'.rows = hist.rows + 1 /\ hist'.flats = hist.flats /\ hist'.crashes = hist.crashes
    BY <2>1 DEF Booked, TypeOK, Histories
  <2> QED
    BY <1>2, <2>1, <2>2, OneRowTold DEF RowDue
<1>8. CASE NotConfirmed
  <2>1. SameCounts /\ RowDue
    BY <1>8 DEF NotConfirmed, SameCounts, SameRows, RowDue
  <2> QED
    BY <1>2, <2>1, NoRowTold
<1> QED
  BY <1>3, <1>4, <1>5, <1>6, <1>7, <1>8 DEF CheckStep

\* The entry.
LEMMA EntryTold ==
    ASSUME Told, ToldInv, EntryStep PROVE OrdersFit' /\ RowsTold'
<1> USE DEF ToldInv
<1>1. CASE EntrySkipped \/ EntryGo \/ EntrySave
  <2>1. /\ acct' = acct /\ bot' = bot /\ SameCounts /\ pc' \in {"sleep", "submit"}
    BY <1>1 DEF EntrySkipped, EntryGo, EntrySave, SameCounts, SameRows
  <2> QED
    BY <2>1, SameOrders, NoRowTold DEF RowDue
<1>2. CASE SubmitFailed
  <2>1. pc' = "sleep" /\ bot' = bot /\ SameCounts
    BY <1>2 DEF SubmitFailed, SameCounts, SameRows
  <2>2. OrdersFit' /\ acct'.pos = acct.pos
    <3>1. CASE acct' = acct
      BY <2>1, <3>1, SameOrders
    <3>2. CASE acct' = WithOrder("buy", 1)
      BY <2>1, <3>2, PlacedOrder DEF Side
    <3> QED
      BY <1>2, <3>1, <3>2 DEF SubmitFailed
  <2> QED
    BY <2>1, <2>2, NoRowTold DEF RowDue
<1>3. CASE SubmitAccepted
  <2>1. pc' = "entrypoll" /\ bot' = bot /\ SameCounts /\ mem'.order = acct.nextId
    BY <1>3 DEF SubmitAccepted, SameCounts, SameRows, TypeOK, Memories
  <2>2. OrdersFit' /\ acct'.pos = acct.pos /\ Unfilled(mem.order)'
    BY <1>3, <2>1, PlacedOrder DEF SubmitAccepted, Side
  <2> QED
    BY <2>1, <2>2, NoRowTold DEF RowDue
<1>4. CASE SubmitTwice
  <2> DEFINE i == acct.nextId
             n == [id |-> i, side |-> "buy", qty |-> 1, working |-> TRUE]
             m == [id |-> i + 1, side |-> "buy", qty |-> 1, working |-> TRUE]
  <2>1. /\ pc' = "entrypoll" /\ bot' = bot /\ SameCounts /\ mem'.order = i + 1
        /\ acct'.pos = acct.pos /\ acct'.nextId = i + 2 /\ acct'.orders = acct.orders \cup {n, m}
    BY <1>4 DEF SubmitTwice, SameCounts, SameRows, TypeOK, Memories, Accounts
  <2>2. /\ n.id = i /\ n.side = "buy" /\ n.qty = 1 /\ n.working
        /\ m.id = i + 1 /\ m.side = "buy" /\ m.qty = 1 /\ m.working
    OBVIOUS
  <2>3. i \in Nat /\ acct.pos \in Int /\ \A o \in acct.orders : o.id \in Nat
    BY Fields DEF Order
  <2> HIDE DEF n, m, i
  <2>4. Sells' = Sells /\ Buys' = Buys \cup {n, m}
    BY <2>1, <2>2 DEF Buys, Sells
  <2>5. ASSUME NEW o \in acct'.orders
        PROVE  o.qty > 0 /\ o.id < i + 2 /\ (o.id = i + 1 => o \in Buys')
    <3>1. CASE o \in acct.orders
      BY <2>3, <3>1 DEF OrdersFit, i
    <3>2. CASE o \in {n, m}
      BY <2>2, <2>3, <2>4, <3>2
    <3> QED
      BY <2>1, <2>5, <3>1, <3>2
  <2>6. (\A o \in Buys' : o.working) /\ i + 1 < i + 2
    BY <2>2, <2>3, <2>4 DEF OrdersFit
  <2>7. OrdersFit'
    BY <2>1, <2>4, <2>5, <2>6 DEF OrdersFit
  <2>8. Unfilled(mem.order)'
    BY <2>1, <2>2 DEF Unfilled
  <2> QED
    BY <2>1, <2>7, <2>8, NoRowTold DEF RowDue
<1>5. CASE EntryTracked
  <2>1. pc = "entrypoll" /\ pc' = "entrysave" /\ acct' = acct /\ hist' = Tracking(hist)
        /\ ~Unfilled(mem.order)
    BY <1>5 DEF Told, EntryTracked
  <2>2. SameCounts
    BY <2>1, CountsSame DEF SameCounts, SameRows, Tracking, TypeOK, Histories
  <2> QED
    BY <2>1, <2>2, SameOrders, NoRowTold DEF RowDue
<1> QED
  BY <1>1, <1>2, <1>3, <1>4, <1>5 DEF EntryStep

\* Sending a close changes no count.
LEMMA SentCounts ==
    ASSUME TypeOK, hist' = Sent(hist) PROVE SameCounts
<1> DEFINE C == [hist.closes EXCEPT ![bot.lastBar] = @ + 1]
           D == IF mem.checked THEN hist.blind ELSE hist.blind \cup {acct.nextId}
<1>1. ASSUME NEW c, NEW d PROVE [hist EXCEPT !.closes = c, !.blind = d].crashes = hist.crashes
  BY DEF TypeOK, Histories
<1>2. Sent(hist) = [hist EXCEPT !.closes = C, !.blind = D]
  BY DEF Sent
<1> HIDE DEF C, D
<1>3. hist'.crashes = hist.crashes
  BY <1>1, <1>2
<1> QED
  BY <1>3, CountsSame DEF SameCounts, SameRows

\* The exit.
LEMMA ExitTold ==
    ASSUME Told, ToldInv, ExitStep PROVE OrdersFit' /\ RowsTold'
<1> USE DEF ToldInv
<1>1. acct.pos \in Int /\ acct.pos >= 0
      /\ pc \in {"verify", "cancel", "close", "postclose"}
      /\ pc' \in {"sleep", "cancel", "close", "postclose"}
  BY Fields DEF OrdersFit, ExitStep, VerifyFailed, VerifyMismatch, VerifyOk, CancelSells,
            CloseAccepted, CloseFailed, PostCloseGivesUp, PostCloseGone, NotSent, FailTick
<1>2. CASE VerifyFailed \/ VerifyMismatch \/ VerifyOk \/ PostCloseGivesUp
  <2>1. /\ acct' = acct /\ SameCounts /\ (bot'.tracked => bot.tracked)
        /\ pc' \in {"sleep", "cancel"}
    BY <1>2 DEF VerifyFailed, VerifyMismatch, VerifyOk, PostCloseGivesUp, NotSent, FailTick,
                RestoreBar, SameCounts, SameRows, TypeOK, BotStates
  <2> QED
    BY <2>1, SameOrders, NoRowTold DEF RowDue
<1>3. CASE PostCloseGone
  <2>1. acct.pos = 0 /\ acct' = acct /\ pc = "postclose" /\ pc' = "sleep"
    BY <1>1, <1>3, ListSays DEF Told, PostCloseGone
  <2>2. hist'.rows = hist.rows + 1 /\ hist'.flats = hist.flats /\ hist'.crashes = hist.crashes
    BY <1>3 DEF PostCloseGone, Booked, TypeOK, Histories
  <2>3. ~bot'.tracked
    BY <1>3 DEF PostCloseGone, ClearedAll, Cleared, TypeOK, BotStates
  <2> QED
    BY <2>1, <2>2, <2>3, SameOrders, OneRowTold DEF RowDue
<1>4. CASE CancelSells
  <2>1. /\ UNCHANGED <<bot, mem>> /\ SameCounts /\ pc' = "close"
    BY <1>4 DEF CancelSells, SameCounts, SameRows
  <2>2. CASE acct' = acct
    BY <2>1, <2>2, SameOrders, NoRowTold DEF RowDue
  <2>3. CASE acct' = [acct EXCEPT !.orders = (@ \ Sells) \cup {[o EXCEPT !.working = FALSE] : o \in Sells}]
    <3>1. /\ acct'.pos = acct.pos /\ acct'.nextId = acct.nextId
          /\ acct'.orders = (acct.orders \ Sells) \cup {[o EXCEPT !.working = FALSE] : o \in Sells}
      BY <2>3 DEF TypeOK, Accounts
    <3>2. \A o \in Sells : o \in acct.orders /\ o \in Order /\ o.side = "sell"
      BY Fields DEF Sells
    <3>3. ASSUME NEW o \in Sells
          PROVE  /\ [o EXCEPT !.working = FALSE].id = o.id
                 /\ [o EXCEPT !.working = FALSE].qty = o.qty
                 /\ [o EXCEPT !.working = FALSE].side = "sell"
      BY <3>2, <3>3 DEF Order
    <3>4. ASSUME NEW p \in acct'.orders
          PROVE  \/ p \in acct.orders /\ p \notin Sells
                 \/ \E o \in Sells : /\ p = [o EXCEPT !.working = FALSE] /\ p.id = o.id
                                     /\ p.qty = o.qty /\ p.side = "sell"
      BY <3>1, <3>3, <3>4
    <3>5. \A p \in Buys' : p \in Buys
      BY <3>4 DEF Buys
    <3>6. \A p \in Sells' : \E o \in Sells : p = [o EXCEPT !.working = FALSE] /\ p.qty = o.qty
      BY <3>4 DEF Sells
    <3>7. \A p \in acct'.orders : p.qty > 0 /\ p.id < acct'.nextId
      BY <3>1, <3>2, <3>4 DEF OrdersFit
    <3>8. (\A o, p \in Sells' : o = p) /\ (\A o \in Sells' : o.qty <= acct'.pos)
      BY <3>1, <3>6 DEF OrdersFit
    <3>9. OrdersFit'
      BY <2>1, <3>1, <3>5, <3>7, <3>8 DEF OrdersFit
    <3> QED
      BY <2>1, <3>1, <3>9, NoRowTold DEF RowDue
  <2> QED
    BY <1>4, <2>2, <2>3 DEF CancelSells
<1>5. CASE CloseAccepted
  <2>1. pc' = "postclose" /\ acct' = WithClose /\ CanClose /\ hist' = Sent(hist)
    BY <1>5 DEF CloseAccepted
  <2>2. OrdersFit' /\ acct'.pos = acct.pos
    BY <2>1, PlacedClose
  <2>3. acct.pos # 0
    BY <2>1 DEF CanClose
  <2> QED
    BY <2>1, <2>2, <2>3, SentCounts, NoRowTold DEF RowDue
<1>6. CASE CloseFailed
  <2>1. pc' = "sleep" /\ bot' = bot
    BY <1>6 DEF CloseFailed
  <2>2. CASE acct' = acct /\ hist' = hist
    BY <2>1, <2>2, SameOrders, NoRowTold DEF RowDue, SameCounts, SameRows
  <2>3. CASE CanClose /\ acct' = WithClose /\ hist' = Sent(hist)
    <3>1. OrdersFit' /\ acct'.pos = acct.pos
      BY <2>1, <2>3, PlacedClose
    <3> QED
      BY <2>1, <2>3, <3>1, SentCounts, NoRowTold DEF RowDue
  <2> QED
    BY <1>6, <2>2, <2>3 DEF CloseFailed
<1> QED
  BY <1>2, <1>3, <1>4, <1>5, <1>6 DEF ExitStep

\* The broker.
LEMMA BrokerTold ==
    ASSUME Told, ToldInv, BrokerStep PROVE OrdersFit' /\ RowsTold'
<1> USE DEF ToldInv
<1>1. CASE NewBar
  BY <1>1, SameOrders, NoRowTold DEF NewBar, RowDue, SameCounts, SameRows, Unfilled
<1>2. ASSUME NEW p \in Int, SetPos(p), acct'.pos = p, p # acct.pos, UNCHANGED <<bot, mem, pc>>,
             p # 0 => (RowDue' => RowDue)
      PROVE  RowsTold'
  <2>1. hist'.rows = hist.rows /\ hist'.crashes = hist.crashes
        /\ hist'.flats = IF p = 0 THEN hist.flats + 1 ELSE hist.flats
    BY <1>2 DEF SetPos, TypeOK, Histories
  <2> QED
    BY <1>2, <2>1, RowCounts DEF RowsTold
<1>3. CASE OutsideClose
  <2>1. /\ acct.pos > 0 /\ acct'.pos = 0 /\ acct'.orders = acct.orders /\ Sells = {}
        /\ acct'.nextId = acct.nextId /\ SetPos(0) /\ UNCHANGED <<bot, mem, pc>>
    BY <1>3 DEF Told, OutsideClose, TypeOK, Accounts
  <2>2. OrdersFit'
    BY <2>1 DEF OrdersFit, Buys, Sells
  <2> QED
    BY <1>2, <2>1, <2>2
<1>4. CASE OutsideOpen
  <2>1. /\ acct.pos = 0 /\ acct'.pos = 1 /\ acct'.orders = acct.orders
        /\ acct'.nextId = acct.nextId /\ SetPos(1) /\ UNCHANGED <<bot, mem, pc>>
    BY <1>4 DEF OutsideOpen, TypeOK, Accounts
  <2>2. Sells = {}
    <3>1. ASSUME NEW o \in Sells PROVE FALSE
      <4>1. o.qty \in Nat /\ o.qty > 0 /\ o.qty <= 0
        BY <2>1, <3>1, Fields DEF OrdersFit, Sells, Order
      <4> QED
        BY <4>1
    <3> QED
      BY <3>1
  <2>3. OrdersFit'
    BY <2>1, <2>2 DEF OrdersFit, Buys, Sells
  <2>4. RowDue' => RowDue
    BY <2>1 DEF RowDue
  <2> QED
    BY <1>2, <2>1, <2>3, <2>4
<1>5. ASSUME NEW o \in acct.orders, Fill(o) PROVE OrdersFit' /\ RowsTold'
  <2> DEFINE p == IF o.side = "buy" THEN acct.pos + o.qty ELSE acct.pos - o.qty
  <2>1. /\ o.qty \in Nat /\ o.qty > 0 /\ acct.pos \in Int /\ acct.pos >= 0
        /\ o.side \in {"buy", "sell"}
    BY Fields DEF OrdersFit, Order, Side
  <2>2. /\ acct'.pos = p /\ SetPos(p) /\ acct'.orders = acct.orders \ {o}
        /\ acct'.nextId = acct.nextId /\ UNCHANGED <<bot, mem, pc>>
    BY <1>5 DEF Fill, TypeOK, Accounts
  <2>3. Buys' \subseteq Buys /\ Sells' = Sells \ {o}
    BY <2>2 DEF Buys, Sells
  <2>4. p \in Int /\ p # acct.pos /\ p >= 0 /\ (o.side = "sell" => Sells' = {})
        /\ (o.side = "buy" => p > acct.pos)
    <3>1. CASE o.side = "buy"
      BY <2>1, <3>1
    <3>2. CASE o.side = "sell"
      <4>1. o \in Sells
        BY <3>2 DEF Sells
      <4>2. o.qty <= acct.pos /\ Sells \ {o} = {}
        BY <4>1 DEF OrdersFit
      <4> QED
        BY <2>1, <2>3, <3>2, <4>2
    <3> QED
      BY <2>1, <3>1, <3>2
  <2> HIDE DEF p
  <2>5. ASSUME NEW s \in Sells' PROVE s.qty <= acct'.pos
    <3>1. o.side = "buy" /\ s \in Sells /\ s.qty \in Nat
      BY <2>1, <2>3, <2>4, <2>5, Fields DEF Sells, Order
    <3> QED
      BY <2>1, <2>2, <2>4, <3>1 DEF OrdersFit
  <2>6. OrdersFit'
    BY <2>2, <2>3, <2>4, <2>5 DEF OrdersFit, Buys
  <2>7. p # 0 => (RowDue' => RowDue)
    BY <2>2 DEF RowDue
  <2> QED
    BY <1>2, <2>2, <2>4, <2>6, <2>7
<1>6. ASSUME NEW o \in acct.orders, CancelDone(o) PROVE OrdersFit' /\ RowsTold'
  <2>1. /\ acct'.pos = acct.pos /\ acct'.orders = acct.orders \ {o}
        /\ acct'.nextId = acct.nextId /\ UNCHANGED <<bot, mem, pc, hist>> /\ ~o.working
    BY <1>6 DEF CancelDone, TypeOK, Accounts
  <2>2. o \notin Buys /\ Buys' \subseteq Buys /\ Sells' \subseteq Sells
    BY <2>1 DEF OrdersFit, Buys, Sells
  <2>3. OrdersFit'
    BY <2>1, <2>2 DEF OrdersFit, Buys
  <2>4. pc = "entrypoll" => Unfilled(mem.order)' = Unfilled(mem.order)
    BY <2>1, <2>2 DEF OrdersFit, Unfilled
  <2>5. RowDue' => RowDue
    BY <2>1, <2>4 DEF RowDue
  <2> QED
    BY <2>1, <2>3, <2>5, NoRowTold DEF SameCounts, SameRows
<1> QED
  BY <1>1, <1>3, <1>4, <1>5, <1>6 DEF BrokerStep

\* The start of a tick, and a tick that does nothing or fails at once.
LEMMA StartTold ==
    ASSUME Told, ToldInv,
           TickStart \/ IdlePoll \/ GraphRefused \/ IndicatorError \/ CookError
    PROVE  OrdersFit' /\ RowsTold'
<1> USE DEF ToldInv
<1>1. /\ acct' = acct /\ bot'.tracked = bot.tracked /\ SameCounts /\ pc' \in {"sleep", "check"}
  BY FailedSame DEF TickStart, IdlePoll, GraphRefused, IndicatorError, CookError,
                    TypeOK, BotStates, SameCounts, SameRows
<1> QED
  BY <1>1, SameOrders, NoRowTold DEF RowDue

\* The task's end, Stop and Start, a reject, and calls that were left running.
LEMMA UserTold ==
    ASSUME Told, ToldInv, TaskStep \/ UserStep PROVE OrdersFit' /\ RowsTold' /\ Rests' /\ manual' = NoManual
<1> USE DEF ToldInv
<1>1. ~Reject /\ ~ManualCheck /\ ~ManualSubmit /\ ~ManualTracked
  BY DEF Told, NoManual, Reject, ManualCheck, ManualSubmit, ManualTracked
<1>2. Rests' /\ manual' = NoManual
  BY <1>1 DEF Rests, TaskStep, UserStep, RunnerEnds, StrayBuy, StraySell, Stop, StopClose, StopSave,
              Start, Crash
<1> SUFFICES OrdersFit' /\ RowsTold'
  BY <1>2
<1>3. CASE RunnerEnds
  BY <1>3, SameOrders, NoRowTold DEF RunnerEnds, RowDue, SameCounts, SameRows
<1>4. CASE StrayBuy \/ StraySell \/ StopClose
  <2>1. UNCHANGED <<bot, mem, pc, hist, manual>>
    BY <1>4 DEF StrayBuy, StraySell, StopClose
  <2>2. CASE acct' = acct
    BY <2>1, <2>2, SameOrders, NoRowTold DEF RowDue, Unfilled, SameCounts, SameRows
  <2>3. ASSUME OrdersFit', acct'.pos = acct.pos,
               pc' = "entrypoll" => Unfilled(mem.order)' = Unfilled(mem.order)
        PROVE  RowsTold'
    BY <2>1, <2>3, NoRowTold DEF RowDue, SameCounts, SameRows
  <2>4. CASE acct' = WithOrder("buy", 1)
    <3>1. 1 \in Nat /\ 1 > 0 /\ "buy" \in Side
      BY DEF Side
    <3>2. /\ OrdersFit' /\ acct'.pos = acct.pos
          /\ pc' = "entrypoll" => Unfilled(mem.order)' = Unfilled(mem.order)
      BY <2>1, <2>4, <3>1, PlacedOrder
    <3> QED
      BY <2>1, <2>3, <3>2
  <2>5. CASE CanClose /\ acct' = WithClose
    BY <2>1, <2>3, <2>5, PlacedClose
  <2> QED
    BY <1>4, <2>1, <2>2, <2>4, <2>5 DEF StrayBuy, StraySell, StopClose
<1>5. CASE Stop
  <2>1. /\ UNCHANGED <<acct, mem, pc, hist, manual>> /\ ~bot'.tracked
    BY <1>5 DEF Stop, TypeOK, BotStates
  <2> QED
    BY <2>1, SameOrders, NoRowTold DEF RowDue, Unfilled, SameCounts, SameRows
<1>6. CASE StopSave
  BY <1>6, SameOrders, NoRowTold DEF StopSave, RowDue, Unfilled, SameCounts, SameRows
<1>7. CASE Start
  <2>1. /\ UNCHANGED <<acct, pc, manual>> /\ bot'.tracked = bot.tracked /\ SameCounts
    BY <1>7 DEF Start, TypeOK, BotStates, Histories, SameCounts, SameRows
  <2>2. pc # "entrypoll"
    BY <1>7 DEF Start, Rests
  <2> QED
    BY <2>1, <2>2, SameOrders, NoRowTold DEF RowDue
<1>8. CASE Crash
  <2>1. /\ acct' = acct /\ pc' = "sleep" /\ manual' = NoManual
        /\ hist'.rows = hist.rows /\ hist'.flats = hist.flats
        /\ hist'.crashes = hist.crashes + 1
    BY <1>8 DEF Crash, TypeOK, Histories
  <2> QED
    BY <2>1, SameOrders, RowCounts DEF RowsTold
<1> QED
  BY <1>1, <1>3, <1>4, <1>5, <1>6, <1>7, <1>8 DEF TaskStep, UserStep

LEMMA ToldInit == ASSUME Init PROVE ToldInv
<1>1. TypeOK
  BY InitType
<1> QED
  BY <1>1 DEF Init, ToldInv, Rests, OrdersFit, Buys, Sells, RowsTold, RowDue

LEMMA ToldInductive ==
    ASSUME Told, ToldInv, TypeOK', [Next]_vars PROVE ToldInv'
<1>1. CASE UNCHANGED vars
  BY <1>1 DEF vars, ToldInv, Rests, OrdersFit, Buys, Sells, RowsTold, RowDue, Unfilled
<1>2. CASE BrokerStep
  <2>1. manual' = manual /\ Rests'
    BY <1>2 DEF ToldInv, Rests, BrokerStep, NewBar, OutsideClose, OutsideOpen, Fill, CancelDone, outside
  <2> QED
    BY <1>2, <2>1, BrokerTold DEF ToldInv
<1>3. CASE RunnerStep
  <2>1. manual' = manual /\ Rests'
    BY <1>3 DEF RunnerStep, Runs, Rests
  <2>2. \/ TickStart \/ IdlePoll \/ GraphRefused \/ IndicatorError \/ CookError
        \/ CheckStep \/ EntryStep \/ ExitStep
    BY <1>3, Zenon DEF RunnerStep, Runs
  <2>3. OrdersFit' /\ RowsTold'
    BY <2>2, StartTold, CheckTold, EntryTold, ExitTold
  <2> QED
    BY <2>1, <2>3 DEF ToldInv
<1>4. CASE TaskStep \/ UserStep
  BY <1>4, UserTold DEF ToldInv
<1> QED
  BY <1>1, <1>2, <1>3, <1>4 DEF Next

LEMMA ToldBound == ASSUME ToldInv PROVE RowsMatchCloses
  BY RowCounts DEF ToldInv, RowsTold, RowsMatchCloses

\* Stops, crashes, lost replies and adopted positions book no row too many, as long as
\* a position list tells the truth or fails: a row stands for one closing of the
\* position, or for a crash after which it was written again.
THEOREM RowsMatchTold == ASSUME Told PROVE Spec => []RowsMatchCloses
<1>1. Init => ToldInv
  BY ToldInit
<1>2. ToldInv /\ TypeOK' /\ [Next]_vars => ToldInv'
  BY ToldInductive
<1>3. ToldInv => RowsMatchCloses
  BY ToldBound
<1> QED
  BY <1>1, <1>2, <1>3, TypeCorrect, PTL DEF Spec

=============================================================================
