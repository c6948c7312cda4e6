----------------------------- MODULE BotRunner -----------------------------
(***************************************************************************)
(* One bot's polling loop against the broker: bot_runner.py and exits.py.   *)
(*                                                                         *)
(* A tick is a coroutine.  Every await in it is a place where the broker,   *)
(* a route running in the thread pool, or a crash can step in, so a tick is *)
(* cut into one action per await; pc names the await the runner sits at.    *)
(* The bot trades one side (long; the short side is the mirror image), one  *)
(* symbol, and has no regime.  Prices are left out: a stop, a trailing      *)
(* stop, a time stop or a signal either is due on a bar or is not.          *)
(***************************************************************************)
EXTENDS Integers, Sequences, FiniteSets

CONSTANTS
    Kind,           \* "rule" or "graph": what the bot's signals come from
    Broker,         \* "alpaca" or "ibkr"
    OddAt,          \* calls whose position list may leave out a held position
    OddTwice,       \* position checks may get one while a missing position is counted
    Prompt,         \* market entries fill before the bot stops polling for the fill
    MayStop,        \* the user may press Stop
    MayManualBuy,   \* the user may press Buy
    MayLoseReply,   \* an order may reach the broker although the call raised
    MaxBar,         \* bound: bars seen
    MaxOrders,      \* bound: orders placed
    MaxOutside,     \* bound: closes made outside the bot (broker stop, by hand)
    MaxAdopt,       \* bound: positions opened outside the bot on its symbol
    MaxCrash        \* bound: crashes

Sites == {"check", "verify", "entry", "postclose"}

ASSUME KindAssumption == Kind \in {"rule", "graph"}
ASSUME BrokerAssumption == Broker \in {"alpaca", "ibkr"}
ASSUME OddAssumption == OddAt \subseteq Sites
ASSUME SwitchAssumption ==
    /\ Prompt \in BOOLEAN /\ MayStop \in BOOLEAN /\ MayManualBuy \in BOOLEAN
    /\ MayLoseReply \in BOOLEAN /\ OddTwice \in BOOLEAN
ASSUME BoundAssumption ==
    /\ MaxBar \in Nat \ {0} /\ MaxOrders \in Nat
    /\ MaxOutside \in Nat /\ MaxAdopt \in Nat /\ MaxCrash \in Nat

VARIABLES
    bar,      \* newest bar the data provider serves
    acct,     \* the broker: position, live orders, closing fills
    bot,      \* BotState in memory
    disk,     \* BotState as bots.json last received it
    mem,      \* the runner's own fields and the locals of its tick
    pc,       \* the await the runner's coroutine sits at
    live,     \* the runner's task
    stray,    \* broker calls still running in the executor for a dead task
    stopper,  \* the thread serving a Stop request
    manual,   \* the thread serving a Buy request
    hist      \* history, for the properties only

vars == <<bar, acct, bot, disk, mem, pc, live, stray, stopper, manual, hist>>
outside == <<live, stray, stopper, manual>>

NoOrder == 0    \* pending_close_order_id is None; also the id of an outside fill
NoBar == 0      \* last_bar_time is None
NoTime == -1    \* entry_time is None

Bars == 1..MaxBar
Ids == 1..MaxOrders
Side == {"buy", "sell"}
PCs == {"sleep", "check", "confirm", "entry", "submit", "entrypoll", "entrysave",
        "verify", "cancel", "close", "postclose"}

BotStates == [tracked: BOOLEAN, entryTime: Int, pending: Nat, lastBar: Nat, paused: BOOLEAN]
Order == [id: Nat, side: Side, qty: Nat, working: BOOLEAN]

Accounts == [pos: Int, orders: SUBSET Order, nextId: Nat, fills: Seq(Nat),
             outsideCloses: Nat, outsideOpens: Nat]
Memories == [prevBar: Nat, exitsBar: Nat, exitsDue: BOOLEAN, missing: Nat,
             empty: BOOLEAN, checked: BOOLEAN, order: Nat]
Histories == [rows: Nat, flats: Nat, crashes: Nat, since: Nat, wasGone: BOOLEAN,
              closes: [Bars -> Nat], evals: [Bars -> Nat], blind: SUBSET Nat]

TypeOK ==
    /\ bar \in Bars
    /\ acct \in Accounts
    /\ bot \in BotStates /\ disk \in BotStates
    /\ mem \in Memories
    /\ pc \in PCs
    /\ live \in {"off", "on", "stopping", "dying"}
    /\ stray \subseteq {"buy", "sell"}
    /\ stopper \in {"idle", "closing", "saving"}
    /\ manual \in [at: {"idle", "submit", "poll"}, order: Nat]
    /\ hist \in Histories

FreshMem == [prevBar |-> NoBar, exitsBar |-> NoBar, exitsDue |-> FALSE, missing |-> 0,
             empty |-> FALSE, checked |-> FALSE, order |-> NoOrder]
NoManual == [at |-> "idle", order |-> NoOrder]

Init ==
    /\ bar = 1
    /\ acct = [pos |-> 0, orders |-> {}, nextId |-> 1, fills |-> <<>>,
               outsideCloses |-> 0, outsideOpens |-> 0]
    /\ bot = [tracked |-> FALSE, entryTime |-> NoTime, pending |-> NoOrder,
              lastBar |-> NoBar, paused |-> FALSE]
    /\ disk = bot
    /\ mem = FreshMem
    /\ pc = "sleep" /\ live = "on" /\ stray = {} /\ stopper = "idle" /\ manual = NoManual
    /\ hist = [rows |-> 0, flats |-> 0, crashes |-> 0, since |-> 0, wasGone |-> FALSE,
               closes |-> [b \in Bars |-> 0], evals |-> [b \in Bars |-> 0], blind |-> {}]

-----------------------------------------------------------------------------
(* The broker, as src/ uses it.                                            *)

Seen == IF acct.pos > 0 THEN "long" ELSE IF acct.pos < 0 THEN "short" ELSE "none"

\* What get_positions may say: the truth (an account that is flat on the symbol may
\* list other positions or nothing), an error, or, where the environment allows it,
\* an empty list or a list without the symbol.  While the runner counts a missing
\* position the check gets no such list that is not empty: a second count confirms a
\* close, and the first may be older than the position (exits.py _position_gone_confirmed).
Answers(site) ==
    LET odd == IF site \notin OddAt THEN {}
               ELSE IF site = "check" /\ mem.missing > 0 /\ ~OddTwice THEN {TRUE} ELSE BOOLEAN IN
    {[sees |-> Seen, empty |-> e] : e \in IF acct.pos = 0 THEN BOOLEAN ELSE {FALSE}}
    \cup {[sees |-> "error", empty |-> FALSE]}
    \cup {[sees |-> "none", empty |-> e] : e \in odd}

Sells == {o \in acct.orders : o.side = "sell"}

WithOrder(side, qty) ==
    [acct EXCEPT !.orders = @ \cup {[id |-> acct.nextId, side |-> side, qty |-> qty,
                                     working |-> TRUE]},
                 !.nextId = @ + 1]
CanPlace == acct.nextId <= MaxOrders

\* close_position: a market order for the whole live position, on the side that
\* flattens it.  Alpaca refuses it while a sell order holds the shares; IBKR does not.
CanClose == acct.pos # 0 /\ CanPlace /\ (Broker = "alpaca" => Sells = {})
WithClose == IF acct.pos > 0 THEN WithOrder("sell", acct.pos) ELSE WithOrder("buy", -acct.pos)

SetPos(p) ==
    hist' = [hist EXCEPT !.flats = IF p = 0 /\ acct.pos # 0 THEN @ + 1 ELSE @,
                         !.wasGone = @ \/ p <= 0]

Fill(o) ==
    LET p == IF o.side = "buy" THEN acct.pos + o.qty ELSE acct.pos - o.qty IN
    /\ acct' = [acct EXCEPT !.pos = p, !.orders = @ \ {o},
                            !.fills = IF o.side = "sell" THEN Append(@, o.id) ELSE @]
    /\ SetPos(p)
    /\ UNCHANGED <<bar, bot, disk, mem, pc, outside>>

CancelDone(o) ==
    /\ ~o.working
    /\ acct' = [acct EXCEPT !.orders = @ \ {o}]
    /\ UNCHANGED <<bar, bot, disk, mem, pc, outside, hist>>

\* A stop order at the broker fills, or someone closes the position by hand.
OutsideClose ==
    /\ acct.pos > 0 /\ acct.outsideCloses < MaxOutside
    /\ Broker = "alpaca" => Sells = {}
    /\ acct' = [acct EXCEPT !.pos = 0, !.fills = Append(@, NoOrder), !.outsideCloses = @ + 1]
    /\ SetPos(0)
    /\ UNCHANGED <<bar, bot, disk, mem, pc, outside>>

\* Someone buys the symbol by hand: the bot adopts the position it finds.
OutsideOpen ==
    /\ acct.pos = 0 /\ acct.outsideOpens < MaxAdopt
    /\ acct' = [acct EXCEPT !.pos = 1, !.outsideOpens = @ + 1]
    /\ SetPos(1)
    /\ UNCHANGED <<bar, bot, disk, mem, pc, outside>>

NewBar ==
    /\ bar < MaxBar
    /\ bar' = bar + 1
    /\ UNCHANGED <<acct, bot, disk, mem, pc, outside, hist>>

BrokerStep == NewBar \/ OutsideClose \/ OutsideOpen \/ \E o \in acct.orders : Fill(o) \/ CancelDone(o)

-----------------------------------------------------------------------------
(* BotState updates shared by several paths.                               *)

RestoreBar == [bot EXCEPT !.lastBar = mem.prevBar]

Cleared(b) == [b EXCEPT !.tracked = FALSE, !.pending = NoOrder]
ClearedAll(b) == [Cleared(b) EXCEPT !.entryTime = NoTime]
Entered(b) == [b EXCEPT !.tracked = TRUE, !.entryTime = Len(acct.fills)]
Resumed(b) ==
    [b EXCEPT !.tracked = TRUE,
              !.entryTime = IF b.tracked \/ @ # NoTime THEN @ ELSE Len(acct.fills)]

\* The position the bot starts to track is open from now on.
Tracking(h) == [h EXCEPT !.wasGone = (acct.pos <= 0), !.since = Len(acct.fills)]
Booked(h) == [h EXCEPT !.rows = @ + 1]

\* The tick raises: run() saves the bot and sleeps.  The bar was put back, so the
\* next poll works on it again.
FailTick ==
    /\ bot' = RestoreBar
    /\ disk' = RestoreBar
    /\ pc' = "sleep"

-----------------------------------------------------------------------------
(* The tick.                                                               *)

\* The bar is marked done before the broker is asked for the position.
TickStart ==
    /\ pc = "sleep" /\ ~bot.paused /\ bar # bot.lastBar
    /\ bot' = [bot EXCEPT !.lastBar = bar]
    /\ mem' = [mem EXCEPT !.prevBar = bot.lastBar]
    /\ pc' = "check"
    /\ UNCHANGED <<acct, disk, hist>>

\* A poll changes nothing when the bar was already worked on, when the fetch fails or
\* comes back too short, and outside trading hours when no position is tracked.
IdlePoll ==
    /\ pc = "sleep" /\ ~bot.paused
    /\ UNCHANGED <<acct, bot, disk, mem, pc, hist>>

\* A graph that is missing or does not compile pauses the bot, position or not.
GraphRefused ==
    /\ pc = "sleep" /\ ~bot.paused /\ Kind = "graph"
    /\ bot' = [bot EXCEPT !.paused = TRUE]
    /\ disk' = bot'
    /\ UNCHANGED <<acct, mem, pc, hist>>

\* A rule bot whose indicators fail leaves the bar done; a graph bot whose cook
\* fails puts it back and counts the failure.
IndicatorError ==
    /\ pc = "check" /\ Kind = "rule"
    /\ pc' = "sleep"
    /\ UNCHANGED <<acct, bot, disk, mem, hist>>

CookError ==
    /\ pc = "check" /\ Kind = "graph"
    /\ FailTick
    /\ UNCHANGED <<acct, mem, hist>>

\* The exits are looked at on bar bot.lastBar: price exits once per bar, so a retry
\* only carries an exit that is still due.
Looked(h, b) == [h EXCEPT !.evals[b] = IF mem.exitsBar = b THEN @ ELSE @ + 1]

Evaluate(due, checked) ==
    /\ mem.exitsBar = bot.lastBar /\ (mem.exitsDue \/ ~checked) => due = mem.exitsDue
    /\ hist' = Looked(IF bot.tracked THEN hist ELSE Tracking(hist), bot.lastBar)

\* The broker holds the position: track it if the bot did not, then the exits.
CheckHeld ==
    /\ pc = "check"
    /\ \E a \in Answers("check"), due \in BOOLEAN :
        /\ a.sees = "long"
        /\ Evaluate(due, TRUE)
        /\ mem' = [mem EXCEPT !.missing = 0, !.checked = TRUE]
        /\ bot' = Resumed(bot)
        /\ pc' = IF due THEN "verify" ELSE "sleep"
    /\ UNCHANGED <<acct, disk>>

\* The broker could not be asked.  A flat bot only counts the failure.
CheckFailedFlat ==
    /\ pc = "check" /\ ~bot.tracked
    /\ FailTick
    /\ UNCHANGED <<acct, mem, hist>>

\* A tracked position still gets its price exits.
CheckFailedHeld ==
    /\ pc = "check" /\ bot.tracked
    /\ \E due \in BOOLEAN :
        /\ Evaluate(due, FALSE)
        /\ mem' = [mem EXCEPT !.exitsBar = bot.lastBar, !.exitsDue = due, !.checked = FALSE]
        /\ \/ due /\ pc' = "verify" /\ UNCHANGED <<bot, disk>>
           \/ ~due /\ FailTick
    /\ UNCHANGED acct

\* The broker lists no long position on the symbol.
CheckMissing ==
    /\ pc = "check"
    /\ \E a \in Answers("check") :
        /\ a.sees \in {"none", "short"}
        /\ mem' = [mem EXCEPT !.empty = a.empty]
        /\ IF bot.tracked THEN pc' = "confirm" /\ bot' = bot
                          ELSE pc' = "entry" /\ bot' = Cleared(bot)
    /\ UNCHANGED <<acct, disk, hist>>

\* A closing fill belongs to the tracked position: the bot's own close order, or a
\* fill stamped after entry_time (IBKR stamps none).

\* Mutant: entry_time is not looked at.
BelongsUntimed(k) ==
    \/ bot.pending # NoOrder /\ acct.fills[k] = bot.pending
    \/ Broker = "alpaca"

Belongs(k) ==
    \/ bot.pending # NoOrder /\ acct.fills[k] = bot.pending
    \/ Broker = "alpaca" /\ bot.entryTime # NoTime /\ k > bot.entryTime

ClosingFills == {k \in DOMAIN acct.fills : Belongs(k)}

\* _detect_external_close: books the row and saves.  It saves before the tick clears
\* the position, so bots.json still holds it; only the drawdown pause clears first.
BookOutside ==
    /\ hist' = Booked(hist)
    /\ mem' = [mem EXCEPT !.missing = 0]
    /\ \/ bot' = Cleared(bot) /\ disk' = bot /\ pc' = "entry"
       \/ /\ bot' = [ClearedAll(bot) EXCEPT !.paused = TRUE]
          /\ disk' = bot'
          /\ pc' = "sleep"

\* _position_gone_confirmed: a closing fill, or two lists in a row that were not empty.
ConfirmByFill ==
    /\ pc = "confirm" /\ ClosingFills # {}
    /\ BookOutside
    /\ UNCHANGED acct

\* Mutant: an empty list counts like any other.
MissingNowAnyList == mem.missing + 1

MissingNow == IF mem.empty THEN mem.missing ELSE mem.missing + 1

\* No fill is found, or the query for fills failed.
ConfirmByCount ==
    /\ pc = "confirm" /\ MissingNow >= 2
    /\ BookOutside
    /\ UNCHANGED acct

NotConfirmed ==
    /\ pc = "confirm" /\ MissingNow < 2
    /\ mem' = [mem EXCEPT !.missing = MissingNow]
    /\ FailTick
    /\ UNCHANGED <<acct, hist>>

-----------------------------------------------------------------------------
(* Entry.                                                                  *)

\* No signal, cooldown, size too small, a failed or opposite position check, spread.
EntrySkipped ==
    /\ pc = "entry"
    /\ pc' = "sleep"
    /\ UNCHANGED <<acct, bot, disk, mem, hist>>

\* The last check before the order refuses a short position only.
EntryGo ==
    /\ pc = "entry"
    /\ \E a \in Answers("entry") : a.sees \in {"none", "long"}
    /\ pc' = "submit"
    /\ UNCHANGED <<acct, bot, disk, mem, hist>>

SubmitAccepted ==
    /\ pc = "submit" /\ CanPlace
    /\ acct' = WithOrder("buy", 1)
    /\ mem' = [mem EXCEPT !.order = acct.nextId]
    /\ pc' = "entrypoll"
    /\ UNCHANGED <<bot, disk, hist>>

\* Alpaca's client sends the order a second time when the reply to the first is lost;
\* the bot learns the second order's id.
SubmitTwice ==
    /\ pc = "submit" /\ MayLoseReply /\ Broker = "alpaca" /\ acct.nextId + 1 <= MaxOrders
    /\ acct' = [acct EXCEPT !.orders = @ \cup {[id |-> i, side |-> "buy", qty |-> 1, working |-> TRUE]
                                              : i \in {acct.nextId, acct.nextId + 1}},
                            !.nextId = @ + 2]
    /\ mem' = [mem EXCEPT !.order = acct.nextId + 1]
    /\ pc' = "entrypoll"
    /\ UNCHANGED <<bot, disk, hist>>

\* The call raised: nothing reached the broker, or the order did and the reply was lost.
SubmitFailed ==
    /\ pc = "submit"
    /\ \/ acct' = acct
       \/ MayLoseReply /\ CanPlace /\ acct' = WithOrder("buy", 1)
    /\ pc' = "sleep"
    /\ UNCHANGED <<bot, disk, mem, hist>>

Unfilled(id) == \E o \in acct.orders : o.id = id

\* The fill poll ends with a fill, or gives up and takes the expected price.
EntryTracked ==
    /\ pc = "entrypoll"
    /\ Prompt => ~Unfilled(mem.order)
    /\ bot' = Entered(bot)
    /\ hist' = Tracking(hist)
    /\ pc' = "entrysave"
    /\ UNCHANGED <<acct, disk, mem>>

EntrySave ==
    /\ pc = "entrysave"
    /\ disk' = bot
    /\ pc' = "sleep"
    /\ UNCHANGED <<acct, bot, mem, hist>>

-----------------------------------------------------------------------------
(* Exit: _execute_exit and what its callers do with the outcome.           *)

\* Mutant: the bar is put back but _unsent_exit remembers nothing.
NotSentForgotten == FailTick /\ UNCHANGED <<mem, hist>>

\* Mutant: the bar stays done.
NotSentBarDone ==
    /\ pc' = "sleep"
    /\ mem' = [mem EXCEPT !.exitsBar = bot.lastBar, !.exitsDue = TRUE]
    /\ UNCHANGED <<bot, disk, hist>>

\* "not_sent": the bar is put back and the same exit is due on its retry.
NotSent ==
    /\ FailTick
    /\ mem' = [mem EXCEPT !.exitsBar = bot.lastBar, !.exitsDue = TRUE]
    /\ UNCHANGED hist

\* Mutant: a list without the symbol clears the state, as before F449 LM-3.
VerifyFailedForgets ==
    /\ pc = "verify"
    /\ \E a \in Answers("verify") : a.sees \in {"none", "error"}
    /\ bot' = ClearedAll(bot) /\ disk' = bot'
    /\ pc' = "sleep"
    /\ UNCHANGED <<acct, mem, hist>>

VerifyFailed ==
    /\ pc = "verify"
    /\ \E a \in Answers("verify") : a.sees \in {"none", "error"}
    /\ NotSent
    /\ UNCHANGED acct

\* The list holds the symbol on the other side: the state is cleared on that one reply.
VerifyMismatch ==
    /\ pc = "verify"
    /\ \E a \in Answers("verify") : a.sees = "short"
    /\ bot' = [bot EXCEPT !.tracked = FALSE, !.entryTime = NoTime]
    /\ disk' = bot'
    /\ pc' = "sleep"
    /\ UNCHANGED <<acct, mem, hist>>

VerifyOk ==
    /\ pc = "verify"
    /\ \E a \in Answers("verify") : a.sees = "long"
    /\ pc' = "cancel"
    /\ UNCHANGED <<acct, bot, disk, mem, hist>>

\* Open sell orders are asked to cancel; nobody waits for the cancel to take effect,
\* and a failure is only logged.
CancelSells ==
    /\ pc = "cancel"
    /\ \/ acct' = [acct EXCEPT !.orders = (@ \ Sells) \cup {[o EXCEPT !.working = FALSE] : o \in Sells}]
       \/ acct' = acct
    /\ pc' = "close"
    /\ UNCHANGED <<bot, disk, mem, hist>>

Sent(h) == [h EXCEPT !.closes[bot.lastBar] = @ + 1,
                     !.blind = IF mem.checked THEN @ ELSE @ \cup {acct.nextId}]

CloseAccepted ==
    /\ pc = "close" /\ CanClose
    /\ acct' = WithClose
    /\ bot' = [bot EXCEPT !.pending = acct.nextId]
    /\ disk' = bot'
    /\ mem' = IF mem.checked THEN mem ELSE [mem EXCEPT !.exitsDue = FALSE]
    /\ hist' = Sent(hist)
    /\ pc' = "postclose"

\* Mutant: a failed close puts the bar back, so the exit is tried again on it.
CloseFailedRetried ==
    /\ pc = "close"
    /\ \/ acct' = acct /\ hist' = hist
       \/ MayLoseReply /\ CanClose /\ acct' = WithClose /\ hist' = Sent(hist)
    /\ FailTick
    /\ UNCHANGED mem

\* "close_failed": the bar stays done; a later bar tries again if the exit is still due.
CloseFailed ==
    /\ pc = "close"
    /\ \/ acct' = acct /\ hist' = hist
       \/ MayLoseReply /\ CanClose /\ acct' = WithClose /\ hist' = Sent(hist)
    /\ mem' = IF mem.checked THEN mem ELSE [mem EXCEPT !.exitsDue = FALSE]
    /\ pc' = "sleep"
    /\ UNCHANGED <<bot, disk>>

\* Up to six looks at the position list: still open, or the look fails, and the state stays.
PostCloseGivesUp ==
    /\ pc = "postclose"
    /\ \E a \in Answers("postclose") : a.sees \in {"long", "error"}
    /\ pc' = "sleep"
    /\ UNCHANGED <<acct, bot, disk, mem, hist>>

\* One list without the position books the row and drops the position.
PostCloseGone ==
    /\ pc = "postclose"
    /\ \E a \in Answers("postclose") : a.sees \in {"none", "short"}
    /\ hist' = Booked(hist)
    /\ \E drawdown \in BOOLEAN :
        bot' = [ClearedAll(bot) EXCEPT !.paused = @ \/ drawdown]
    /\ disk' = bot'
    /\ pc' = "sleep"
    /\ UNCHANGED <<acct, mem>>

-----------------------------------------------------------------------------
(* The task, the user and crashes.                                         *)

CheckStep == CheckHeld \/ CheckFailedFlat \/ CheckFailedHeld \/ CheckMissing
             \/ ConfirmByFill \/ ConfirmByCount \/ NotConfirmed
EntryStep == EntrySkipped \/ EntryGo \/ SubmitAccepted \/ SubmitTwice \/ SubmitFailed
             \/ EntryTracked \/ EntrySave
ExitStep == VerifyFailed \/ VerifyMismatch \/ VerifyOk \/ CancelSells
            \/ CloseAccepted \/ CloseFailed \/ PostCloseGivesUp \/ PostCloseGone

\* task.cancel() comes from a worker thread: the code the loop is running, up to its
\* next await, may still complete after it.
Runs(Step) ==
    /\ live \in {"on", "stopping"}
    /\ live' = IF live = "on" THEN "on" ELSE "dying"
    /\ Step
    /\ UNCHANGED <<bar, stray, stopper, manual>>

RunnerStep == Runs(TickStart \/ IdlePoll \/ GraphRefused \/ IndicatorError \/ CookError
                   \/ CheckStep \/ EntryStep \/ ExitStep)

\* The task ends: cancelled, or the loop saw the pause.  A broker call that already
\* runs in the executor is not stopped by that.
RunnerEnds ==
    /\ live \in {"stopping", "dying"} \/ (live = "on" /\ pc = "sleep" /\ bot.paused)
    /\ live' = "off" /\ pc' = "sleep"
    /\ \/ stray' = stray
       \/ pc = "submit" /\ stray' = stray \cup {"buy"}
       \/ pc = "close" /\ stray' = stray \cup {"sell"}
    /\ disk' = bot
    /\ UNCHANGED <<bar, acct, bot, mem, stopper, manual, hist>>

StrayBuy ==
    /\ "buy" \in stray /\ stray' = stray \ {"buy"}
    /\ \/ CanPlace /\ acct' = WithOrder("buy", 1)
       \/ acct' = acct
    /\ UNCHANGED <<bar, bot, disk, mem, pc, live, stopper, manual, hist>>

StraySell ==
    /\ "sell" \in stray /\ stray' = stray \ {"sell"}
    /\ \/ CanClose /\ acct' = WithClose
       \/ acct' = acct
    /\ UNCHANGED <<bar, bot, disk, mem, pc, live, stopper, manual, hist>>

\* IBKR reports a structural reject from its callback thread.
Reject ==
    /\ Broker = "ibkr" /\ live = "on" /\ ~bot.paused
    /\ bot' = [bot EXCEPT !.paused = TRUE]
    /\ disk' = bot'
    /\ UNCHANGED <<bar, acct, mem, pc, outside, hist>>

\* stop_bot: cancels the task and forgets the position, but keeps entry_time and
\* pending_close_order_id; then closes at the broker if asked to, then saves.
Stop ==
    /\ MayStop /\ stopper = "idle" /\ live = "on"
    /\ live' = "stopping"
    /\ bot' = [bot EXCEPT !.tracked = FALSE]
    /\ stopper' \in {"closing", "saving"}
    /\ UNCHANGED <<bar, acct, disk, mem, pc, stray, manual, hist>>

StopClose ==
    /\ stopper = "closing" /\ stopper' = "saving"
    /\ \/ CanClose /\ acct' = WithClose
       \/ acct' = acct
    /\ UNCHANGED <<bar, bot, disk, mem, pc, live, stray, manual, hist>>

StopSave ==
    /\ stopper = "saving" /\ stopper' = "idle"
    /\ disk' = bot
    /\ UNCHANGED <<bar, acct, bot, mem, pc, live, stray, manual, hist>>

\* A new BotRunner: its own fields are fresh, BotState is what it was.
Start ==
    /\ live = "off" /\ live' = "on"
    /\ mem' = FreshMem
    /\ bot' = [bot EXCEPT !.paused = FALSE]
    /\ disk' = bot'
    /\ hist' = [hist EXCEPT !.closes = [b \in Bars |-> 0], !.evals = [b \in Bars |-> 0]]
    /\ UNCHANGED <<bar, acct, pc, stray, stopper, manual>>

Crash ==
    /\ hist.crashes < MaxCrash
    /\ live' = "off" /\ pc' = "sleep"
    /\ bot' = disk
    /\ stray' = {} /\ stopper' = "idle" /\ manual' = NoManual
    /\ hist' = [hist EXCEPT !.crashes = @ + 1]
    /\ UNCHANGED <<bar, acct, disk, mem>>

\* manual_buy, in the thread pool: checks, submits, polls, tracks.  It takes no lock
\* and sets no entry_in_flight.
ManualCheck ==
    /\ MayManualBuy /\ manual.at = "idle" /\ live = "on" /\ ~bot.tracked
    /\ manual' = [manual EXCEPT !.at = "submit"]
    /\ UNCHANGED <<bar, acct, bot, disk, mem, pc, live, stray, stopper, hist>>

ManualSubmit ==
    /\ manual.at = "submit"
    /\ \/ /\ CanPlace
          /\ acct' = WithOrder("buy", 1)
          /\ manual' = [at |-> "poll", order |-> acct.nextId]
       \/ acct' = acct /\ manual' = NoManual
    /\ UNCHANGED <<bar, bot, disk, mem, pc, live, stray, stopper, hist>>

ManualTracked ==
    /\ manual.at = "poll" /\ (Prompt => ~Unfilled(manual.order))
    /\ manual' = NoManual
    /\ bot' = Entered(bot)
    /\ disk' = bot'
    /\ hist' = Tracking(hist)
    /\ UNCHANGED <<bar, acct, mem, pc, live, stray, stopper>>

TaskStep == RunnerEnds \/ StrayBuy \/ StraySell \/ Reject
UserStep == Stop \/ StopClose \/ StopSave \/ Start \/ Crash
            \/ ManualCheck \/ ManualSubmit \/ ManualTracked

Next == BrokerStep \/ RunnerStep \/ TaskStep \/ UserStep

Spec == Init /\ [][Next]_vars

\* The event loop keeps running the coroutine; again and again a poll gets its bars, they
\* cook, and the broker lists the position, though each may fail in between.
FairSpec ==
    /\ Spec
    /\ WF_vars(Runs(TickStart \/ CheckStep \/ EntryStep \/ ExitStep))
    /\ SF_vars(Runs(TickStart))
    /\ SF_vars(Runs(CheckHeld))
    /\ SF_vars(Runs(VerifyOk))

-----------------------------------------------------------------------------
(* Properties.                                                             *)

\* Every exit row the bot books stands for one closing of the broker's position: an
\* empty, odd or failed reply books nothing and no close is booked twice.  The one
\* exception is a crash after the row was written and before bots.json forgot the
\* position, which can repeat that row once (exits.py _detect_external_close saves
\* before the tick clears the position).
RowsMatchCloses == hist.rows <= hist.flats + hist.crashes

\* The bot's own steps forget a tracked position only when the broker really stopped
\* holding it since the bot began to track it (exits.py F449 LM-3).  Stop forgets it
\* too, but that is the user's doing.
DropsOnlyFlat ==
    bot.tracked /\ ~bot'.tracked /\ live = "on" /\ live' = "on" => hist.wasGone
NeverDropHeld == [][DropsOnlyFlat]_vars

\* On one bar a run of the bot sends at most one close order (bot_runner.py F449
\* LM-1), however often the bar is retried.
CloseOncePerBar == live # "off" => \A b \in Bars : hist.closes[b] <= 1

\* On one bar a run looks at the price exits at most once, so a retried bar does not
\* count twice toward the time stop (bot_runner.py _exits_bar).
PriceExitsOncePerBar == live # "off" => \A b \in Bars : hist.evals[b] <= 1

\* The closing fill the bot takes as proof came after the bot began to track the
\* position: a fill of an earlier trade never counts (exits.py _closing_fill, F449 LM-3).
BooksOwnFill ==
    pc = "confirm" /\ hist'.rows > hist.rows /\ ClosingFills # {}
        => \E k \in ClosingFills : k > hist.since
OnlyOwnFills == [][BooksOwnFill]_vars

\* An exit found due on a bar is brought to the broker: when the position cannot be
\* verified it is tried again, poll after poll, until the close goes out, unless the
\* broker holds no position any more, a newer bar came or the bot stopped
\* (bot_runner.py _held_note, F449 LM-2).
DueExitIsSent ==
    \A b \in Bars : (pc = "verify" /\ bot.lastBar = b)
                   ~> \/ pc = "close" \/ acct.pos <= 0 \/ bar # b
                      \/ live # "on" \/ bot.paused

\* The bot never stacks a second position on one it holds.
NoStacking == acct.pos <= 1

\* A close sent while the position check was failing never opens a reverse position
\* (bot_runner.py _exits_without_position_check).
FailedCheckNeverReverses ==
    [][acct.pos >= 0 /\ acct'.pos < 0
        => \A o \in acct.orders \ acct'.orders : o.id \notin hist.blind]_vars
=============================================================================
