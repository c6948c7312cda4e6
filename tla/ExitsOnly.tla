----------------------------- MODULE ExitsOnly -----------------------------
(***************************************************************************)
(* A graph bot that cannot work out signals: its code failed, or a          *)
(* reference frame is missing.  An open position keeps its price exits      *)
(* (bot_runner.py _manage_without_signals); after a code failure the bot    *)
(* places nothing else, survives restarts in that state, and pauses once    *)
(* the broker confirms that it is flat.                                     *)
(*                                                                         *)
(* The code compares bars for equality with the newest one only, so a       *)
(* variable that holds a bar is modelled by whether it is the newest.  A    *)
(* tick works on the bars it fetched: a bar that comes during a tick is     *)
(* the same as one that comes after it.  One side of one symbol, on a       *)
(* broker that refuses a second close while one is open.                    *)
(***************************************************************************)
EXTENDS Integers

CONSTANTS
    Others,     \* the account holds positions on other symbols
    OddAt,      \* calls whose position list may leave out a held position: some of
                \* "check", "verify", "postclose", "update"
    StopAt,     \* "never"; "exits": Stop may keep the position of a bot in the
                \* exits-only state; "any": Stop at any time, keeping or closing
    MayUpdate,  \* the user may move the bot to another revision of its graph
    MayCrash    \* the process may die without saving

VARIABLES
    held,     \* the broker holds the bot's position
    closing,  \* the bot's close order at the broker
    bot,      \* BotState in memory
    disk,     \* BotState as bots.json last received it
    mem,      \* the runner's own fields and the locals of its tick
    pc,       \* the await the runner's coroutine sits at
    live,     \* the runner's task
    odd,      \* the last list of a position check left out other positions only
    hist      \* history, for the properties only

vars == <<held, closing, bot, disk, mem, pc, live, odd, hist>>
broker == <<held, closing, odd>>

\* done: last_bar_time is the newest bar; counted: how often the newest bar went
\* into entry_bar_count.
BotStates == [tracked: BOOLEAN, exitsOnly: BOOLEAN, paused: BOOLEAN, done: BOOLEAN,
              counted: 0..2]

\* failure: _code_failure, with its may_hold; ran, due: _exits_bar and its reason;
\* problem: _position_problem_bar; why: who called _manage_without_signals.
Memories == [failure: {"none", "flat", "mayhold"}, ran: BOOLEAN, due: BOOLEAN,
             problem: BOOLEAN, missing: 0..1, empty: BOOLEAN, blind: BOOLEAN,
             why: {"reference", "failing", "failed"}]

TypeOK ==
    /\ held \in BOOLEAN /\ odd \in BOOLEAN
    /\ closing \in {"none", "working", "cancelling"}
    /\ bot \in BotStates /\ disk \in BotStates
    /\ mem \in Memories
    /\ pc \in {"sleep", "check", "confirm", "verify", "close", "postclose"}
    /\ live \in BOOLEAN
    /\ hist \in [finished: BOOLEAN]

-----------------------------------------------------------------------------
(* The broker, as src/ uses it.                                            *)

\* What get_positions may say: the truth, an error, or, at the calls OddAt names, an
\* empty list or a list of other positions only.  Position checks never get the last
\* twice without a right list in between: that would confirm a close that never was.
Answers(site) ==
    {[sees |-> IF held THEN "held" ELSE "none", empty |-> ~held /\ ~Others],
     [sees |-> "error", empty |-> FALSE]}
    \cup IF site \notin OddAt THEN {}
         ELSE {[sees |-> "none", empty |-> e] :
                  e \in {TRUE} \cup IF Others /\ ~(site = "check" /\ odd) THEN {FALSE} ELSE {}}

Checked(a) == odd' = IF a.sees = "none" /\ ~a.empty /\ held THEN TRUE
                     ELSE odd /\ ~(a.sees = "held")

Fill ==
    /\ closing # "none"
    /\ held' = FALSE /\ closing' = "none"
    /\ UNCHANGED <<bot, disk, mem, pc, live, odd, hist>>

CancelDone ==
    /\ closing = "cancelling" /\ closing' = "none"
    /\ UNCHANGED <<held, bot, disk, mem, pc, live, odd, hist>>

\* A stop order at the broker fills, or someone closes the position by hand.
OutsideClose ==
    /\ held /\ closing = "none"
    /\ held' = FALSE
    /\ UNCHANGED <<closing, bot, disk, mem, pc, live, odd, hist>>

\* No variable holds the new bar yet.
NewBar ==
    /\ pc = "sleep"
    /\ bot' = [bot EXCEPT !.done = FALSE, !.counted = 0]
    /\ disk' = [disk EXCEPT !.done = FALSE, !.counted = 0]
    /\ mem' = [mem EXCEPT !.ran = FALSE, !.due = FALSE, !.problem = FALSE]
    /\ hist' = [finished |-> FALSE]
    /\ UNCHANGED <<held, closing, pc, live, odd>>

-----------------------------------------------------------------------------
(* The runner.                                                             *)

\* BotRunner.__init__: a bot in the exits-only state takes the bar it last worked on
\* as one whose exits ran, but asks the broker on it once more.
Fresh(b) == [failure |-> IF b.exitsOnly THEN "mayhold" ELSE "none",
             ran |-> b.exitsOnly /\ b.done, due |-> FALSE,
             problem |-> b.exitsOnly /\ b.done,
             missing |-> 0, empty |-> FALSE, blind |-> FALSE, why |-> "failed"]

Init ==
    /\ held \in BOOLEAN /\ closing = "none" /\ odd = FALSE
    /\ bot = [tracked |-> held, exitsOnly |-> FALSE, paused |-> FALSE, done |-> FALSE,
              counted |-> 0]
    /\ disk = bot
    /\ mem = Fresh(bot)
    /\ pc = "sleep" /\ live = TRUE
    /\ hist = [finished |-> FALSE]

Polls == live /\ pc = "sleep" /\ ~bot.paused
Cleared(b) == [b EXCEPT !.tracked = FALSE, !.counted = 0]
CountBar(b) == [b EXCEPT !.counted = IF @ < 2 THEN @ + 1 ELSE @]

\* The exits run once per bar; a retry only carries an exit that is still due.
Evaluated(b) == IF mem.ran THEN b ELSE CountBar(b)
MayBeDue == IF mem.ran THEN {mem.due} ELSE BOOLEAN

\* Mutant: the bar is not marked, as before review MT-3.
NotMarked(b, m) == b

\* _mark_exits_ran, after a code failure only: a bar whose exits ran and that has no exit
\* waiting is done.
Marked(b, m) == IF m.why # "reference" /\ m.ran /\ ~m.due THEN [b EXCEPT !.done = TRUE] ELSE b

\* _manage_without_signals ends and the bot may still hold its position.  The bar is
\* marked and saved; the tick that meets the failure saves, and so does run() after a
\* tick that raises: for the missing reference, or for a problem with the check.
Ends(b, m) ==
    LET e == Marked(b, m) IN
    /\ bot' = e /\ mem' = m /\ pc' = "sleep"
    /\ disk' = IF m.why # "failed" \/ m.problem \/ e.done # b.done THEN e ELSE disk
    /\ hist' = [finished |-> hist.finished \/ (m.why # "reference" /\ m.ran /\ ~m.due)]

\* Mutant: a bot found flat ends its exits-only state without the pause.
EndsFlatRunning(b, m) ==
    /\ bot' = b /\ disk' = b /\ mem' = m /\ pc' = "sleep"
    /\ hist' = [finished |-> FALSE]

\* _manage_without_signals says the bot is flat: after a code failure it pauses.
EndsFlat(b, m) ==
    /\ bot' = IF m.why = "reference" THEN b
              ELSE [b EXCEPT !.exitsOnly = FALSE, !.paused = TRUE]
    /\ disk' = bot' /\ mem' = m /\ pc' = "sleep"
    /\ hist' = [finished |-> FALSE]

\* The start of _manage_without_signals: nothing is left to do on a bar whose exits
\* ran, unless an exit waits or the check had a problem.
Manage(b, m) ==
    IF m.ran /\ ~m.due /\ ~m.problem THEN Ends(b, m)
    ELSE /\ bot' = b /\ mem' = [m EXCEPT !.problem = FALSE, !.blind = FALSE]
         /\ pc' = "check" /\ UNCHANGED <<disk, hist>>

\* A new bar, and a reference frame failed, is empty or is behind.
ReferenceDown ==
    /\ Polls /\ mem.failure = "none" /\ ~bot.done
    /\ Manage(bot, [mem EXCEPT !.why = "reference"])
    /\ UNCHANGED <<broker, live>>

Failing == [mem EXCEPT !.failure = IF bot.tracked \/ bot.exitsOnly THEN "mayhold" ELSE "flat",
                       !.why = "failing"]
InExitsOnly == [bot EXCEPT !.exitsOnly = TRUE]

\* The cook of a new bar raises a code error or runs past its time limit.
CodeFails ==
    /\ Polls /\ mem.failure = "none" /\ ~bot.done
    /\ Manage(InExitsOnly, Failing)
    /\ UNCHANGED <<broker, live>>

\* The compile refuses the code, on any poll.  The bars are fetched after that; when
\* that fails the state is saved all the same.
CodeRefused ==
    /\ Polls /\ mem.failure = "none"
    /\ \/ Manage(InExitsOnly, Failing)
       \/ /\ bot' = InExitsOnly /\ mem' = Failing /\ disk' = bot'
          /\ UNCHANGED <<pc, hist>>
    /\ UNCHANGED <<broker, live>>

\* Every later poll.  A fetch that fails raises, and run() saves.
ExitsTick ==
    /\ Polls /\ mem.failure # "none"
    /\ \/ Manage(bot, [mem EXCEPT !.why = "failed"])
       \/ disk' = bot /\ UNCHANGED <<bot, mem, pc, hist>>
    /\ UNCHANGED <<broker, live>>

\* The broker lists the position: track it if the bot did not, then its price exits.
CheckHeld ==
    /\ pc = "check"
    /\ \E a \in Answers("check"), due \in MayBeDue :
        /\ a.sees = "held" /\ Checked(a)
        /\ LET b == Evaluated([bot EXCEPT !.tracked = TRUE])
               m == [mem EXCEPT !.missing = 0, !.ran = TRUE, !.due = due] IN
           IF due THEN bot' = b /\ mem' = m /\ pc' = "verify" /\ UNCHANGED <<disk, hist>>
                  ELSE Ends(b, m)
    /\ UNCHANGED <<held, closing, live>>

\* The broker cannot be asked: a tracked position still gets its price exits
\* (_exits_without_position_check), and the tick counts as failed.
CheckFailed ==
    /\ pc = "check"
    /\ LET p == [mem EXCEPT !.problem = TRUE] IN
       \/ ~bot.tracked /\ Ends(bot, p)
       \/ /\ bot.tracked
          /\ \E due \in MayBeDue :
              LET b == Evaluated(bot)
                  m == [p EXCEPT !.ran = TRUE, !.due = due, !.blind = TRUE] IN
              IF due THEN bot' = b /\ mem' = m /\ pc' = "verify" /\ UNCHANGED <<disk, hist>>
                     ELSE Ends(b, m)
    /\ UNCHANGED <<broker, live>>

\* The list lacks a position the bot tracks.
CheckMissing ==
    /\ pc = "check" /\ bot.tracked
    /\ \E a \in Answers("check") :
        /\ a.sees = "none" /\ Checked(a)
        /\ mem' = [mem EXCEPT !.empty = a.empty]
    /\ pc' = "confirm"
    /\ UNCHANGED <<held, closing, bot, disk, live, hist>>

\* Mutant: one list without the position is taken for flat, as before review MT-1.
CheckFlatAtOnce ==
    /\ pc = "check" /\ ~bot.tracked
    /\ \E a \in Answers("check") :
        a.sees = "none" /\ Checked(a) /\ EndsFlat(bot, [mem EXCEPT !.empty = a.empty])
    /\ UNCHANGED <<held, closing, live>>

\* The list lacks a position the bot does not track.  A bot that may hold one all the
\* same waits for two lists in a row that are not empty (_untracked_flat_problem); a
\* bot that was flat when its code failed does not.
CheckFlat ==
    /\ pc = "check" /\ ~bot.tracked
    /\ \E a \in Answers("check") :
        /\ a.sees = "none" /\ Checked(a)
        /\ LET m == [mem EXCEPT !.empty = a.empty] IN
           IF mem.failure # "mayhold" THEN EndsFlat(bot, m)
           ELSE IF a.empty THEN Ends(bot, [m EXCEPT !.problem = TRUE])
           ELSE IF mem.missing = 1 THEN EndsFlat(bot, [m EXCEPT !.missing = 0])
           ELSE Ends(bot, [m EXCEPT !.missing = 1, !.problem = TRUE])
    /\ UNCHANGED <<held, closing, live>>

\* _position_gone_confirmed and _detect_external_close: a closing fill of this position,
\* or two lists in a row that are not empty.  The row may set off the drawdown pause.
ConfirmGone ==
    /\ pc = "confirm"
    /\ ~held \/ (~mem.empty /\ mem.missing = 1)
    /\ \E drawdown \in BOOLEAN :
        EndsFlat([Cleared(bot) EXCEPT !.paused = drawdown], [mem EXCEPT !.missing = 0])
    /\ UNCHANGED <<broker, live>>

\* No fill is found, or the query for fills failed.
NotConfirmed ==
    /\ pc = "confirm" /\ (mem.empty \/ mem.missing = 0)
    /\ Ends(bot, [mem EXCEPT !.missing = IF mem.empty THEN @ ELSE 1, !.problem = TRUE])
    /\ UNCHANGED <<broker, live>>

-----------------------------------------------------------------------------
(* The exit: _execute_exit and _after_exit_attempt.                        *)

\* The position is not confirmed: no order goes out and the exit waits for the retry.
NotSent ==
    /\ pc = "verify"
    /\ \E a \in Answers("verify") : a.sees # "held"
    /\ Ends(bot, [mem EXCEPT !.due = TRUE, !.problem = TRUE])
    /\ UNCHANGED <<broker, live>>

\* An open close is asked to cancel; nobody waits for that, and a failure is only logged.
VerifyOk ==
    /\ pc = "verify"
    /\ \E a \in Answers("verify") : a.sees = "held"
    /\ closing' \in IF closing = "none" THEN {"none"} ELSE {closing, "cancelling"}
    /\ pc' = "close"
    /\ UNCHANGED <<held, bot, disk, mem, live, odd, hist>>

CloseAccepted ==
    /\ pc = "close" /\ held /\ closing = "none"
    /\ closing' = "working"
    /\ disk' = bot
    /\ pc' = "postclose"
    /\ UNCHANGED <<held, bot, mem, live, odd, hist>>

\* The attempt ends with the position still tracked: the bar is done, in memory.
BarDone == Ends([bot EXCEPT !.done = TRUE], [mem EXCEPT !.due = FALSE])

CloseRefused ==
    /\ pc = "close"
    /\ BarDone
    /\ UNCHANGED <<broker, live>>

\* Up to six looks: the position is still there, or a look fails.
PostCloseGivesUp ==
    /\ pc = "postclose"
    /\ \E a \in Answers("postclose") : a.sees # "none"
    /\ BarDone
    /\ UNCHANGED <<broker, live>>

\* The position is gone.  When the check had failed, the bot does not call itself flat on
\* this list.
PostCloseGone ==
    /\ pc = "postclose"
    /\ \E a \in Answers("postclose") : a.sees = "none"
    /\ \E drawdown \in BOOLEAN :
        LET b == [Cleared(bot) EXCEPT !.done = TRUE, !.paused = drawdown]
            m == [mem EXCEPT !.due = FALSE] IN
        IF mem.blind THEN Ends(b, m) /\ disk' = bot' ELSE EndsFlat(b, m)
    /\ UNCHANGED <<broker, live>>

-----------------------------------------------------------------------------
(* The main path, while the code works: BotRunner has its steps.           *)

\* Nothing to do, a position that is tracked and counted, or one found gone.
SeenRight == mem' = [mem EXCEPT !.missing = 0] /\ odd' = (odd /\ ~held)

MainTick ==
    /\ Polls /\ mem.failure = "none" /\ ~bot.done
    /\ held => ~mem.due
    /\ bot' = IF held THEN [Evaluated(bot) EXCEPT !.tracked = TRUE, !.done = TRUE]
              ELSE [Cleared(bot) EXCEPT !.done = TRUE]
    /\ disk' = IF ~held /\ bot.tracked THEN bot' ELSE disk
    /\ SeenRight
    /\ UNCHANGED <<held, closing, pc, live, hist>>

MainEnters ==
    /\ Polls /\ mem.failure = "none" /\ ~bot.done /\ ~held /\ ~bot.tracked
    /\ held' = TRUE
    /\ bot' = [bot EXCEPT !.tracked = TRUE, !.done = TRUE, !.counted = 0]
    /\ disk' = bot'
    /\ UNCHANGED <<closing, mem, pc, live, odd, hist>>

\* An exit: the close fills, or is still open when the tick ends.
MainExits ==
    /\ Polls /\ mem.failure = "none" /\ ~bot.done /\ held /\ closing = "none"
    /\ \/ /\ held' = FALSE /\ UNCHANGED closing
          /\ bot' = [Cleared(bot) EXCEPT !.done = TRUE]
       \/ /\ closing' = "working" /\ UNCHANGED held
          /\ bot' = [Evaluated(bot) EXCEPT !.tracked = TRUE, !.done = TRUE]
    /\ disk' = bot'
    /\ SeenRight
    /\ UNCHANGED <<pc, live, hist>>

\* The broker cannot be asked, or does not confirm the position an exit is due for: the
\* bar is put back.
MainFails ==
    /\ Polls /\ mem.failure = "none" /\ ~bot.done /\ bot.tracked
    /\ bot' = Evaluated(bot) /\ disk' = bot'
    /\ \E due \in MayBeDue : mem' = [mem EXCEPT !.ran = TRUE, !.due = due]
    /\ UNCHANGED <<broker, pc, live, hist>>

-----------------------------------------------------------------------------
(* Starts, stops and restarts.                                             *)

\* start_bot, or the load of bots.json and the auto-resume: a bot whose code is refused
\* starts in the exits-only state when its state says that it holds a position, and is
\* paused when not.
Starts(b, refused) ==
    /\ bot' = IF ~refused THEN b
              ELSE IF b.tracked \/ b.exitsOnly THEN [b EXCEPT !.exitsOnly = TRUE]
              ELSE [b EXCEPT !.paused = TRUE]
    /\ disk' = bot' /\ mem' = Fresh(bot') /\ pc' = "sleep"
    /\ live' = ~bot'.paused
    /\ UNCHANGED <<broker, hist>>

\* A restart of the server: the finally of the cancelled task saves.
Restart == live /\ \E refused \in BOOLEAN : Starts(bot, refused)
Crash == MayCrash /\ live /\ \E refused \in BOOLEAN : Starts(disk, refused)
Start == ~live /\ \E refused \in BOOLEAN : Starts([bot EXCEPT !.paused = FALSE], refused)

RunnerEnds ==
    /\ live /\ pc = "sleep" /\ bot.paused
    /\ live' = FALSE /\ disk' = bot
    /\ UNCHANGED <<broker, bot, mem, pc, hist>>

Stopped(b) ==
    /\ bot' = [b EXCEPT !.tracked = FALSE]
    /\ disk' = bot' /\ pc' = "sleep" /\ live' = FALSE
    /\ UNCHANGED <<mem, odd, hist>>

\* stop_bot forgets the position and keeps the exits-only state.
StopKeeps ==
    /\ live /\ (StopAt = "any" \/ (StopAt = "exits" /\ bot.exitsOnly))
    /\ Stopped(bot)
    /\ UNCHANGED <<held, closing>>

\* Once the broker accepts the close the exits-only state ends.
StopCloses ==
    /\ live /\ StopAt = "any"
    /\ held /\ closing = "none" /\ closing' = "working" /\ UNCHANGED held
    /\ Stopped([bot EXCEPT !.exitsOnly = FALSE])

\* graph_update: refused while the state or the broker shows a position.  A runner that
\* runs keeps its _code_failure.
GraphUpdate ==
    /\ MayUpdate /\ ~bot.tracked
    /\ \E a \in Answers("update") : a.sees = "none"
    /\ bot' = [bot EXCEPT !.exitsOnly = FALSE]
    /\ disk' = bot'
    /\ UNCHANGED <<broker, mem, pc, live, hist>>

BrokerStep == Fill \/ CancelDone \/ OutsideClose \/ NewBar
CheckStep == CheckHeld \/ CheckFailed \/ CheckMissing \/ CheckFlat \/ ConfirmGone \/ NotConfirmed
ExitStep == NotSent \/ VerifyOk \/ CloseAccepted \/ CloseRefused \/ PostCloseGivesUp \/ PostCloseGone
PollStep == ReferenceDown \/ CodeFails \/ CodeRefused \/ ExitsTick
            \/ MainTick \/ MainEnters \/ MainExits \/ MainFails
UserStep == Restart \/ Crash \/ Start \/ RunnerEnds \/ StopKeeps \/ StopCloses \/ GraphUpdate

RunnerStep == PollStep \/ CheckStep \/ ExitStep

Next == BrokerStep \/ RunnerStep \/ UserStep

Spec == Init /\ [][Next]_vars

AloneNext == BrokerStep \/ RunnerStep
AwaitStep == CheckStep \/ ExitStep
Fetched == ExitsTick /\ pc' = "check"
FlatListed == CheckFlat /\ ~mem'.empty
MissingListed == CheckMissing /\ ~mem'.empty

\* The runner left alone.  Polls and bars go on; again and again the bars are fetched and
\* the broker gives a list that is not empty, though each may fail in between.
FairSpec ==
    /\ Init /\ [][AloneNext]_vars
    /\ WF_vars(NewBar) /\ WF_vars(AwaitStep)
    /\ SF_vars(Fetched) /\ SF_vars(FlatListed) /\ SF_vars(MissingListed)

-----------------------------------------------------------------------------
(* Properties.                                                             *)

\* A bot is paused for its code only when the broker holds no position of it: pausing on
\* one empty or odd reply would leave the position with no bot at all
\* (bot_runner.py _manage_without_signals, review MT-1).
PausedIsFlat == bot.paused => ~held

\* A bot whose code failed runs on although its position is gone: it has to pause, whether
\* the close was its own, late, or made outside (bot_runner.py _manage_without_signals,
\* _pause_for_code).  With no other position in the account it may stay, which is meant
\* (_untracked_flat_problem).
RunsOnFlat == live /\ bot.exitsOnly /\ ~held

\* A bar whose exits ran in the exits-only state, with no exit waiting to be sent, is
\* not counted again toward the time stop, whatever restarts come (bot_runner.py
\* _mark_exits_ran, review MT-3).
CountsOnce == hist.finished /\ hist'.finished /\ bot'.counted > bot.counted => bot'.counted <= 1
BarCountsOnce == [][CountsOnce]_vars
=============================================================================
