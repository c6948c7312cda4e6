----------------------------- MODULE RegimeFlip -----------------------------
(***************************************************************************)
(* A regime bot that trades both sides of one symbol: when the regime       *)
(* turns, it closes the position on the wrong side and, with                 *)
(* close_and_reverse, enters the other (regime.py _handle_regime_flip and    *)
(* steps 4b to 6 of bot_runner.py _tick).                                    *)
(*                                                                         *)
(* Bars are modelled by whether the newest one is done.  The broker refuses  *)
(* a second close while one is open, and an entry that is accepted fills at  *)
(* once.  The exits of step 7 are one action here: BotRunner has their       *)
(* steps, and what Stop and crashes do to orders on their way.               *)
(***************************************************************************)
EXTENDS Integers

CONSTANTS
    OnFlip,      \* regime.on_flip: "close_only", "close_and_reverse" or "hold"
    OddAt,       \* calls whose position list may leave out a held position: some of
                 \* "check", "entry", "postclose"
    MayDisturb   \* the user may stop the bot; the process may die without saving

VARIABLES
    held,     \* the side of the broker's position, or "none"
    closing,  \* the bot's close order at the broker
    bot,      \* BotState in memory
    disk,     \* BotState as bots.json last received it
    mem,      \* the runner's own fields and the locals of its tick
    pc,       \* the await the runner's coroutine sits at
    live,     \* the runner's task
    odd       \* the last list of the symbol left out a held position

vars == <<held, closing, bot, disk, mem, pc, live, odd>>

Sides == {"long", "short"}

\* side: position_direction with entry_price; pending: pending_regime_flip; done:
\* last_bar_time is the newest bar.
BotStates == [side: Sides \cup {"none"}, pending: BOOLEAN, done: BOOLEAN]

\* dir: entry_dir of this tick.
Memories == [dir: Sides \cup {"flat"}, missing: 0..1, empty: BOOLEAN]

TypeOK ==
    /\ held \in Sides \cup {"none"}
    /\ closing \in {"none", "working", "cancelling"}
    /\ bot \in BotStates /\ disk \in BotStates
    /\ mem \in Memories
    /\ pc \in {"sleep", "check", "confirm", "route", "entry", "submit", "fill",
               "flip", "close", "postclose"}
    /\ live \in BOOLEAN /\ odd \in BOOLEAN

Fresh == [dir |-> "flat", missing |-> 0, empty |-> FALSE]

Init ==
    /\ held = "none" /\ closing = "none" /\ odd = FALSE
    /\ bot = [side |-> "none", pending |-> FALSE, done |-> FALSE] /\ disk = bot
    /\ mem = Fresh /\ pc = "sleep" /\ live = TRUE

-----------------------------------------------------------------------------
(* The broker.                                                             *)

\* What get_positions may say at a call: the truth, an error, or an odd list, empty or of
\* other symbols only; never two odd lists in a row.
Answers(site) ==
    {[sees |-> held, empty |-> FALSE], [sees |-> "error", empty |-> FALSE]}
    \cup IF site \in OddAt /\ ~odd THEN {[sees |-> "none", empty |-> e] : e \in BOOLEAN} ELSE {}

Listed(a) == odd' = IF a.sees = "error" THEN odd ELSE a.sees # held

Fill ==
    /\ closing # "none"
    /\ held' = "none" /\ closing' = "none"
    /\ UNCHANGED <<bot, disk, mem, pc, live, odd>>

CancelDone ==
    /\ closing = "cancelling" /\ closing' = "none"
    /\ UNCHANGED <<held, bot, disk, mem, pc, live, odd>>

OutsideClose ==
    /\ held # "none" /\ closing = "none"
    /\ held' = "none"
    /\ UNCHANGED <<closing, bot, disk, mem, pc, live, odd>>

NewBar ==
    /\ pc = "sleep"
    /\ bot' = [bot EXCEPT !.done = FALSE] /\ disk' = [disk EXCEPT !.done = FALSE]
    /\ UNCHANGED <<held, closing, mem, pc, live, odd>>

-----------------------------------------------------------------------------
(* The tick: the regime, the position check, and where it leads.            *)

Goes(to) == pc' = to /\ UNCHANGED <<held, closing, live>>

\* The regime of the newest bar; a failed evaluation reads "flat".
Tick ==
    /\ live /\ pc = "sleep" /\ ~bot.done
    /\ bot' = [bot EXCEPT !.done = TRUE]
    /\ \E d \in Sides \cup {"flat"} : mem' = [mem EXCEPT !.dir = d]
    /\ Goes("check")
    /\ UNCHANGED <<disk, odd>>

\* The bar is put back for a retry, and run() saves.
PutsBack(m) ==
    /\ bot' = [bot EXCEPT !.done = FALSE] /\ disk' = bot' /\ mem' = m
    /\ Goes("sleep")

CheckFailed ==
    /\ pc = "check"
    /\ PutsBack(mem)
    /\ UNCHANGED odd

\* The broker lists the side the bot tracks, or any side when it tracks none: that one
\* is resumed or adopted.
CheckHeld ==
    /\ pc = "check"
    /\ \E a \in Answers("check") :
        /\ a.sees \in Sides /\ bot.side \in {a.sees, "none"}
        /\ Listed(a)
        /\ bot' = [bot EXCEPT !.side = a.sees]
    /\ mem' = [mem EXCEPT !.missing = 0]
    /\ Goes("route")
    /\ UNCHANGED disk

CheckMissing ==
    /\ pc = "check" /\ bot.side # "none"
    /\ \E a \in Answers("check") :
        /\ a.sees \in (Sides \ {bot.side}) \cup {"none"}
        /\ Listed(a)
        /\ mem' = [mem EXCEPT !.empty = a.empty]
    /\ Goes("confirm")
    /\ UNCHANGED <<bot, disk>>

CheckFlat ==
    /\ pc = "check" /\ bot.side = "none"
    /\ \E a \in Answers("check") : a.sees = "none" /\ Listed(a)
    /\ Goes("entry")
    /\ UNCHANGED <<bot, disk, mem>>

NotConfirmed ==
    /\ pc = "confirm" /\ (mem.empty \/ mem.missing = 0)
    /\ PutsBack([mem EXCEPT !.missing = IF mem.empty THEN @ ELSE 1])
    /\ UNCHANGED odd

Cleared == [bot EXCEPT !.side = "none", !.pending = FALSE]

\* close_and_reverse enters the side the regime names; outside the hours, in the
\* cooldown after a stop, or with no size, the flip ends flat.
Reverses == OnFlip = "close_and_reverse" /\ mem.dir # "flat"
AfterFlip ==
    /\ bot' = Cleared /\ disk' = bot'
    /\ \E to \in {"sleep"} \cup IF Reverses THEN {"submit"} ELSE {} : Goes(to)

\* A closing fill, or two lists in a row that are not empty, confirm that the position is
\* gone.  A pending flip ends there (step 5c); else the close is booked and an entry may
\* follow (step 6).
ConfirmGone ==
    /\ pc = "confirm" /\ (held = "none" \/ (~mem.empty /\ mem.missing = 1))
    /\ mem' = [mem EXCEPT !.missing = 0]
    /\ \/ bot.pending /\ AfterFlip
       \/ ~bot.pending /\ bot' = Cleared /\ Goes("entry") /\ UNCHANGED disk
    /\ UNCHANGED odd

\* Mutant: a pending flip waits for its first close instead of trying again.
FlipDueOnce == ~bot.pending /\ mem.dir # bot.side /\ OnFlip # "hold"

\* Steps 5c and 5d: a pending flip is tried again; a regime that names another side
\* than the position's, or none, flips.
FlipDue == bot.pending \/ (mem.dir # bot.side /\ OnFlip # "hold")

ToFlip ==
    /\ pc = "route" /\ FlipDue
    /\ Goes("flip")
    /\ UNCHANGED <<bot, disk, mem, odd>>

\* Step 7: no exit, or one whose close is sent, and fills within the tick or later.
Holds ==
    /\ pc = "route" /\ ~FlipDue
    /\ Goes("sleep")
    /\ UNCHANGED <<bot, disk, mem, odd>>

Exits ==
    /\ pc = "route" /\ ~FlipDue /\ closing = "none" /\ held # "none"
    /\ \/ /\ held' = "none" /\ UNCHANGED closing
          /\ bot' = [bot EXCEPT !.side = "none"]
       \/ closing' = "working" /\ UNCHANGED <<held, bot>>
    /\ disk' = bot' /\ pc' = "sleep"
    /\ UNCHANGED <<mem, live, odd>>

-----------------------------------------------------------------------------
(* _handle_regime_flip: the position is not verified before its close.      *)

\* The open orders on the closing side are asked to cancel; nobody waits for that.
FlipCancels ==
    /\ pc = "flip"
    /\ closing' \in IF closing = "none" THEN {"none"} ELSE {closing, "cancelling"}
    /\ pc' = "close"
    /\ UNCHANGED <<held, bot, disk, mem, live, odd>>

CloseAccepted ==
    /\ pc = "close" /\ held # "none" /\ closing = "none"
    /\ closing' = "working"
    /\ disk' = bot /\ pc' = "postclose"
    /\ UNCHANGED <<held, bot, mem, live, odd>>

Pending ==
    /\ bot' = [bot EXCEPT !.pending = TRUE] /\ disk' = bot'
    /\ pc' = "sleep"
    /\ UNCHANGED <<held, mem, live, odd>>

\* The close is refused, or accepted and its reply lost.
CloseFailed ==
    /\ pc = "close"
    /\ \/ UNCHANGED closing
       \/ held # "none" /\ closing = "none" /\ closing' = "working"
    /\ Pending

\* Up to six looks at the position: it is still there, or one fails.
StillOpen ==
    /\ pc = "postclose"
    /\ \E a \in Answers("postclose") : a.sees \in {bot.side, "error"}
    /\ Pending
    /\ UNCHANGED closing

\* Mutant: the accepted close counts as the end of the position.
FlipClosedUnseen == pc = "postclose" /\ AfterFlip /\ UNCHANGED <<mem, odd>>

FlipClosed ==
    /\ pc = "postclose"
    /\ \E a \in Answers("postclose") : a.sees \notin {bot.side, "error"} /\ Listed(a)
    /\ AfterFlip
    /\ UNCHANGED mem

-----------------------------------------------------------------------------
(* Step 6 and _enter_position.                                             *)

\* A flat regime, no signal, the hours, a cooldown, or a position on the symbol.
EntrySkipped ==
    /\ pc = "entry"
    /\ Goes("sleep")
    /\ UNCHANGED <<bot, disk, mem, odd>>

EntryGo ==
    /\ pc = "entry" /\ mem.dir # "flat"
    /\ \E a \in Answers("entry") : a.sees = "none" /\ Listed(a)
    /\ Goes("submit")
    /\ UNCHANGED <<bot, disk, mem>>

\* The order of the side the regime named, netted with what the broker holds.
Submit ==
    /\ pc = "submit"
    /\ held' = IF held \in Sides \ {mem.dir} THEN "none" ELSE mem.dir
    /\ pc' = "fill"
    /\ UNCHANGED <<closing, bot, disk, mem, live, odd>>

SubmitFailed ==
    /\ pc = "submit"
    /\ Goes("sleep")
    /\ UNCHANGED <<bot, disk, mem, odd>>

EntryTracked ==
    /\ pc = "fill"
    /\ bot' = [bot EXCEPT !.side = mem.dir] /\ disk' = bot'
    /\ Goes("sleep")
    /\ UNCHANGED <<mem, odd>>

-----------------------------------------------------------------------------
(* Stop, start and crashes.                                                *)

StopBot ==
    /\ live /\ live' = FALSE /\ pc' = "sleep"
    /\ bot' = Cleared /\ disk' = bot'
    /\ \/ UNCHANGED closing
       \/ held # "none" /\ closing = "none" /\ closing' = "working"
    /\ UNCHANGED <<held, mem, odd>>

StartBot ==
    /\ ~live /\ live' = TRUE
    /\ mem' = Fresh
    /\ UNCHANGED <<held, closing, bot, disk, pc, odd>>

Crash ==
    /\ live
    /\ bot' = disk /\ mem' = Fresh /\ pc' = "sleep"
    /\ UNCHANGED <<held, closing, disk, live, odd>>

CheckStep == CheckFailed \/ CheckHeld \/ CheckMissing \/ CheckFlat \/ NotConfirmed \/ ConfirmGone
RouteStep == ToFlip \/ Holds \/ Exits
FlipStep == FlipCancels \/ CloseAccepted \/ CloseFailed \/ StillOpen \/ FlipClosed
EntryStep == EntrySkipped \/ EntryGo \/ Submit \/ SubmitFailed \/ EntryTracked
AwaitStep == CheckStep \/ RouteStep \/ FlipStep \/ EntryStep
BrokerStep == Fill \/ CancelDone \/ OutsideClose \/ NewBar

Next ==
    \/ BrokerStep \/ Tick \/ AwaitStep
    \/ MayDisturb /\ (StopBot \/ StartBot \/ Crash)

Spec == Init /\ [][Next]_vars

\* The polls go on, bars come, the broker lists the position and takes a close now and
\* then, and its market orders fill.
FairSpec ==
    /\ Spec
    /\ WF_vars(NewBar) /\ WF_vars(Tick)
    /\ WF_vars(AwaitStep)
    /\ SF_vars(CheckHeld) /\ SF_vars(CloseAccepted) /\ SF_vars(Fill)

-----------------------------------------------------------------------------
(* Properties.                                                             *)

\* An entry goes out only when the broker holds nothing on the symbol and no close is
\* open: else it stacks on a position or turns into its close.  The entry that ends a
\* flip asks no list of its own (regime.py _handle_regime_flip).
OnlyFromFlat == pc = "submit" /\ pc' = "fill" => held = "none" /\ closing = "none"
EntersOnlyFlat == [][OnlyFromFlat]_vars

\* A flip is never left half done: when the regime stops naming a side, the bot gets off
\* that side for good, whatever closes fail or fill late (regime.py sets
\* pending_regime_flip for that).  The sides are mirror images: one is stated.
RegimeWins == <>[](mem.dir # "short") => <>[](held # "short")

\* A flip closes a position only while the regime is against it
\* (docs/plans/2026-05-01-regime-filter.md: a pending flip is cleared when the regime
\* comes back to the position's side).
ClosesWrongSide == pc = "close" /\ pc' = "postclose" => mem.dir # bot.side
FlipsAgainstRegime == [][ClosesWrongSide]_vars
=============================================================================
