# Models of StrategyLab

StrategyLab is a FastAPI server that runs trading bots against Alpaca and Interactive
Brokers (IBKR), beside a strategy backtester, a node-graph editor and a research toolbox.
This directory models the parts that move money, must survive restarts, or keep a user's
work: the bots and what they stand on, the storage and the editor session of the node
builder, and the worker processes of a walk-forward run. TLC checks the models on small instances; TLAPS proves what the section on
the proofs lists for every value of the constants. Paths below are relative to `src/backend/` unless they say otherwise.

## The system

| Part | State | Operations | What is hard | What must hold |
|---|---|---|---|---|
| Bot runner (`bot_runner.py`, `exits.py`) | `BotState` (entry price and time, pending close order, last bar, pause), the runner's own fields (`_exits_bar`, `_missing_checks`, `_unsent_exit`), locals across awaits | poll, position check, confirmation of an outside close, entry, exit, save | every await lets Stop, a manual Buy, an IBKR callback or the broker step in; the bar is marked done before the broker is asked; replies are lost, empty or wrong | a held position is never forgotten; one exit row per real close; one close per bar; a due exit is retried |
| Code failures (`bot_runner.py` `_manage_without_signals` ...) | `code_exits_only`, `_code_failure`, `_missing_checks` | price exits only, confirmed pause, graph update | the state crosses restarts and Stops; an empty list proves nothing | no pause while a position is held; a bar counts once; a flat bot pauses in the end |
| Regime flips, post-loss rules (`regime.py`, `post_loss.py`) | side, `pending_regime_flip`, pending close | close, reopen on the other side | a flip spans ticks and can fail half-way | never both sides; the position ends up on the regime's side |
| Bot manager (`bot_manager.py`, `main.py`, `routes/bots.py`) | `bots`, `tasks`, status, `was_running`, `user_stopped`, `pause_reason`, `error_message` | start, start-all, stop, edit, delete, backtest, load, auto-resume, shutdown | routes run in worker threads, runners on the loop; a cancelled runner's `finally` runs late; check-then-act across threads | a restart brings back what ran and nothing else; two conflicting bots never run together; the card tells the truth |
| Bot store (`bot_manager.py` save/load, `fileutil.py`) | `bots.json`, unreadable rows with their anchors, a lock | save, all-or-nothing add, reorder, load, atomic replace | saves overlap; any step of a write fails; crash and power loss | saves land in order; nothing torn; no row lost |
| Fund and spawning (`bot_manager.py`, `routes/bots.py`) | `bot_fund`, allocations | add, spawn, edit, set fund | some paths take `_add_lock`, others do not | the allocations never exceed the fund |
| Broker providers (`broker.py`, `shared.py`, `broker_health.py`) | the IBKR socket, its reconnect lock, 3 s caches, health | orders, positions, calls with retries, reconnect, heartbeat | a silent link; one lock for every reconnect; a timed-out call that still runs | one order per call; a good link is kept; the link comes back |
| IB Gateway (`gateway.py`) | alert episode, restarts and their times | tail log, restart, alert, all clear | self-heal limits, states that alternate, backend restarts | restarts go on; somebody is told in time |
| Watching (`bot_watch.py`, `notifications.py`, `routes/bot_health.py`) | who was reported | daily check, alerts | alert once per outage | no bot stands still unreported |
| Node builder storage (`nodebuilder/storage.py`, `routes/graphs.py`) | a file per graph, an index, a lock per graph and one for names; asset versions, markers, a cache | create, copy, rename, save, delete, import; add and delete a version | locks that are dropped while others wait for them; names checked and then written; a second process; restarts | each request is as if served at one moment; names and version numbers are never used twice |
| Cook cache (`nodebuilder/cook_cache.py`) | entries, running cooks | get, wait, cook, evict | a cook that fails, is too big or too slow | one cook per key, nobody waits for nobody |
| Editor session (`src/frontend/src/features/nodebuilder/`) | the graph on screen, id, rev, draft, dialogs | edit, undo, autosave of the draft, save, rename, load, conflict | answers that come late, other windows, a dying page | no edit lost, no other window's edit replaced unseen |
| Journal (`journal.py`, `slippage.py`) | `trades.json` | append, pair, sum | partial fills | one row per trade |
| Walk-forward pool, sweeps (`routes/wfa_pool.py`, `routes/walk_forward.py` ...) | the windows' futures, worker processes, live executors | run windows in a pool or in the thread, time out, kill | workers that crash or are stuck in a library call; a shutdown or a kill of the server meanwhile | nothing is left running; an answer that the time limit cut short says so |
| Kernel, nodes, code (`nodebuilder/`), backtester, research, HTTP surface, the rest of the frontend, scripts | files and caches | pure computation, batch jobs, stateless requests | - | not on the path of an order |

How they interact: a route (worker thread) calls the manager; the manager puts a runner on
the event loop; the runner calls its broker through an executor and the manager's `save`
through `to_thread`; IBKR calls back from its own thread, and every bot, route and data call
shares the one socket that the heartbeat watches; the Gateway behind it is watched and
restarted by a loop of its own; `load` and `resume_was_running` at boot and `shutdown` at
the end join them through `bots.json`. The editor session talks to the graph store by
request and answer; a bot gets its graph by value, so an edit reaches it only as an update.

`PROJECT.json` lists all components with their status, and the hazards, each at its line.

## The modules

| Module | Models | Checked by |
|---|---|---|
| `BotRunner` | one bot's polling loop against the broker | `MCRunner`, run `runner`; `found_postclose` |
| `ExitsOnly` | a bot whose code failed or whose reference frame is missing | `MCRecovery`, run `recovery` |
| `RegimeFlip` | a bot that changes sides with its regime | `MCRecovery`, run `recovery`; `found_flip` |
| `IbkrLink` | the socket, its reconnects, calls with retries, the heartbeat | `MCRecovery`, run `recovery`; `found_retry` |
| `GatewayWatch` | the alert loop and the self-heal | `MCRecovery`, run `recovery` |
| `WfaPool` | a walk-forward run and its worker processes | `MCRecovery`, run `recovery` |
| `BotManager` | the life of the bots, restarts | `MCManager`, runs `manager`, `found_pause_lost` |
| `BotFund` | the fund under adds, spawns, edits, deletes and restarts | `MCStore`, run `store` |
| `VersionedStore` | what `bots.json` promises | refined by `BotStore` |
| `BotStore` | overlapping saves over the atomic write | `MCStore`, runs `store`, `found_reorder` |
| `GraphServer` | what the graph store promises: one table, one request at a time | refined by `GraphStore` |
| `GraphStore` | the graph files, their locks, the index, the names | `MCGraphs`, run `graphs` |
| `AssetLibrary` | versions, markers of deleted ones, the cache of parsed files | `MCGraphs`, run `graphs` |
| `CookCache` | single flight and eviction | `MCGraphs`, run `graphs` |
| `GraphSession` | one editor window over the graph server | `MCSession`, runs `session`, `found_draft` |
| `BotRunner_proofs`, `MCRunner_proofs`, `Recovery_proofs`, `BotManager_proofs`, `BotStore_proofs`, `GraphStore_proofs`, `NodeServer_proofs`, `GraphSession_proofs` | theorems | TLAPS |

An `MC` module holds several *setups*: instances of its modules with different switches and
bounds. A behaviour picks one in its first state and keeps it, so one run asks one question
of several environments; a property that only some of them promise says so (`setup = ...`).
Where the modules of a run have nothing in common, all but one of them stand still.

The models meet at seams. The runner modules and `BotManager` treat a save as one step
that writes what memory holds; `BotStore` shows why they may (`NewestLands`: every save
that lands is a state memory had, newer than the one before). `BotManager` treats a run as
something that begins, pauses, backs off and ends; `BotRunner` has its ticks. `GraphSession`
treats a request to the server as one step at some moment between call and answer;
`GraphStore` shows why it may (`Linearizable`: it refines `GraphServer`).

### BotRunner

A tick is cut at its awaits; `pc` names the one the coroutine sits at: `sleep`, `check`
(position list), `confirm` (closing fills), `entry`, `submit`, `entrypoll`, `entrysave`,
`verify`, `cancel`, `close`, `postclose`. `bot` is the lifecycle part of `BotState`, `disk`
what `bots.json` last got of it, `mem` the runner's own fields and the tick's locals that
live across awaits, `acct` the broker (external: position, live orders, closing fills).
`live`, `stray`, `stopper` and `manual` are the task, broker calls that outlive it, and
the Stop and Buy requests. `hist` counts what the properties speak about and guides no
action. Prices are left out: an exit is due on a bar or is not, and price exits are looked
at once per bar. The clock of the broker is the number of closing fills so far, so
`entryTime` and fills compare as the code compares their timestamps. The short side is the
mirror image.

Position lists. A check gets the truth, an error, or, at the sites `OddAt` names, an
empty list or a list of other positions. A second odd non-empty list at the position check
would confirm a close that never was: the code accepts that, so the environment gives none
while `_missing_checks` counts a first one, unless `OddTwice`.

### ExitsOnly and RegimeFlip

Both cut the tick at its awaits as `BotRunner` does, for the paths it leaves out. The code
compares bars for equality with the newest one only, so a variable that holds a bar is
modelled by whether it is the newest. `ExitsOnly` follows a code failure through the price
exits, Stops, starts and graph updates to the pause; `RegimeFlip` follows a flip through
closes that fail or do not finish, the retries, the re-entry, Stops and crashes. The broker
refuses a second close while one is open; in `RegimeFlip` an accepted entry fills at once.

### IbkrLink and GatewayWatch

A link is up, dead (`isConnected()` says yes and nothing answers) or off. A reconnect is a
task that waits for the lock, probes, dials; it belongs to the heartbeat or to a caller.
A call of `_run` has its attempts in the loop, where a timed-out one may still wait or run.
`GatewayWatch` reads one state per poll; times are ages in polls, kept up to the largest
value a comparison tells apart.

### WfaPool

`run` is the thread of the run, `fut` the future of each window, `proc` the worker processes,
`pool` the executor and `killer` the two callers of `_force_kill_executor`, cut where the
processes are noted, the executor shut down and the noted processes killed. The executor
itself (who takes which window, what it does when a process dies) is external and modelled
after CPython's. The limit is one flag, `late`: the budget of a window is what was left when it
was handed out, so no grid is cut before the limit has passed. When the server dies its memory
is reset.

### BotManager

`server` is the process: up, closing (shutdown has cancelled the tasks), exiting, down,
loaded. `task` follows a bot's task from `create_task` to its last save. A cancelled
runner waits in `dying` until its `finally` runs. `saving` holds saves given to a thread.
`start`, `edit` and `testing` are requests between their check and their effect: that is
where routes of different threads interleave. `Tests` and `Overlap` say which routes
may overlap on one bot.

### BotStore

Each thread changes the bots and then saves: takes `_save_lock`, takes the snapshot,
writes a temporary file, fsyncs it, replaces. Each write step may fail. `safe` is what may
be left after a power loss: without an fsync of the directory both the old and the new
file, and of a file that was not fsynced only a torn one.

### BotFund

A request is a record that goes through `_add_lock`, its checks, the insert under
`_save_lock`, and the commit or the rollback; deletes, edits and changes of the fund change
memory first and save afterwards. A save is one step here (`BotStore` says why).

### GraphStore, AssetLibrary, CookCache

A request of `GraphStore` is a record that goes from step to step: take the graph's lock
out of the map, wait for it, read the file, take the names' lock, check the name against
the index, write, update the index, drop the lock of a deleted graph. Locks are objects:
`lockOf` maps a graph to one and forgets it, while a job may still hold or await it. A
damaged file and a restart, which builds the index anew, may come between any two steps.
`AssetLibrary` cuts add, delete and read at the file system calls; `CookCache` cuts a
request at its lock, its wait and its cook.

### GraphSession

A graph is the set of edits it carries and what it *knows* are the edits of other windows
that were in view when it was made. That is what the properties need: a save may drop an
edit its user saw and removed, never one that nobody at this window has seen. `tab` is the store
of the page, `draft` the local storage, `calls` the requests on their way.

## The runs

Bounds are named constants of each module. They are chosen so that two trades, two
requests per graph or two restarts fit (an error of the second caused by the first is the
typical one here) and TLC ends within five minutes on two cores.

| Run | Question | Setups and bounds | Distinct states |
|---|---|---|---|
| `runner` | Is a held position kept, is only the bot's own closing fill proof, is a due exit retried until its close goes out, is nothing stacked on a held position, does each row stand for a close, and is there one close and one pass of the price exits per bar and run? | `graph`: odd lists, failing cooks, an outside close; 3 bars, 4 orders. `ibkr`: odd lists, an outside close, late rejects; 4 bars, 5 orders. `crashing`: Stop and a crash at any await, lost replies, resent orders. `slow`, `adopting`, `buying`: slow fills too, an adopted position, manual Buy; 2 bars, 2 or 3 orders, 1 crash | 3.6 million |
| `manager` | Do the cards tell the truth, does a restart bring back what ran and leave off what was stopped, does no bot stand still unreported, do two conflicting bots never run at once, does a pause end the run? | `life`: one bot (the other id is never used), 3 configs, 2 restarts. `two`: two bots, one of which may be edited into conflict | 2.2 million |
| `store` | Do saves land in order, do unreadable rows stay, does a failed add leave nothing behind, do the bots stay within their fund? | `store`: two threads, rows before, between and after the bots, failing writes and reads; 3 changes, 1 crash or power loss. `fund`: 2 requests, 3 bots, a fund of 0, 2 or 3, 1 restart. `edits`: 2 bots, edits that add 1 | 4.4 million |
| `session` | Does no save drop another window's edit unseen or go to the wrong graph, and is no edit lost that nobody gave up? | `both` (two stored graphs), `one`, `dying`, `deep` (one graph, 4 revs); 2 edits, 3 revs, 1 death of the page | 2.8 million |
| `graphs` | Is the store as if each request were served at one moment? Do names, version numbers and cooks stay unique? | `graphs`: 2 requests, 2 graphs, 2 names, 1 fault. `library`: 2 threads, 2 versions, 1 restart. `cooks`: 3 requests, 2 keys | 1.5 million |
| `recovery` | Does what must come back by itself do so, and without harm? | `watch`: short intervals in the order of the code's. `link`: 1 caller, 3 attempts, 2 drops. `exits`: odd lists, Stop, updates; `alone`: the same under fairness. `crashing`, `flip`: a flip with Stop and crashes, or under fairness. `pool`: one window in the thread, or two (the least that run on a pool here) on two workers | 210 thousand |
| `found_postclose` | `NeverDropHeld` when the post-close poll gets an empty reply | violated | |
| `found_pause_lost` | `PauseEnds` when a backtest runs beside a live run | violated | |
| `found_reorder` | `AddedStays` when a reorder overlaps an add | violated | |
| `found_draft` | `KnowsWhatItReplaces` when a restored draft is older than the graph | violated | |
| `found_retry` | `FailedWasRetried`: each attempt of a call runs | violated | |
| `found_flip` | `FlipsAgainstRegime`: a flip closes only a position on the wrong side | violated | |

Symmetry is used in `graphs` and `session`, whose properties are all safety properties, over
clients, threads, keys and graphs that nothing tells apart. Deadlock checking is off where
the bounds, or the deletion of everything, end the system (`manager`, `store`, `session`,
`recovery`); in `graphs` it is on for the graph store, the only one of the three with locks
that wait for each other; in `runner` it is on.

The type invariants stay in the modules. They are proved for `BotRunner`, `ExitsOnly`,
`BotManager`, `BotStore`, `BotFund`, `GraphStore` and `GraphSession`; the runs spend their time on the properties that could fail.

### What the violations show

- `found_postclose`: after a close is sent, one empty position list books the P&L row and
  clears the position although the close is still open (`exits.py:487`), while
  `exits.py:117` says one empty answer must never do that.
- `found_pause_lost`: `backtest_bot` writes `backtesting` and then `stopped` over the
  status of a live bot; the loop wants `error` to see the pause, so the paused bot trades on.
- `found_reorder`: `reorder` takes no lock and assigns a dict it built from an older one.
- `found_draft`: a restored draft is written back under the rev of the store, so after a
  reload its save replaces a newer version of another window without a conflict.
- `found_retry`: a call that times out is handed to the loop again while the first attempt
  still waits there; an attempt that is never reached is counted all the same.
- `found_flip`: with a close that does not finish in time, the flip is due again on a later
  tick, when the regime may have turned back; the position that now agrees with the regime
  is closed (`bot_runner.py:1975`), against `docs/plans/2026-05-01-regime-filter.md:219`.

### Known limits the passing runs make explicit

The switches exist because a property fails with them set the other way. Each was seen with
TLC.

`BotRunner`
- On IBKR the close of an earlier bar is only asked to cancel; the next close goes out for
  the whole position, both fill, and the position turns around (`exits.py:462`), while
  `bot_runner.py:1040` says a failed check can never open a reverse position
  (`FailedCheckNeverReverses`).
- `_missing_checks` keeps a 1 over the end of a trade: `_execute_exit` clears the position on
  a list that shows the other side without resetting it (`exits.py:439`, against
  `exits.py:133`), so one odd list of the next trade confirms a close: `OddTwice = TRUE`. The
  shortest behaviour takes six bars and five orders on IBKR; the attempt to prove
  `NoStackingIbkr` found it, not TLC on the smaller instance.
- `OnlyOwnFills` with `MaxAdopt = 1`: a stale `entry_time` is kept for an adopted position
  (`bot_runner.py:990`), so the fill before it counts.
- `RowsMatchCloses` is stated where a list tells the truth and entries fill in time, or where
  only the bot acts. Outside of that it fails, each time on a small instance: with odd lists
  and a Stop, the position is adopted at the restart with the `entry_time` of an earlier one,
  whose fill confirms its close on one odd list (four bars, two orders; two bars hid it); with
  odd lists and an adopted position that a late entry doubles, the close of one half reads as
  the end of the whole; with slow fills, an entry that never filled is tracked, counted missing
  twice and booked; with a manual Buy, the bot closes the position before the button's thread
  tracks it, and the tracked ghost is booked again.
- `DueExitIsSent` with `Kind = "rule"`: an indicator error on the retry leaves the bar done.
- `NeverDropHeld` with a crash or a Stop in the run: an entry that was filled but not saved
  is adopted or doubled with the old `entry_time`. With slow fills (`Prompt = FALSE`) an
  entry is tracked before the broker lists it.

`ExitsOnly`
- `StopAt = "any"` breaks `PausedBotIsFlat`: after a Stop that keeps the position, a start
  whose code fails on the first tick does not know that it may hold one, and one empty list
  pauses it, against the docstring of `_manage_without_signals`; a start with refused code
  does the same, against that of `_code_load_check`. So do odd lists at `postclose` and
  `update`.
- `MayCrash = TRUE` breaks `BarCountedOnce`: after an exit is sent `last_bar_time` is set in
  memory only, because `_mark_exits_ran` returns early.
- A graph update of a running bot clears the saved state but not the runner's
  `_code_failure`. A bot alone in its account may never pause, because an empty list proves
  nothing: by design.

`RegimeFlip`
- `OddAt` with `entry` together with `MayDisturb` breaks `EntersOnlyFlat`: a crash after
  a reversed entry leaves the old side on disk, and one odd list at the entry check lets the
  bot enter on a held position. `postclose` breaks it alone.
- A flip that is resolved between two ticks writes no exit row; the re-entry of a flip skips
  the position check of an entry; a failed higher-timeframe fetch reads as "flat" and closes
  the position; a failed close is retried on the next bar, not the next tick.

`BotManager`, `BotStore`, `BotFund`
- `NoConflictingRuns` and `ResumesAll` with `Tests = "any"`: a backtest of a live bot makes
  the guards read `stopped`. `CardMatchesRun` with `Overlap = TRUE`: a start overtakes an edit.
- `ResumesAll` promises nothing after a crash while the server boots or shuts down: `load`
  saves `stopped` first, the `finally` blocks save `stopped` before `shutdown` writes back.
- `BadRowsKept` promises nothing after a boot that could not read the file: the bots stay
  empty and the next save replaces it. `NewestLands` lets only a power loss bring an older
  save back: `atomic_write_text` fsyncs the file, not the directory. Torn files are covered by both: no row would be
  left, and no save in it.
- `Overlap = TRUE` in `BotFund` breaks `WithinFund`: `set_bot_fund` compares with a sum that
  an add is about to change, against `docs/plans/2026-04-09-bot-implementation-plan.md:163`.
  `update_bot` never compares the capital with the fund and puts a bot back that was deleted
  meanwhile (line 22 of that plan: the sum can never exceed the fund); `raised` counts what
  such edits add. An edit between the check and the insert of a spawn breaks `SpawnsApart`.

`GraphStore`, `GraphSession`
- `EarlyUse = TRUE` (a graph is used before the request that makes it is answered) breaks
  `HeadsInStep`, against the docstring of `_set_head`.
- `MayAct` of `GraphSession` lists what the user or the network may do and what then fails:
  `switch` (another graph is opened while a save is on its way: `SavesItsGraph`), `rebased`
  (the run `found_draft`), `rename_moved`, `kept` (needs three edits), `undecided` (Save as
  while the draft prompt is open deletes the draft it offers, `useGraphSession.tsx:378`
  against 420) and `dropped`, which the attempt to prove `KnowsWhatItReplaces` turned up:
  a draft of an older version is restored, so a conflict is pending; "Discard" on the way to
  another graph takes it off the screen in one commit (468-479); that load fails and leaves
  the conflict (316-320); Save, Compare and Overwrite settle it for what is on screen, which
  is the server's content; Undo brings the restored draft back, and the next Save sends it
  under the new rev and drops the other window's edit unseen. With `dropped` in `MayAct` the
  environment `deep` of the run `session` (one graph, four versions) finds it in 20 steps.

`IbkrLink`, `GatewayWatch`
- `Reconnects` needs the operating system to close a dead socket: the probe under the lock
  has no timeout. Without that (`AloneSpec`) a dead link is not always replaced
  (`DeadIsReplaced`), against the comment at `broker.py:546`. An order that was sent may be
  reported as failed.
- A restart of the backend forgets when the last restart of the Gateway was. A Gateway that
  is down before the first login stays unreported. An alert that asks for the second
  factor delays the next alert about the restarts.

`WfaPool`
- A worker that is still starting when the server is killed has no watchdog: it notes the
  parent it was handed over to. It is not true that it then ends by itself, as the comment at
  `routes/wfa_pool.py:169` expects: the workers hold both ends of the queue they read, so it
  waits for ever (seen with CPython 3.11 on Linux). `RunEndsClean` leaves these out (`Unwatched`).
- `CutEmpty = TRUE` breaks `CutOffIsTold`: a grid that was cut before any combination worked,
  collected as the limit passes, counts as a window without trades and not as cut off
  (`_run_window_core` asks for at least one result).
- A shutdown during a run cancels windows, and the answer leaves them out without saying so;
  nobody waits for it, so `CutOffIsTold` speaks of a server that is up.

### Fairness

- `runner` (`DueExitIsSentFair`, setup `graph`): weak fairness of the coroutine, since
  the event loop keeps scheduling it (a refused graph, a failed cook and an idle poll are
  left out, so that none of them is ever made to happen), and strong fairness of three steps
  that need the outside world: a poll gets its bars, the broker lists a position it holds,
  the verification succeeds. Each may fail any number of times in between; the code polls
  for ever, so a broker that answers again and again is reached. Nothing else is fair:
  bars need not come, the user need not act.
- `manager` (`PauseEnds`): the run loop looks at its pause again and again.
- `recovery`, setup `watch`: the loop polls. `link`: the heartbeat ticks, the holder of the
  lock goes on, the operating system closes a dead socket; strong fairness of taking the
  lock, because `asyncio.Lock` is first in, first out. `alone`: bars come and awaits end;
  strong fairness of the fetch and of a list that is not empty. `flip`: bars, ticks and
  awaits; strong fairness of a right list, an accepted close and its fill. `pool`: the thread of
  the run, the shutdown (systemd kills a backend that takes more than 30 s:
  `src/deploy/systemd/strategylab-backend.service`), time, and the start of a worker and its
  watchdog.
  The setups never mix, so one fairness condition may stand for one of each.

## The proofs

All theorems hold for every value of the constants that satisfies the named assumptions.

`BotRunner_proofs`: `TypeCorrect`, `CloseOnce` (`Spec => []CloseOncePerBar`) and
`PriceExitsOnce`. Neither count is inductive alone. A tick works on `bot.lastBar` and goes
back to `mem.prevBar` when it fails, so what keeps the counts at one is where earlier closes
and looks can lie relative to those two bars. `OncePerBarInv` adds: a task that is not
running sits at no await (`OffSleeps`); the bars are in order, in memory and on disk
(`BarsInOrder`); before a tick's close goes out closes exist only up to `prevBar`, later
only up to `lastBar` (`ClosesBehind`); the price exits were looked at on no bar after the
tick's, and a bar that will be worked on again is the one `exitsBar` remembers
(`EvalsBehind`). The steps fall into those that move on (`ForwardKeeps`), those that put the
bar back (`BackKeeps`), those that look at the exits and those that send the close, each
with its lemma; `OncePerBarInductive` collects them and `PTL` closes the theorems.

The theorems about a held position take the hypothesis `Calm`, which the setups `graph` and
`ibkr` of the run satisfy: nobody but the bot's own loop acts on the position (no Stop, manual
Buy, crash or adopted position; closes from outside stay), entries fill while the bot polls
for them, and odd lists come only where the code can tell them. Under it, for every number of
bars, orders and outside closes: `NeverStacks` (`Spec => []NoStacking`), `ForgetsOnlyGone` (`Spec => NeverDropHeld`), `BooksOwnFills`
(`Spec => OnlyOwnFills`) and, on Alpaca, `RowsMatch` (`Spec => []RowsMatchCloses`; on IBKR the
closes of several bars may turn the position around, and a row is booked for that). `HeldInv`
has what they share: at most one buy is out, and filling it leaves a position only while the
entry is polled for (`BuysFit`), so any other fill can only end a position; a held position is
tracked (`Tracks`); a pending close's id is newer than every fill that came before the
position, and `entry_time` is the fill count it was opened at, so no closing fill is found
while it is held (`ClosesAfter`); and the count of missing checks is zero when a non-empty
list without a held position arrives (`CountFits`), so neither way of confirming a close is
open. `RowsInv` adds one closing in hand for each position that is over and not yet booked.
Under Stop, crashes and manual Buys most of these properties fail, as the limits above say. What
is left of the rows is `RowsMatchTold` (`Spec => []RowsMatchCloses`): on Alpaca, when a position
list tells the truth or fails, entries fill while they are polled for and nobody presses Buy, no
Stop, crash, lost reply, resent order or adopted position makes the bot book a row too many,
except that a crash may repeat one. `ToldInv` holds the books: at most one sell is out and for
no more than is held, so a position only closes at zero (`OrdersFit`), and rows plus the row
that is due (a tracked position, a polled entry or a sent close that is over, a close being
confirmed) never outnumber closings and crashes (`RowsTold`). Each of its hypotheses is needed:
the limits above list what TLC finds without them.

`MCRunner_proofs` carries this over to the setups of the run, whose bots differ in their
constants: `MCRunner` takes them as instances of `BotRunner_proofs`, so that each brings its own
copy of every lemma, once the constants it gives meet the assumptions on them (`SetupsFit`).
`SetupsInv` says which invariant each setup keeps: `HeldInv` of `ibkr`, `HeldInv` and `RowsInv` of
`graph`, `ToldInv` of `crashing`. From it, over the run's own `MCSpec`: `NeverStacksIbkr`
(`NoStackingIbkr`), `SetupRowsMatch` (`RowsMatchClosesTold`), `SetupForgetsOnlyGone`
(`NeverDropHeldPolling`) and `SetupBooksOwnFills` (`OnlyOwnFillsPolling`). Their hypothesis is
`Calm` of the constants in the `.cfg`, which the `.cfg` satisfies; what a setup replaces it may
replace, so `crashing` keeps its Stops, crashes and lost replies.

`GraphStore_proofs`: `TypeCorrect`, `OneAtATime` (no two requests are past the lock of one
stored graph, although locks are forgotten under waiting requests), `NamesStayUnique`,
`HeadsFollow` (`HeadsInStep`) and `Implements` (`Spec => Linearizable`).
The inductive invariant is `IInv`: types; a lock object has one holder (`LockExclusive`);
what is stored was given out (`StoredIsMade`); names are unique; and every job fits its step
(`Fit`): its fields have the shape of its operation, the lock it holds is known or its graph
is gone, what it read is still there while it holds the lock, its name is checked and free
while it holds the names' lock, and what it saw is what it will answer. For `HeadsFollow`
it is added that a file and its head differ only while one request that changed the file
owes the head, and that nobody else is then past that graph's lock; it needs
`EarlyUse = FALSE`, as TLC shows. In `Implements` a request takes effect at its write, its
unlink, or the look that decides its refusal; `TInv` adds to `IInv` that the answer noted
there is the one the job will give (`Told`). The assumptions used: a missing or damaged file
is no id, name or record, and the names of the first graphs differ.

`NodeServer_proofs`, over `MCGraphs`: `CooksOnce` (`SingleFlight`) and `WaitsAreServed`
(`WaitsForACook`): a registered key has its leader at work, and a key that is no longer
registered has its event set, so nobody waits for a cook that is over. `NumbersOnce`
(`NumberGivenOnce`) and `DeletesWin` (`DeletedIsGone`): every version that was given out has
a file or a marker, or is in the hands of a save that holds the lock, so the next number is
above all of them; what the cache holds of a deleted version is dropped before the delete is
answered. The largest number a list holds is found by the least-number principle (`WFMin`).
`CacheFollowsFiles` (`AssetLibrary!CacheHasFiles`, which no run checks; TLC found it to hold with
three threads, one asset and a restart): what is cached, or about to be by a create or by a read of
the current generation, has its file or is being forgotten (`BackedInv`).

`Recovery_proofs`, over `MCRecovery`: `OneOrder` (`SentOnce`) and `GoodLinksStay`
(`KeepsGood`). `CallsFit`: a call whose body has not begun has put nothing on the socket, and
no attempt makes a begun body new again. `Holding`: who probes or dials holds the lock, and
who dials has found the link off, so that nobody else can have dialled since. The assumption
used: no caller has the name of nobody.
`StuckIsTold` (`ToldInTime`). `OnTime` counts down: as long as nobody is told, the time the
state has lasted and what the restarts still due before the alert will take (`Left`) never
exceed the bound; while the episode is younger than `HEAL_AFTER_SECS` it is older than the
outage. It needs `MinInterval < MaxInterval`: with one interval every restart would put the
alert off to the next, and TLC finds the Gateway nobody is told of.
`RestartsKeepApart`, `OnlyStuckRestarted` and `AllClearIfTold` (`RestartsApart`, `NotTransient` and
`ClearIfTold` of `GatewayWatch`, which no run checks; TLC found them to hold on a small instance of
the module). `PaceInv`: the age of the last restart in memory is the true one up to `MinInterval`,
an episode is younger than the outage, and who was told was told of a state other than a login.
`CutOffsTold` (`CutOffIsTold`, without `CutEmpty`). `JobsInv`: nobody shuts the pool down
under a run that hands out or collects; what was collected was judged or raised
(`Collected`), and a future that ended stays as it is, so a window the answer lacks is one
that was counted as cut off.

Of the bot whose code failed: `TypeCorrect`, `PausesFlat`, `CountedOnce`, and the same two
of the run's own specification, `SetupPausesFlat` (`PausedBotIsFlat`) and
`SetupCountsOnce` (`BarCountedOnce`). A held position is known to the bot, in memory and on
disk, or kept by the exits-only state (`Known`); the second odd list in a row never comes
(`Seen`), so a position missing from two lists is gone. A bar whose exits ran is behind
`last_bar_time` or noted as begun (`Finished`), and nothing of a run outlives it
(`Confined`). The hypotheses are those of the run's configuration, and TLC shows that each is
needed: the lists after a close and at an update are right (`RightLists`), a Stop keeps a
position only in the exits-only state (`StopsInExits`), and for `CountedOnce` no process dies
without saving (`~MayCrash`).

Of the flips: `FlatEntries`: no entry of a regime bot goes out on a held position or an open
close, over Stops and crashes at every await, if the lists at the entry and after a close are
right; if nobody disturbs the bot, only the lists after a close need to be (TLC shows that both
are needed). `SetupFlatEntries` (`EntersOnlyFlat`) is the same of the run's two setups. The
invariant: a pending flip is on disk as well, and what is held is on the side the bot tracks
(`OnItsSide`); a check that waits for its second list has seen an odd one, or the position is
gone (`SecondListRight`, `FlipMissed`); an entry about to go out finds nothing held
(`FlatAtSubmit`); left alone, the bot tracks whatever is held (`Tracks`).

`BotManager_proofs`: `TypeCorrect`, `NeverConflict`, `CardsAreTrue`, `RestartsResume`
(`ResumesAll`), `StopsStick` (`StopSticks`) and `NeverOffUnseen` (`NeverSilentlyOff`), if an
edit and a start of one bot do not overlap (`Overlap = FALSE`) and no live bot is backtested
(`Tests # "any"`); TLC shows that neither can be dropped. `start_bot` compares cards, so
`NoConflictingRuns` is inductive only together with what ties each card to its run (`Fits`):
a bot that trades is listed, shown as running, and trades the config on its card; an edit
past its check is of a bot that neither trades nor starts; a cancelled runner is no live task
any more; and a server that is not up starts nothing. `HInv` adds what `bots.json`, the cards
and the cancelled runs say of each other at each stage of a restart: which rows still say
"running" after `load` has saved them as stopped, that the runs a shutdown cancelled may save
`stopped` only before it writes its list back, and that the bots that may resume do not
conflict with one another, since they ran together.

`BotStore_proofs`: `StoreImplements` (`Spec => NewestLands`: `BotStore` refines
`VersionedStore`). `_save_lock` spans the snapshot and the replace, so whoever is between the
two holds it: the snapshot being written is no older than the file and no newer than memory
(`Saving`), and what a power loss may bring back is no newer than the file (`Numbered`). A
save that lands is then a later state of memory, and every other step changes nothing that the
abstract store shows. The assumption used: no thread has the name of a free lock.

`BadRowsStay` (`BadRowsKept`), `RefusedGone` (`AddAllOrNothing`, if a reorder and an add do not
overlap; TLC shows that this is needed: a reorder that found the bot of an add brings it back
after the rollback) and `TypeCorrect`. First what the rows are: `load` and `_rows_to_save` are
joins of pieces (`FlattenSeq`), so that each element is in exactly one piece says that no row is
lost or doubled (`ParsedIs`, `SavedIs`); a join is recursive, and what holds of every prefix is
proved by looking at the shortest prefix for which it fails (`Least`). Then `RowsInv` says what
the file and all that a power loss may leave of it (`FilesFit`), memory (`MemFits`), the
snapshot of a save and the order of a reorder that is about to be put in place (`JobFits`) still
hold: every unreadable row, no bot twice, and no bot but those at first in the file, those
whose add was answered and, in memory and in its own snapshot alone, the bot of an add at work.
That nobody else has that bot is what its lock gives; so its rollback leaves nothing. TLC
checked `RowsInv` first, with and without overlapping reorders (4.4 million states each). The
assumptions used: bots and unreadable rows differ, and no bot is named as the anchor of the
rows before the first.

The fund, in the same module: `FundTypeCorrect`, `FundHolds` (`Fund!WithinFund`, if a change of
the fund and an add do not overlap), `SetupFundHolds` (the same of the run's own specification)
and `SpawnsStayApart` (no spawned bot conflicts with one that is listed when it
joins, if nobody edits). Whoever is between the check and the save of an add holds `_add_lock`
(`Locked`), so nobody else adds meanwhile; edits and deletes come in between, and what the
check found to fit still fits but for what edits have added since (`StillFits`), as what the
guard saw still holds (`StillGuarded`). The assumption (`Sound`): finitely many bots, whole
numbers for capitals and amounts, and null is neither a config nor a thread. The sums come
first: the code adds up capitals bot by bot, so that the order does not matter, that a smaller
set takes no more and that two disjoint sets add up are facts about every finite set. The
library's induction takes an operator, so each is proved by looking at a smallest set for
which it fails (`Smallest`).

`GraphSession_proofs`: `TypeCorrect`, `ShownCleanIsSaved` (`CleanIsSaved`), `EditsAreKept`
(`NoEditLost`), `SaveSendsItsGraph` (`SavesItsGraph`) and `SavesKnowWhatTheyReplace`
(`KnowsWhatItReplaces`), for any number of graphs, edits, versions and deaths of the page, with
every switch of `MayAct` off. A save that is accepted proves only that its rev was the newest;
that its content has seen that version is a fact about everything that can still put older work
on screen. `Fits` says what each of these still matches: the content on screen, its saved copy
and the one that Undo brings back are of one graph and a rev the server has (`Screen`,
`SavedStored`); a draft that bears the newest rev knows the newest version (`DraftFits`); of a
save and a rename that are out together the rename is the older one, or one of them will not
be answered with ok (`SaveFits`, `RenameFits`); a dialog or a load holds a version that was the newest when it was
read (`DialogFits`, `LoadFits`); an open prompt belongs to a clean screen without a conflict
(`PromptIs`). `Known` says who has seen the newest version: what is on screen and one Undo
below it, while the window is current and no conflict is pending (`ScreenKnows`); the draft on
offer, if it is to be restored without a conflict (`PromptKnows`); and what a save replaces once
it lands (`SaveKnown`, `PastKnows`). `Held` says where an edit is that nobody gave up: on screen,
in a draft or stored, also while a load is about to replace the screen (`LeftKept`) and one Undo
away (`PastKept`). TLC checked all three as invariants, on instances of up to four versions
(11 million states), before the proof, which carries them through each step together. The
assumption used: null is no record.

The proof modules over an `MC` module extend it only to state the very properties its run
checks; the constants stay arbitrary.

Only model-checked: all liveness properties (the prover has no `ENABLED`). The limits of
the cook cache are modelled but stated by no property: that a list within them stays within them
when entries go is induction over its length.

## Plan

1. Done: the runner's loop, the life of the bots, the store; the exits-only state and regime
   flips; the link to IBKR and the watch over its Gateway; the node builder's storage, cook
   cache and editor session; the fund; the walk-forward pool; the theorems above.
2. Next models: the post-loss counters; the daily watch and its alert limits; price exits and
   journal pairing as operators checked against each other.
3. Next proofs: the models above as they come.

## Not modelled

Prices, sizes and profit; logging and texts; what a graph computes (the runner sees that a
cook succeeds, fails or is refused): the kernel, the nodes and the snippets' sandbox are a
pure language. The backtester, the sweeps and the research tools are batch computation whose
results are read by people; the walk-forward pool, the part of them with processes and
time limits, is modelled. The rest of the frontend displays. The `.bak` copies beside
`bots.json` change no row.
