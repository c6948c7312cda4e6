----------------------------- MODULE BotManager -----------------------------
(***************************************************************************)
(* The life of the bots: bot_manager.py, the frame of bot_runner.py run()   *)
(* and main.py's lifespan.                                                 *)
(*                                                                         *)
(* Runners are coroutines of one event loop.  Routes run in worker threads  *)
(* (stop, edit, backtest, delete) or begin in one and end on the loop       *)
(* (start).  What the server knows after a restart is bots.json.  Ticks and *)
(* positions are in BotRunner; here a run only begins, pauses, backs off    *)
(* and ends.  A save is one step: BotStore says why.                        *)
(***************************************************************************)
EXTENDS Naturals, FiniteSets

CONSTANTS
    Bots,        \* bot ids
    Configs,     \* [symbol, side]; side is "long", "short" or "both"
    First,       \* the bots listed at first: id -> config
    MayEdit,     \* bots whose config the user may change while they are stopped
    MayDelete,   \* the user may delete a bot
    MayRefuse,   \* a graph may fail to compile
    MayFail,     \* runs may back off, or end by an unexpected error
    Tests,       \* "none"; "idle": a backtest and a run of one bot never overlap; "any"
    Overlap,     \* an edit and a start of one bot may overlap
    MaxDown      \* bound: times the server goes down

Conflict(c, d) == c.symbol = d.symbol /\ (c.side = d.side \/ "both" \in {c.side, d.side})

ASSUME ConfigAssumption ==
    /\ Configs \subseteq [symbol: STRING, side: {"long", "short", "both"}]
    /\ DOMAIN First \subseteq Bots /\ First \in [DOMAIN First -> Configs] /\ Configs # {}
ASSUME SwitchAssumption ==
    /\ MayEdit \subseteq Bots /\ MayDelete \in BOOLEAN /\ MayRefuse \in BOOLEAN
    /\ MayFail \in BOOLEAN /\ Tests \in {"none", "idle", "any"} /\ Overlap \in BOOLEAN
ASSUME BoundAssumption == MaxDown \in Nat

VARIABLES
    server,   \* the process
    bots,     \* self.bots: bot_id -> config and the lifecycle part of BotState
    disk,     \* bots.json
    task,     \* the bot's task in self.tasks, and how far its run() is
    config,   \* the config object the bot's runner holds
    dying,    \* bots with a cancelled runner whose finally has not run yet
    saving,   \* saves handed to a thread
    start,    \* start requests: what prepare_start found
    edit,     \* edit requests past their check
    testing,  \* bots a backtest thread runs for
    recorded, \* shutdown(): the status of each live bot
    hist      \* history, for the properties only

vars == <<server, bots, disk, task, config, dying, saving, start, edit, testing, recorded, hist>>
requests == <<start, edit, testing>>

Statuses == {"stopped", "running", "backtesting", "error"}
Notes == {"none", "recovering", "fatal"}
Rows == [config: Configs, status: Statuses, wasRunning: BOOLEAN, userStopped: BOOLEAN,
         paused: BOOLEAN, note: Notes]
Partial(f, S) == DOMAIN f \subseteq Bots /\ f \in [DOMAIN f -> S]

\* created: create_task; begun: its first segment ran; on: and was saved; ending: in
\* its finally; done: the task is over, its entry still in self.tasks.
Phases == {"none", "created", "begun", "on", "ending", "done"}

TypeOK ==
    /\ server \in {"up", "closing", "exiting", "down", "loaded"}
    /\ Partial(bots, Rows) /\ Partial(disk, Rows) /\ Partial(edit, Rows)
    /\ Partial(recorded, Statuses)
    /\ task \in [Bots -> Phases] /\ config \in [Bots -> Configs]
    /\ dying \subseteq Bots /\ testing \subseteq Bots
    /\ saving \subseteq {"run", "end", "stop"} \X Bots
    /\ start \in [Bots -> {"none", "checked", "swept", "refused"}]
    /\ hist \in [downs: Nat, ran: SUBSET Bots, off: SUBSET Bots, on: SUBSET Bots]

Stopped(c) == [config |-> c, status |-> "stopped", wasRunning |-> FALSE,
               userStopped |-> FALSE, paused |-> FALSE, note |-> "none"]
NoTasks == [b \in Bots |-> "none"]
Nobody == [b \in {} |-> "none"]

Init ==
    /\ server = "up"
    /\ bots = [b \in DOMAIN First |-> Stopped(First[b])]
    /\ disk = bots
    /\ task = NoTasks
    /\ config = [b \in Bots |-> IF b \in DOMAIN First THEN First[b] ELSE CHOOSE c \in Configs : TRUE]
    /\ dying = {} /\ saving = {} /\ start = NoTasks /\ edit = Nobody /\ testing = {}
    /\ recorded = Nobody
    /\ hist = [downs |-> 0, ran |-> {}, off |-> {}, on |-> {}]

Listed == DOMAIN bots
Without(f, b) == [x \in DOMAIN f \ {b} |-> f[x]]
With(f, b, v) == [x \in DOMAIN f \cup {b} |-> IF x = b THEN v ELSE f[x]]

\* self.tasks holds a task of b that is not done.
NotDone(b) == task[b] \in {"created", "begun", "on", "ending"}
Running(b) == task[b] \in {"created", "begun", "on"}

Up == server = "up" /\ UNCHANGED <<server, recorded>>

-----------------------------------------------------------------------------
(* Starting a bot.                                                         *)

\* prepare_start, in a worker thread: refuses a bot that runs, compiles its graph.
\* Start-all sweeps over the stopped bots, the start route takes any.
PrepareStart(b) ==
    /\ Up /\ b \in Listed /\ start[b] = "none" /\ ~NotDone(b)
    /\ Overlap \/ b \notin DOMAIN edit
    /\ Tests = "any" \/ b \notin testing
    /\ \/ start' = [start EXCEPT ![b] = "checked"]
       \/ bots[b].status = "stopped" /\ start' = [start EXCEPT ![b] = "swept"]
       \/ MayRefuse /\ start' = [start EXCEPT ![b] = "refused"]
    /\ UNCHANGED <<bots, disk, task, config, dying, saving, edit, testing, hist>>

\* Back on the loop: nobody looks again whether the bot runs by now.
RefuseStart(b) ==
    /\ Up /\ start[b] = "refused"
    /\ start' = [start EXCEPT ![b] = "none"]
    /\ IF b \in Listed
       THEN /\ bots' = [bots EXCEPT ![b].status = "error", ![b].paused = TRUE,
                                    ![b].note = "fatal"]
            /\ disk' = bots'
       ELSE UNCHANGED <<bots, disk>>
    /\ hist' = [hist EXCEPT !.on = @ \ {b}]
    /\ UNCHANGED <<task, config, dying, saving, edit, testing>>

\* Mutant: the guard compares the sides only.
BlocksSameSideOnly(b, c) ==
    {o \in Listed \ {b} : NotDone(o) /\ bots[o].config.symbol = c.symbol
                          /\ bots[o].config.side = c.side}

\* The live bots the exclusive-symbol guard finds in the way of b.
Blocks(b, c) == {o \in Listed \ {b} : NotDone(o) /\ Conflict(bots[o].config, c)}

StartBot(b) ==
    /\ Up /\ start[b] \in {"checked", "swept"}
    /\ start' = [start EXCEPT ![b] = "none"]
    /\ IF b \in Listed /\ ~NotDone(b) /\ Blocks(b, bots[b].config) = {}
       THEN /\ task' = [task EXCEPT ![b] = "created"]
            /\ config' = [config EXCEPT ![b] = bots[b].config]
            /\ hist' = [hist EXCEPT !.off = @ \ {b}]
       ELSE UNCHANGED <<task, config, hist>>
    /\ UNCHANGED <<bots, disk, dying, saving, edit, testing>>

-----------------------------------------------------------------------------
(* run().                                                                  *)

\* Mutant: a start does not take the user's stop back.
RunBeginKeepsStop(b) ==
    /\ Up /\ task[b] = "created" /\ b \notin dying
    /\ bots' = [bots EXCEPT ![b].status = "running", ![b].wasRunning = FALSE,
                            ![b].paused = FALSE, ![b].note = "none"]
    /\ task' = [task EXCEPT ![b] = "begun"]
    /\ saving' = saving \cup {<<"run", b>>}
    /\ UNCHANGED <<disk, config, dying, requests, hist>>

\* The loop is first in, first out: a cancelled runner of the bot comes first.
RunBegin(b) ==
    /\ Up /\ task[b] = "created" /\ b \notin dying
    /\ bots' = [bots EXCEPT ![b].status = "running", ![b].wasRunning = FALSE,
                            ![b].userStopped = FALSE, ![b].paused = FALSE,
                            ![b].note = "none"]
    /\ task' = [task EXCEPT ![b] = "begun"]
    /\ saving' = saving \cup {<<"run", b>>}
    /\ UNCHANGED <<disk, config, dying, requests, hist>>

\* Mutant: the pause leaves the status.
PauseKeepsStatus(b) ==
    /\ Up /\ task[b] \in {"begun", "on"} /\ ~bots[b].paused
    /\ bots' = [bots EXCEPT ![b].paused = TRUE, ![b].note = "fatal"]
    /\ disk' = bots'
    /\ hist' = [hist EXCEPT !.ran = @ \ {b}, !.on = @ \ {b}]
    /\ UNCHANGED <<task, config, dying, saving, requests>>

\* A graph refused in a tick, a drawdown, a reject from IBKR.
Pause(b) ==
    /\ Up /\ task[b] \in {"begun", "on"} /\ ~bots[b].paused
    /\ bots' = [bots EXCEPT ![b].status = "error", ![b].paused = TRUE, ![b].note = "fatal"]
    /\ disk' = bots'
    /\ hist' = [hist EXCEPT !.ran = @ \ {b}, !.on = @ \ {b}]
    /\ UNCHANGED <<task, config, dying, saving, requests>>

\* Five failed ticks in a row: a flat bot gets a note; after the wait the note goes.
BackOff(b) ==
    /\ Up /\ MayFail /\ task[b] = "on" /\ bots[b].note = "none" /\ ~bots[b].paused
    /\ bots' = [bots EXCEPT ![b].note = "recovering"]
    /\ disk' = bots'
    /\ UNCHANGED <<task, config, dying, saving, requests, hist>>

Recover(b) ==
    /\ Up /\ task[b] = "on" /\ bots[b].note = "recovering"
    /\ bots' = [bots EXCEPT ![b].note = "none",
                            ![b].status = IF bots[b].paused THEN @ ELSE "running"]
    /\ disk' = bots'
    /\ UNCHANGED <<task, config, dying, saving, requests, hist>>

Ending(b, bots2) ==
    /\ bots' = bots2
    /\ task' = [task EXCEPT ![b] = "ending"]
    /\ saving' = saving \cup {<<"end", b>>}
    /\ hist' = [hist EXCEPT !.ran = @ \ {b}]
    /\ UNCHANGED <<disk, config, dying, requests>>

\* The loop sees the pause and leaves: the finally says stopped.
RunEnds(b) ==
    /\ Up /\ task[b] = "on" /\ bots[b].status = "error" /\ bots[b].paused
    /\ Ending(b, [bots EXCEPT ![b].status = "stopped"])

\* IBKR is not registered yet: the run ends before its first save (F445).
RunRefused(b) ==
    /\ Up /\ MayFail /\ task[b] = "created" /\ b \notin dying
    /\ Ending(b, [bots EXCEPT ![b] = [@ EXCEPT !.status = "stopped", !.wasRunning = FALSE,
                       !.userStopped = FALSE, !.paused = FALSE, !.note = "fatal"]])

\* An unexpected error ends the run; its text stays on the card.
RunFails(b) ==
    /\ Up /\ MayFail /\ task[b] = "on"
    /\ Ending(b, [bots EXCEPT ![b].status = "stopped", ![b].note = "fatal"])

\* A cancelled runner: only its finally still runs.  A deleted bot's state is nobody's.
DyingEnds(b) ==
    /\ server \in {"up", "closing"} /\ b \in dying
    /\ dying' = dying \ {b}
    /\ bots' = IF b \in Listed THEN [bots EXCEPT ![b].status = "stopped"] ELSE bots
    /\ task' = IF server = "closing" THEN [task EXCEPT ![b] = "ending"] ELSE task
    /\ saving' = saving \cup {<<"end", b>>}
    /\ UNCHANGED <<server, disk, config, requests, recorded, hist>>

\* manager.save in a thread; the run that awaits it goes on.
Saved(w, b) ==
    /\ server \in {"up", "closing", "exiting"} /\ <<w, b>> \in saving
    /\ saving' = saving \ {<<w, b>>}
    /\ disk' = bots
    /\ task' = IF w = "run" /\ task[b] = "begun" THEN [task EXCEPT ![b] = "on"]
               ELSE IF w = "end" /\ task[b] = "ending" THEN [task EXCEPT ![b] = "done"]
               ELSE task
    /\ LET lasts == w = "run" /\ task[b] = "begun" /\ ~bots[b].paused IN
       hist' = [hist EXCEPT !.ran = IF lasts THEN @ \cup {b} ELSE @,
                            !.on = IF lasts THEN @ \cup {b} ELSE @,
                            !.off = IF w = "stop" /\ ~Running(b) /\ b \in Listed THEN @ \cup {b} ELSE @]
    /\ UNCHANGED <<server, bots, config, dying, requests, recorded>>

-----------------------------------------------------------------------------
(* The other routes, in worker threads.                                    *)

\* Mutant: the state says stopped, the file is not told.
StopUnsaved(b) ==
    /\ Up /\ b \in Listed
    /\ dying' = IF task[b] \in {"begun", "on"} THEN dying \cup {b} ELSE dying
    /\ task' = [task EXCEPT ![b] = "none"]
    /\ bots' = [bots EXCEPT ![b].status = "stopped", ![b].userStopped = TRUE]
    /\ saving' = {s \in saving : s # <<"run", b>>}
    /\ hist' = [hist EXCEPT !.ran = @ \ {b}, !.on = @ \ {b}, !.off = @ \cup {b}]
    /\ UNCHANGED <<disk, config, requests>>

\* Cancels the task and forgets it at once; the save comes after the broker's close.  A
\* task that never began does not run at all.
Stop(b) ==
    /\ Up /\ b \in Listed
    /\ dying' = IF task[b] \in {"begun", "on"} THEN dying \cup {b} ELSE dying
    /\ task' = [task EXCEPT ![b] = "none"]
    /\ bots' = [bots EXCEPT ![b].status = "stopped", ![b].userStopped = TRUE]
    /\ saving' = saving \cup {<<"stop", b>>}
    /\ hist' = [hist EXCEPT !.ran = @ \ {b}, !.on = @ \ {b}]
    /\ UNCHANGED <<disk, config, requests>>

\* Mutant: a running bot is edited too.
EditCheckAnyTime(b, c) ==
    /\ Up /\ b \in MayEdit /\ b \in Listed /\ b \notin DOMAIN edit
    /\ Overlap \/ (start[b] = "none" /\ task[b] # "created")
    /\ edit' = With(edit, b, [bots[b] EXCEPT !.config = c])
    /\ UNCHANGED <<bots, disk, task, config, dying, saving, start, testing, hist>>

\* update_bot checks the status, builds and compiles the new config, then puts it in
\* place; a bot deleted meanwhile is listed again.
EditCheck(b, c) ==
    /\ Up /\ b \in MayEdit /\ b \in Listed /\ b \notin DOMAIN edit
    /\ bots[b].status # "running"
    /\ Overlap \/ (start[b] = "none" /\ task[b] # "created")
    /\ edit' = With(edit, b, [bots[b] EXCEPT !.config = c])
    /\ UNCHANGED <<bots, disk, task, config, dying, saving, start, testing, hist>>

EditApply(b) ==
    /\ Up /\ b \in DOMAIN edit
    /\ bots' = IF b \in Listed THEN [bots EXCEPT ![b].config = edit[b].config]
                               ELSE With(bots, b, edit[b])
    /\ disk' = bots'
    /\ edit' = Without(edit, b)
    /\ UNCHANGED <<task, config, dying, saving, start, testing, hist>>

DeleteBot(b) ==
    /\ Up /\ MayDelete /\ b \in Listed /\ ~NotDone(b)
    /\ bots' = Without(bots, b)
    /\ disk' = bots'
    /\ task' = [task EXCEPT ![b] = "none"]
    /\ hist' = [hist EXCEPT !.on = @ \ {b}, !.off = @ \ {b}]
    /\ UNCHANGED <<config, dying, saving, requests>>

\* A backtest writes its own status over the bot's.
TestBegin(b) ==
    /\ Up /\ b \in Listed /\ b \notin testing
    /\ Tests = "any" \/ (Tests = "idle" /\ ~NotDone(b) /\ start[b] = "none")
    /\ testing' = testing \cup {b}
    /\ bots' = [bots EXCEPT ![b].status = "backtesting"]
    /\ disk' = bots'
    /\ UNCHANGED <<task, config, dying, saving, start, edit, hist>>

TestEnd(b) ==
    /\ Up /\ b \in testing
    /\ testing' = testing \ {b}
    /\ bots' = IF b \in Listed THEN [bots EXCEPT ![b].status = "stopped"] ELSE bots
    /\ disk' = bots'
    /\ UNCHANGED <<task, config, dying, saving, start, edit, hist>>

-----------------------------------------------------------------------------
(* The server.                                                             *)

\* shutdown(): the statuses are noted, then every task is cancelled.  No request is
\* under way any more, and every created task has begun.
ShutdownBegin ==
    /\ server = "up" /\ hist.downs < MaxDown
    /\ start = NoTasks /\ edit = Nobody /\ testing = {}
    /\ \A b \in Bots : task[b] # "created" /\ <<"stop", b>> \notin saving
    /\ server' = "closing"
    /\ recorded' = [b \in {x \in Listed : NotDone(x)} |-> bots[b].status]
    /\ dying' = dying \cup {b \in Bots : task[b] \in {"begun", "on"}}
    /\ UNCHANGED <<bots, disk, task, config, saving, requests, hist>>

\* Mutant: the statuses the finallys left are saved.
ShutdownSavesStopped ==
    /\ server = "closing" /\ dying = {}
    /\ server' = "exiting"
    /\ bots' = bots
    /\ disk' = bots'
    /\ UNCHANGED <<task, config, dying, saving, requests, recorded, hist>>

\* The tasks are over, or ten seconds are: the noted statuses are put back and saved.
\* A finally's save may still come after that.
ShutdownEnd ==
    /\ server = "closing" /\ dying = {}
    /\ server' = "exiting"
    /\ bots' = [b \in Listed |-> IF b \in DOMAIN recorded
                                 THEN [bots[b] EXCEPT !.status = recorded[b]] ELSE bots[b]]
    /\ disk' = bots'
    /\ UNCHANGED <<task, config, dying, saving, requests, recorded, hist>>

\* The process ends: only bots.json stays.
Dead ==
    /\ server' = "down"
    /\ bots' = Nobody
    /\ task' = NoTasks /\ dying' = {} /\ saving' = {} /\ start' = NoTasks
    /\ edit' = Nobody /\ testing' = {} /\ recorded' = Nobody
    /\ UNCHANGED <<disk, config>>

Exit == server = "exiting" /\ saving = {} /\ Dead /\ hist' = [hist EXCEPT !.downs = @ + 1]

\* The runs that a restart resumed were saved.
Settled == server = "up" /\ \A b \in hist.ran : task[b] # "created" /\ <<"run", b>> \notin saving

\* load() saves every bot as stopped before their runs say otherwise, and so do the
\* finallys before shutdown() puts the statuses back: a crash there forgets who ran.
Crash ==
    /\ server # "down" /\ hist.downs < MaxDown
    /\ Dead
    /\ hist' = [hist EXCEPT !.downs = @ + 1, !.ran = IF Settled THEN @ ELSE {}]

LoadRow(row) == [row EXCEPT !.wasRunning = (row.status = "running"), !.status = "stopped"]

\* load(): every bot starts stopped, and that is saved at once.
Load ==
    /\ server = "down" /\ server' = "loaded"
    /\ bots' = [b \in DOMAIN disk |-> LoadRow(disk[b])]
    /\ disk' = bots'
    /\ UNCHANGED <<task, config, dying, saving, requests, recorded, hist>>

\* A note of the backoff does not keep a bot from coming back, any other note does.
MayResume(b) == bots[b].wasRunning /\ ~bots[b].paused /\ bots[b].note # "fatal"

\* resume_was_running(): bot after bot through start_bot, so a conflict or a refused
\* graph leaves a bot out.  The save at the end still says stopped.
Resume ==
    /\ server = "loaded" /\ server' = "up"
    /\ \E started \in SUBSET {b \in Listed : MayResume(b)},
          refused \in IF MayRefuse THEN SUBSET {b \in Listed : MayResume(b)} ELSE {{}} :
        /\ started \cap refused = {}
        /\ \A b, c \in started : b = c \/ ~Conflict(bots[b].config, bots[c].config)
        /\ \A b \in Listed \ (started \cup refused) :
              MayResume(b) => \E c \in started : Conflict(bots[b].config, bots[c].config)
        /\ task' = [b \in Bots |-> IF b \in started THEN "created" ELSE "none"]
        /\ config' = [b \in Bots |-> IF b \in started THEN bots[b].config ELSE config[b]]
        /\ bots' = [b \in Listed |->
              IF b \in refused
              THEN [bots[b] EXCEPT !.status = "error", !.paused = TRUE, !.note = "fatal",
                                   !.wasRunning = FALSE]
              ELSE [bots[b] EXCEPT !.wasRunning = @ /\ b \in started,
                                   !.note = IF MayResume(b) THEN "none" ELSE @]]
        /\ hist' = [hist EXCEPT !.ran = @ \ refused, !.on = @ \ refused]
    /\ disk' = bots'
    /\ UNCHANGED <<dying, saving, requests, recorded>>

-----------------------------------------------------------------------------

StartStep(b) == PrepareStart(b) \/ RefuseStart(b) \/ StartBot(b)
RunStep(b) == RunBegin(b) \/ RunRefused(b) \/ Pause(b) \/ BackOff(b) \/ Recover(b) \/ RunEnds(b)
              \/ RunFails(b) \/ DyingEnds(b) \/ \E w \in {"run", "end", "stop"} : Saved(w, b)
RouteStep(b) == Stop(b) \/ EditApply(b) \/ DeleteBot(b) \/ TestBegin(b) \/ TestEnd(b)
                \/ \E c \in Configs : EditCheck(b, c)
ServerStep == ShutdownBegin \/ ShutdownEnd \/ Exit \/ Crash \/ Load \/ Resume

Next == ServerStep \/ \E b \in Bots : StartStep(b) \/ RunStep(b) \/ RouteStep(b)

Spec == Init /\ [][Next]_vars

\* A run on the loop looks at its pause again and again.
FairSpec == Spec /\ \A b \in Bots : WF_vars(RunEnds(b))

-----------------------------------------------------------------------------
(* Properties.                                                             *)

\* A run that may still trade.
Trades(b) == task[b] = "created" \/ (task[b] \in {"begun", "on"} /\ ~bots[b].paused)

\* Two bots that run at the same time never trade the same side of a symbol, and a bot
\* that trades both sides has its symbol to itself (bot_manager.py start_bot's guard).
NoConflictingRuns ==
    \A b, c \in Bots : b # c /\ Trades(b) /\ Trades(c) => ~Conflict(config[b], config[c])

\* A card shows what runs: a bot trades the config on its card, although the runner holds
\* the object it was started with and update_bot replaces it; and from its first step on it
\* is shown, and taken by Stop all and by the guard of update_bot, as running.
CardMatchesRun ==
    \A b \in Bots : Trades(b) =>
        /\ b \in Listed /\ config[b] = bots[b].config
        /\ task[b] # "created" => bots[b].status = "running"

\* A restart starts every bot whose run had been saved and was neither stopped, nor
\* paused, nor ended by an error, in its backoff or not, after a shutdown or a crash of a
\* server that was up for good (F430); only a refused graph keeps it out.
ResumesAll ==
    [][server = "loaded" /\ server' = "up"
        => \A b \in hist.ran : Running(b)' \/ bots'[b].paused]_vars

\* A restart never starts a bot whose Stop was answered (F430).
StopSticks ==
    [][server = "loaded" /\ server' = "up"
        => \A b \in hist.off : ~Running(b)']_vars

\* A bot whose run had been saved and that stands still although nobody stopped or
\* paused it, whatever happened, is one bot_watch will report: it does not count as
\* stopped by the user (F445).
NeverSilentlyOff ==
    server = "up" => \A b \in hist.on : b \in Listed /\ (Running(b) \/ ~bots[b].userStopped)

\* A pause ends the run, unless the server goes down first (bot_runner.py run()).
PauseEndsRun ==
    \A b \in Bots : (task[b] = "on" /\ bots[b].paused) ~> (task[b] # "on" \/ server # "up")
=============================================================================
