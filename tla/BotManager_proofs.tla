--------------------------- MODULE BotManager_proofs ---------------------------
(* Proofs about the life of the bots, for any number of bots, edits, stops and   *)
(* restarts: two conflicting bots never trade at once, a bot trades the config    *)
(* its card shows, and its card says that it runs; a restart brings back the bots *)
(* that ran, none that was stopped, and leaves none off unseen.  An edit and a    *)
(* start of one bot must not overlap, nor a backtest and a run.                  *)
EXTENDS BotManager, TLAPS

Types ==
    /\ server \in {"up", "closing", "exiting", "down", "loaded"}
    /\ Partial(bots, Rows) /\ Partial(disk, Rows) /\ Partial(edit, Rows)
    /\ Partial(recorded, Statuses)
    /\ task \in [Bots -> Phases] /\ config \in [Bots -> Configs]
    /\ dying \subseteq Bots /\ testing \subseteq Bots
    /\ start \in [Bots -> {"none", "checked", "swept", "refused"}]

\* How the parts of one bot fit together.  A bot that trades is listed, shown and has its
\* config in place; an edit past its check is of a bot that neither trades nor starts, a
\* backtest is of one that does not run; a cancelled runner is no task of self.tasks any
\* more, unless the server is going down; and a server that is not up starts nothing.
Fits(b) ==
    /\ Running(b) => b \in Listed
    /\ Trades(b) => config[b] = bots[b].config
    /\ Trades(b) /\ task[b] # "created" => bots[b].status = "running"
    /\ b \in DOMAIN edit => start[b] = "none" /\ ~Trades(b)
    /\ b \in testing => start[b] = "none" /\ ~NotDone(b)
    /\ server = "up" /\ b \in dying => task[b] \notin {"begun", "on"}
    /\ server = "closing" /\ task[b] \in {"begun", "on"} => b \in dying
    /\ server # "up" => /\ task[b] # "created" /\ start[b] = "none"
                        /\ b \notin DOMAIN edit /\ b \notin testing
    /\ server \in {"exiting", "down", "loaded"} => task[b] \notin {"begun", "on"}

AllFit == \A b \in Bots : Fits(b)

IInv == Types /\ AllFit /\ NoConflictingRuns

\* Nothing that Fits speaks about changes for c.
Untouched(c) ==
    /\ c \in DOMAIN bots' <=> c \in DOMAIN bots
    /\ c \in DOMAIN bots => bots'[c] = bots[c]
    /\ task'[c] = task[c] /\ config'[c] = config[c] /\ start'[c] = start[c]
    /\ c \in DOMAIN edit' <=> c \in DOMAIN edit
    /\ c \in testing' <=> c \in testing
    /\ c \in dying' <=> c \in dying

----------------------------------------------------------------------------
(* Helpers.                                                                    *)

LEMMA EitherWay ==
    ASSUME NEW c, NEW d, Conflict(c, d) PROVE Conflict(d, c)
BY DEF Conflict

LEMMA SetRow ==
    ASSUME Partial(bots, Rows), NEW b \in Listed, NEW row \in Rows,
           bots' = [bots EXCEPT ![b] = row]
    PROVE  /\ Partial(bots, Rows)' /\ DOMAIN bots' = Listed /\ bots'[b] = row
           /\ \A c \in Bots \ {b} : c \in Listed => bots'[c] = bots[c]
BY DEF Partial, Listed

LEMMA SameFits ==
    ASSUME AllFit, NEW c \in Bots, Untouched(c), server' = server PROVE Fits(c)'
BY DEF AllFit, Fits, Untouched, Running, Trades, NotDone, Listed

LEMMA SameTrades ==
    ASSUME AllFit, NEW c \in Bots, Untouched(c), Trades(c)' PROVE Trades(c) /\ config'[c] = config[c]
BY DEF AllFit, Fits, Untouched, Running, Trades, Listed

\* A step that touches one bot and lets it begin nothing.
LEMMA OneBot ==
    ASSUME IInv, Types', server' = server, NEW b \in Bots,
           \A c \in Bots \ {b} : Untouched(c), Fits(b)',
           Trades(b)' => Trades(b) /\ config'[b] = config[b]
    PROVE  IInv'
<1>1. AllFit'
    <2> SUFFICES ASSUME NEW c \in Bots PROVE Fits(c)'
        BY DEF AllFit
    <2>1. CASE c = b
        BY <2>1
    <2>2. CASE c # b
        BY <2>2, SameFits DEF IInv
    <2> QED
        BY <2>1, <2>2
<1>2. \A c \in Bots : Trades(c)' => Trades(c) /\ config'[c] = config[c]
    BY SameTrades DEF IInv
<1>3. NoConflictingRuns'
    BY <1>2 DEF IInv, NoConflictingRuns
<1> QED
    BY <1>1, <1>3 DEF IInv

----------------------------------------------------------------------------
(* Starts.                                                                     *)

LEMMA PrepareStartKeeps ==
    ASSUME Overlap = FALSE, Tests # "any", IInv, NEW b \in Bots, PrepareStart(b) PROVE IInv'
<1>1. /\ server' = server /\ server = "up"
      /\ UNCHANGED <<bots, disk, task, config, dying, edit, testing, recorded>>
      /\ b \notin DOMAIN edit /\ b \notin testing
    BY DEF PrepareStart, Up
<1>2. PICK s \in {"checked", "swept", "refused"} : start' = [start EXCEPT ![b] = s]
    BY DEF PrepareStart
<1>3. Types'
    BY <1>1, <1>2 DEF IInv, Types, Partial
<1>4. \A c \in Bots \ {b} : Untouched(c)
    BY <1>1, <1>2 DEF IInv, Types, Untouched
<1>5. Fits(b)'
    BY <1>1 DEF IInv, AllFit, Fits, Running, Trades, NotDone, Listed
<1> QED
    BY <1>1, <1>3, <1>4, <1>5, OneBot DEF Trades

LEMMA RefuseStartKeeps ==
    ASSUME IInv, NEW b \in Bots, RefuseStart(b) PROVE IInv'
<1>1. /\ server' = server /\ server = "up"
      /\ UNCHANGED <<task, config, dying, edit, testing, recorded>>
      /\ start' = [start EXCEPT ![b] = "none"]
    BY DEF RefuseStart, Up
<1>2. CASE b \notin Listed
    <2>1. bots' = bots /\ disk' = disk
        BY <1>2 DEF RefuseStart
    <2>2. Types'
        BY <1>1, <2>1 DEF IInv, Types, Partial
    <2>3. \A c \in Bots \ {b} : Untouched(c)
        BY <1>1, <2>1 DEF IInv, Types, Untouched
    <2>4. Fits(b)'
        BY <1>1, <2>1 DEF IInv, Types, AllFit, Fits, Running, Trades, NotDone, Listed
    <2> QED
        BY <1>1, <2>1, <2>2, <2>3, <2>4, OneBot DEF Trades
<1>3. CASE b \in Listed
    <2> DEFINE row == [bots[b] EXCEPT !.status = "error", !.paused = TRUE, !.note = "fatal"]
    <2>1. bots' = [bots EXCEPT ![b] = row] /\ disk' = bots'
        BY <1>3 DEF RefuseStart
    <2>2. row \in Rows /\ row.config = bots[b].config /\ row.paused = TRUE
        <3>1. bots[b] \in Rows
            BY <1>3 DEF IInv, Types, Partial, Listed
        <3> QED
            BY <3>1 DEF Rows, Statuses, Notes
    <2> HIDE DEF row
    <2>3. /\ Partial(bots, Rows)' /\ DOMAIN bots' = Listed /\ bots'[b] = row
          /\ \A c \in Bots \ {b} : c \in Listed => bots'[c] = bots[c]
        BY <1>3, <2>1, <2>2, SetRow DEF IInv, Types
    <2>4. Types'
        BY <1>1, <2>1, <2>3 DEF IInv, Types, Partial
    <2>5. \A c \in Bots \ {b} : Untouched(c)
        BY <1>1, <2>3 DEF IInv, Types, Untouched, Listed
    <2>6. Fits(b)'
        BY <1>1, <2>2, <2>3 DEF IInv, Types, AllFit, Fits, Running, Trades, NotDone, Listed
    <2> QED
        BY <1>1, <2>2, <2>3, <2>4, <2>5, <2>6, OneBot DEF Trades
<1> QED
    BY <1>2, <1>3

\* The guard: whoever trades is listed with the config it holds, so the bots in the way
\* are found.
LEMMA StartBotKeeps ==
    ASSUME IInv, NEW b \in Bots, StartBot(b) PROVE IInv'
<1>1. /\ server' = server /\ server = "up"
      /\ UNCHANGED <<bots, disk, dying, edit, testing, recorded>>
      /\ start' = [start EXCEPT ![b] = "none"] /\ start[b] # "none"
    BY DEF StartBot, Up
<1>2. CASE UNCHANGED <<task, config>>
    <2>1. Types'
        BY <1>1, <1>2 DEF IInv, Types, Partial
    <2>2. \A c \in Bots \ {b} : Untouched(c)
        BY <1>1, <1>2 DEF IInv, Types, Untouched
    <2>3. Fits(b)'
        BY <1>1, <1>2 DEF IInv, Types, AllFit, Fits, Running, Trades, NotDone, Listed
    <2> QED
        BY <1>1, <1>2, <2>1, <2>2, <2>3, OneBot DEF Trades
<1>3. CASE ~UNCHANGED <<task, config>>
    <2>1. /\ b \in Listed /\ ~NotDone(b) /\ Blocks(b, bots[b].config) = {}
          /\ task' = [task EXCEPT ![b] = "created"]
          /\ config' = [config EXCEPT ![b] = bots[b].config]
        BY <1>3 DEF StartBot
    <2>2. bots[b].config \in Configs
        BY <2>1 DEF IInv, Types, Partial, Listed, Rows
    <2>3. Types'
        BY <1>1, <2>1, <2>2 DEF IInv, Types, Partial, Phases
    <2>4. \A c \in Bots \ {b} : Untouched(c)
        BY <1>1, <2>1 DEF IInv, Types, Untouched
    <2>5. task'[b] = "created" /\ config'[b] = bots[b].config
        BY <2>1 DEF IInv, Types
    <2>6. Fits(b)'
        BY <1>1, <2>1, <2>5 DEF IInv, AllFit, Fits, Running, Trades, NotDone, Listed
    <2>7. \A c \in Bots \ {b} : Trades(c)' => Trades(c) /\ config'[c] = config[c]
        BY <2>4, SameTrades DEF IInv
    <2>8. \A c \in Bots \ {b} : Trades(c) => ~Conflict(config[c], bots[b].config)
        <3> SUFFICES ASSUME NEW c \in Bots \ {b}, Trades(c)
                     PROVE  ~Conflict(config[c], bots[b].config)
            OBVIOUS
        <3>1. NotDone(c) /\ c \in Listed /\ config[c] = bots[c].config
            BY DEF IInv, AllFit, Fits, Running, Trades, NotDone
        <3>2. c \notin Blocks(b, bots[b].config)
            BY <2>1
        <3> QED
            BY <3>1, <3>2 DEF Blocks
    <2>9. NoConflictingRuns'
        <3> SUFFICES ASSUME NEW c \in Bots, NEW d \in Bots, c # d, Trades(c)', Trades(d)'
                     PROVE  ~Conflict(config'[c], config'[d])
            BY DEF NoConflictingRuns
        <3>1. CASE c # b /\ d # b
            BY <2>7, <3>1 DEF IInv, NoConflictingRuns
        <3>2. CASE c = b
            BY <2>5, <2>7, <2>8, <3>2, EitherWay
        <3>3. CASE d = b
            BY <2>5, <2>7, <2>8, <3>3
        <3> QED
            BY <3>1, <3>2, <3>3
    <2>10. AllFit'
        BY <1>1, <2>4, <2>6, SameFits DEF IInv, AllFit
    <2> QED
        BY <2>3, <2>9, <2>10 DEF IInv
<1> QED
    BY <1>2, <1>3

----------------------------------------------------------------------------
(* Runs.                                                                       *)

\* A step that gives one listed bot a new row, and at most moves its task, its backtest and
\* its cancelled runner.
LEMMA RowStep ==
    ASSUME IInv, NEW b \in Listed, NEW row \in Rows, NEW t \in Phases,
           bots' = [bots EXCEPT ![b] = row], task' = [task EXCEPT ![b] = t],
           disk' = disk \/ disk' = bots', UNCHANGED <<server, config, edit, start, recorded>>,
           testing' \in {testing, testing \cup {b}, testing \ {b}},
           dying' \in {dying, dying \cup {b}, dying \ {b}},
           b \in Bots /\ bots'[b] = row /\ task'[b] = t /\ DOMAIN bots' = Listed => Fits(b)',
           bots'[b] = row /\ task'[b] = t /\ Trades(b)' => Trades(b)
    PROVE  IInv'
<1>1. b \in Bots
    BY DEF IInv, Types, Partial, Listed
<1>2. /\ Partial(bots, Rows)' /\ DOMAIN bots' = Listed /\ bots'[b] = row
      /\ \A c \in Bots \ {b} : c \in Listed => bots'[c] = bots[c]
    BY SetRow DEF IInv, Types
<1>3. task'[b] = t
    BY <1>1 DEF IInv, Types
<1>4. Types'
    BY <1>1, <1>2 DEF IInv, Types, Partial
<1>5. \A c \in Bots \ {b} : Untouched(c)
    BY <1>1, <1>2 DEF IInv, Types, Untouched, Listed
<1> QED
    BY <1>1, <1>2, <1>3, <1>4, <1>5, OneBot

\* A task that runs has its bot in the list.
LEMMA RunIsListed ==
    ASSUME IInv, NEW b \in Bots, Running(b) PROVE b \in Listed /\ bots[b] \in Rows
BY DEF IInv, AllFit, Fits, Types, Partial, Listed

LEMMA RunBeginKeeps ==
    ASSUME IInv, NEW b \in Bots, RunBegin(b) PROVE IInv'
<1> DEFINE row == [bots[b] EXCEPT !.status = "running", !.wasRunning = FALSE,
                       !.userStopped = FALSE, !.paused = FALSE, !.note = "none"]
<1>1. /\ UNCHANGED <<server, disk, config, dying, edit, start, testing, recorded>>
      /\ server = "up" /\ task[b] = "created" /\ b \notin dying
      /\ bots' = [bots EXCEPT ![b] = row] /\ task' = [task EXCEPT ![b] = "begun"]
    BY DEF RunBegin, Up, requests
<1>2. b \in Listed /\ bots[b] \in Rows
    BY <1>1, RunIsListed DEF Running
<1>3. row \in Rows /\ row.config = bots[b].config /\ row.status = "running"
    BY <1>2 DEF Rows, Statuses, Notes
<1> HIDE DEF row
<1>4. bots'[b] = row /\ task'[b] = "begun" /\ DOMAIN bots' = Listed => Fits(b)'
    BY <1>1, <1>2, <1>3 DEF IInv, AllFit, Fits, Running, Trades, NotDone, Listed
<1>5. Trades(b)
    BY <1>1 DEF Trades
<1> QED
    BY <1>1, <1>2, <1>3, <1>4, <1>5, RowStep DEF Phases

\* A running task that stays where it is, with a row that shows it or pauses it.
LEMMA RunningRow ==
    ASSUME IInv, NEW b \in Bots, NEW row \in Rows, Running(b),
           bots' = [bots EXCEPT ![b] = row], disk' = disk \/ disk' = bots',
           UNCHANGED <<server, task, config, dying, edit, start, testing, recorded>>,
           row.config = bots[b].config,
           bots[b].paused => row.paused,
           row.paused \/ row.status = bots[b].status \/ row.status = "running"
    PROVE  IInv'
<1>1. b \in Listed /\ task[b] \in Phases /\ task' = [task EXCEPT ![b] = task[b]]
    BY RunIsListed DEF IInv, Types
<1>2. bots'[b] = row /\ DOMAIN bots' = Listed => Fits(b)'
    BY <1>1 DEF IInv, AllFit, Fits, Running, Trades, NotDone, Listed
<1>3. bots'[b] = row /\ Trades(b)' => Trades(b)
    BY <1>1 DEF Trades
<1> QED
    BY <1>1, <1>2, <1>3, RowStep

LEMMA PauseKeeps ==
    ASSUME IInv, NEW b \in Bots, Pause(b) PROVE IInv'
<1> DEFINE row == [bots[b] EXCEPT !.status = "error", !.paused = TRUE, !.note = "fatal"]
<1>1. /\ UNCHANGED <<server, task, config, dying, edit, start, testing, recorded>>
      /\ Running(b) /\ bots' = [bots EXCEPT ![b] = row] /\ disk' = bots'
    BY DEF Pause, Up, requests, Running
<1>2. bots[b] \in Rows
    BY <1>1, RunIsListed
<1>3. row \in Rows /\ row.config = bots[b].config /\ row.paused
    BY <1>2 DEF Rows, Statuses, Notes
<1> HIDE DEF row
<1> QED
    BY <1>1, <1>3, RunningRow

LEMMA BackOffKeeps ==
    ASSUME IInv, NEW b \in Bots, BackOff(b) PROVE IInv'
<1> DEFINE row == [bots[b] EXCEPT !.note = "recovering"]
<1>1. /\ UNCHANGED <<server, task, config, dying, edit, start, testing, recorded>>
      /\ Running(b) /\ bots' = [bots EXCEPT ![b] = row] /\ disk' = bots'
    BY DEF BackOff, Up, requests, Running
<1>2. bots[b] \in Rows
    BY <1>1, RunIsListed
<1>3. /\ row \in Rows /\ row.config = bots[b].config /\ row.paused = bots[b].paused
      /\ row.status = bots[b].status
    BY <1>2 DEF Rows, Notes
<1> HIDE DEF row
<1> QED
    BY <1>1, <1>3, RunningRow

LEMMA RecoverKeeps ==
    ASSUME IInv, NEW b \in Bots, Recover(b) PROVE IInv'
<1> DEFINE status == IF bots[b].paused THEN bots[b].status ELSE "running"
           row == [bots[b] EXCEPT !.note = "none", !.status = status]
<1>1. /\ UNCHANGED <<server, task, config, dying, edit, start, testing, recorded>>
      /\ Running(b) /\ bots' = [bots EXCEPT ![b] = row] /\ disk' = bots'
    BY DEF Recover, Up, requests, Running
<1>2. bots[b] \in Rows
    BY <1>1, RunIsListed
<1>3. status \in Statuses /\ status \in {bots[b].status, "running"}
    BY <1>2 DEF Rows, Statuses
<1> HIDE DEF status
<1>4. /\ row \in Rows /\ row.config = bots[b].config /\ row.paused = bots[b].paused
      /\ row.status = status
    BY <1>2, <1>3 DEF Rows, Notes
<1> HIDE DEF row
<1> QED
    BY <1>1, <1>3, <1>4, RunningRow

LEMMA EndKeeps ==
    ASSUME IInv, NEW b \in Bots, RunEnds(b) \/ RunRefused(b) \/ RunFails(b) PROVE IInv'
<1>1. b \in Listed /\ bots[b] \in Rows
    BY RunIsListed DEF RunEnds, RunRefused, RunFails, Running
<1>2. PICK row \in Rows : Ending(b, [bots EXCEPT ![b] = row])
    <2>1. CASE RunEnds(b)
        <3> DEFINE row == [bots[b] EXCEPT !.status = "stopped"]
        <3>1. row \in Rows
            BY <1>1 DEF Rows, Statuses
        <3>2. Ending(b, [bots EXCEPT ![b] = row])
            BY <2>1 DEF RunEnds
        <3> QED
            BY <3>1, <3>2
    <2>2. CASE RunRefused(b)
        <3> DEFINE row == [bots[b] EXCEPT !.status = "stopped", !.wasRunning = FALSE,
                       !.userStopped = FALSE, !.paused = FALSE, !.note = "fatal"]
        <3>1. row \in Rows
            BY <1>1 DEF Rows, Statuses, Notes
        <3>2. Ending(b, [bots EXCEPT ![b] = row])
            BY <2>2 DEF RunRefused
        <3> QED
            BY <3>1, <3>2
    <2>3. CASE RunFails(b)
        <3> DEFINE row == [bots[b] EXCEPT !.status = "stopped", !.note = "fatal"]
        <3>1. row \in Rows
            BY <1>1 DEF Rows, Statuses, Notes
        <3>2. Ending(b, [bots EXCEPT ![b] = row])
            BY <2>3 DEF RunFails
        <3> QED
            BY <3>1, <3>2
    <2> QED
        BY <2>1, <2>2, <2>3
<1>3. /\ UNCHANGED <<server, disk, config, dying, edit, start, testing, recorded>>
      /\ bots' = [bots EXCEPT ![b] = row] /\ task' = [task EXCEPT ![b] = "ending"]
      /\ server = "up" /\ Running(b)
    BY <1>2 DEF Ending, RunEnds, RunRefused, RunFails, Up, requests, Running
<1>4. bots'[b] = row /\ task'[b] = "ending" /\ DOMAIN bots' = Listed => Fits(b)'
    BY <1>1, <1>3 DEF IInv, AllFit, Fits, Running, Trades, NotDone, Listed
<1>5. task'[b] = "ending" => ~Trades(b)'
    BY DEF Trades
<1> QED
    BY <1>1, <1>3, <1>4, <1>5, RowStep DEF Phases

LEMMA DyingEndsKeeps ==
    ASSUME IInv, NEW b \in Bots, DyingEnds(b) PROVE IInv'
<1>1. /\ UNCHANGED <<server, disk, config, edit, start, testing, recorded>>
      /\ server \in {"up", "closing"} /\ b \in dying /\ dying' = dying \ {b}
    BY DEF DyingEnds, requests
<1>2. PICK t \in Phases : /\ task' = [task EXCEPT ![b] = t]
                          /\ t = IF server = "closing" THEN "ending" ELSE task[b]
    <2>1. CASE server = "closing"
        BY <2>1 DEF DyingEnds, Phases
    <2>2. CASE server = "up"
        <3>1. task' = task /\ task[b] \in Phases /\ task = [task EXCEPT ![b] = task[b]]
            BY <2>2 DEF DyingEnds, IInv, Types
        <3> QED
            BY <2>2, <3>1
    <2> QED
        BY <1>1, <2>1, <2>2
<1>3. CASE b \in Listed
    <2> DEFINE row == [bots[b] EXCEPT !.status = "stopped"]
    <2>1. bots' = [bots EXCEPT ![b] = row]
        BY <1>3 DEF DyingEnds
    <2>2. row \in Rows /\ row.config = bots[b].config /\ row.paused = bots[b].paused
        BY <1>3 DEF IInv, Types, Partial, Listed, Rows, Statuses
    <2> HIDE DEF row
    <2>3. bots'[b] = row /\ task'[b] = t /\ DOMAIN bots' = Listed => Fits(b)'
        BY <1>1, <1>2, <1>3, <2>2 DEF IInv, AllFit, Fits, Running, Trades, NotDone, Listed
    <2>4. bots'[b] = row /\ task'[b] = t /\ Trades(b)' => Trades(b)
        BY <1>2, <2>2 DEF Trades
    <2> QED
        BY <1>1, <1>2, <1>3, <2>1, <2>2, <2>3, <2>4, RowStep
<1>4. CASE b \notin Listed
    <2>1. bots' = bots
        BY <1>4 DEF DyingEnds
    <2>2. task'[b] = t
        BY <1>2 DEF IInv, Types
    <2>3. Types'
        BY <1>1, <1>2, <2>1 DEF IInv, Types, Partial
    <2>4. \A c \in Bots \ {b} : Untouched(c)
        BY <1>1, <1>2, <2>1 DEF IInv, Types, Untouched
    <2>5. Fits(b)' /\ ~Trades(b)'
        BY <1>1, <1>2, <1>4, <2>1, <2>2 DEF IInv, AllFit, Fits, Running, Trades, NotDone, Listed
    <2> QED
        BY <1>1, <2>3, <2>4, <2>5, OneBot
<1> QED
    BY <1>3, <1>4

LEMMA SavedKeeps ==
    ASSUME IInv, NEW b \in Bots, NEW w, Saved(w, b) PROVE IInv'
<1>1. /\ UNCHANGED <<server, bots, config, dying, edit, start, testing, recorded>>
      /\ disk' = bots /\ server \in {"up", "closing", "exiting"}
    BY DEF Saved, requests
<1>2. PICK t \in Phases : /\ task' = [task EXCEPT ![b] = t]
                          /\ \/ t = task[b]
                             \/ t = "on" /\ task[b] = "begun"
                             \/ t = "done" /\ task[b] = "ending"
    <2>1. task[b] \in Phases /\ task = [task EXCEPT ![b] = task[b]]
        BY DEF IInv, Types
    <2> QED
        BY <2>1 DEF Saved, Phases
<1>3. task'[b] = t
    BY <1>2 DEF IInv, Types
<1>4. Types'
    BY <1>1, <1>2 DEF IInv, Types, Partial
<1>5. \A c \in Bots \ {b} : Untouched(c)
    BY <1>1, <1>2 DEF IInv, Types, Untouched
<1>6. Fits(b)'
    BY <1>1, <1>2, <1>3 DEF IInv, AllFit, Fits, Running, Trades, NotDone, Listed
<1>7. Trades(b)' => Trades(b)
    BY <1>1, <1>2, <1>3 DEF Trades
<1> QED
    BY <1>1, <1>4, <1>5, <1>6, <1>7, OneBot

LEMMA RunKeeps ==
    ASSUME IInv, NEW b \in Bots, RunStep(b) PROVE IInv'
BY RunBeginKeeps, PauseKeeps, BackOffKeeps, RecoverKeeps, EndKeeps, DyingEndsKeeps, SavedKeeps
   DEF RunStep

----------------------------------------------------------------------------
(* Routes.                                                                     *)

LEMMA StopKeeps ==
    ASSUME IInv, NEW b \in Bots, Stop(b) PROVE IInv'
<1> DEFINE row == [bots[b] EXCEPT !.status = "stopped", !.userStopped = TRUE]
<1>1. /\ UNCHANGED <<server, disk, config, edit, start, testing, recorded>>
      /\ server = "up" /\ b \in Listed /\ dying' \in {dying, dying \cup {b}}
      /\ bots' = [bots EXCEPT ![b] = row] /\ task' = [task EXCEPT ![b] = "none"]
    BY DEF Stop, Up, requests
<1>2. row \in Rows
    <2>1. bots[b] \in Rows
        BY <1>1 DEF IInv, Types, Partial, Listed
    <2> QED
        BY <2>1 DEF Rows, Statuses
<1> HIDE DEF row
<1>3. bots'[b] = row /\ task'[b] = "none" /\ DOMAIN bots' = Listed => Fits(b)'
    BY <1>1 DEF IInv, AllFit, Fits, Running, Trades, NotDone, Listed
<1>4. task'[b] = "none" => ~Trades(b)'
    BY DEF Trades
<1> QED
    BY <1>1, <1>2, <1>3, <1>4, RowStep DEF Phases

\* What runs and is not paused is shown as running, so it is not edited.
LEMMA EditCheckKeeps ==
    ASSUME Overlap = FALSE, IInv, NEW b \in Bots, NEW c \in Configs, EditCheck(b, c) PROVE IInv'
<1> DEFINE row == [bots[b] EXCEPT !.config = c]
<1>1. /\ UNCHANGED <<server, bots, disk, task, config, dying, start, testing, recorded>>
      /\ server = "up" /\ b \in Listed /\ bots[b].status # "running"
      /\ start[b] = "none" /\ task[b] # "created" /\ edit' = With(edit, b, row)
    BY DEF EditCheck, Up
<1>2. row \in Rows
    <2>1. bots[b] \in Rows
        BY <1>1 DEF IInv, Types, Partial, Listed
    <2> QED
        BY <2>1 DEF Rows
<1> HIDE DEF row
<1>3. Partial(edit, Rows)' /\ DOMAIN edit' = DOMAIN edit \cup {b}
    BY <1>1, <1>2 DEF IInv, Types, Partial, With
<1>4. Types'
    BY <1>1, <1>3 DEF IInv, Types, Partial
<1>5. \A d \in Bots \ {b} : Untouched(d)
    BY <1>1, <1>3 DEF Untouched
<1>6. ~Trades(b)
    BY <1>1 DEF IInv, AllFit, Fits, Trades
<1>7. ~Trades(b)'
    BY <1>1, <1>6 DEF Trades
<1>8. Fits(b)'
    BY <1>1, <1>3, <1>6, <1>7 DEF IInv, AllFit, Fits, Running, NotDone, Listed
<1> QED
    BY <1>1, <1>4, <1>5, <1>7, <1>8, OneBot

LEMMA EditApplyKeeps ==
    ASSUME IInv, NEW b \in Bots, EditApply(b) PROVE IInv'
<1>1. /\ UNCHANGED <<server, task, config, dying, start, testing, recorded>>
      /\ server = "up" /\ b \in DOMAIN edit /\ disk' = bots' /\ edit' = Without(edit, b)
      /\ edit[b] \in Rows /\ ~Trades(b)
    BY DEF EditApply, Up, IInv, Types, Partial, AllFit, Fits
<1>2. Partial(edit, Rows)' /\ DOMAIN edit' = DOMAIN edit \ {b}
    BY <1>1 DEF IInv, Types, Partial, Without
<1>3. /\ Partial(bots, Rows)' /\ b \in DOMAIN bots'
      /\ \A c \in Bots \ {b} : c \in DOMAIN bots' <=> c \in Listed
      /\ \A c \in Bots \ {b} : c \in Listed => bots'[c] = bots[c]
      /\ b \in Listed => bots'[b].paused = bots[b].paused
    <2>1. CASE b \in Listed
        <3> DEFINE row == [bots[b] EXCEPT !.config = edit[b].config]
        <3>1. bots' = [bots EXCEPT ![b] = row]
            BY <2>1 DEF EditApply
        <3>2. row \in Rows /\ row.paused = bots[b].paused
            BY <1>1, <2>1 DEF IInv, Types, Partial, Listed, Rows
        <3> HIDE DEF row
        <3> QED
            BY <2>1, <3>1, <3>2, SetRow DEF IInv, Types
    <2>2. CASE b \notin Listed
        <3>1. bots' = With(bots, b, edit[b])
            BY <2>2 DEF EditApply
        <3> QED
            BY <1>1, <2>2, <3>1 DEF IInv, Types, Partial, With, Listed
    <2> QED
        BY <2>1, <2>2
<1>4. Types'
    BY <1>1, <1>2, <1>3 DEF IInv, Types, Partial
<1>5. \A c \in Bots \ {b} : Untouched(c)
    BY <1>1, <1>2, <1>3 DEF Untouched, Listed
<1>6. ~Trades(b)'
    BY <1>1, <1>3 DEF IInv, AllFit, Fits, Trades, Running
<1>7. Fits(b)'
    BY <1>1, <1>2, <1>3, <1>6 DEF IInv, AllFit, Fits, Running, NotDone, Listed
<1> QED
    BY <1>1, <1>4, <1>5, <1>6, <1>7, OneBot

LEMMA DeleteKeeps ==
    ASSUME IInv, NEW b \in Bots, DeleteBot(b) PROVE IInv'
<1>1. /\ UNCHANGED <<server, config, dying, edit, start, testing, recorded>>
      /\ server = "up" /\ b \in Listed /\ ~NotDone(b)
      /\ bots' = Without(bots, b) /\ disk' = bots' /\ task' = [task EXCEPT ![b] = "none"]
    BY DEF DeleteBot, Up, requests
<1>2. /\ Partial(bots, Rows)' /\ DOMAIN bots' = Listed \ {b}
      /\ \A c \in Bots \ {b} : c \in Listed => bots'[c] = bots[c]
    BY <1>1 DEF IInv, Types, Partial, Without, Listed
<1>3. task'[b] = "none"
    BY <1>1 DEF IInv, Types
<1>4. Types'
    BY <1>1, <1>2 DEF IInv, Types, Partial, Phases
<1>5. \A c \in Bots \ {b} : Untouched(c)
    BY <1>1, <1>2 DEF IInv, Types, Untouched, Listed
<1>6. ~Trades(b)'
    BY <1>3 DEF Trades
<1>7. Fits(b)'
    BY <1>1, <1>3, <1>6 DEF IInv, AllFit, Fits, Running, NotDone, Listed
<1> QED
    BY <1>1, <1>4, <1>5, <1>6, <1>7, OneBot

LEMMA TestBeginKeeps ==
    ASSUME Tests # "any", IInv, NEW b \in Bots, TestBegin(b) PROVE IInv'
<1> DEFINE row == [bots[b] EXCEPT !.status = "backtesting"]
<1>1. /\ UNCHANGED <<server, task, config, dying, edit, start, recorded>>
      /\ server = "up" /\ b \in Listed /\ ~NotDone(b) /\ start[b] = "none"
      /\ testing' = testing \cup {b} /\ bots' = [bots EXCEPT ![b] = row] /\ disk' = bots'
    BY DEF TestBegin, Up
<1>2. row \in Rows
    BY <1>1 DEF IInv, Types, Partial, Listed, Rows, Statuses
<1> HIDE DEF row
<1>3. task[b] \in Phases /\ task' = [task EXCEPT ![b] = task[b]] /\ task'[b] = task[b]
    BY <1>1 DEF IInv, Types
<1>4. ~Trades(b)'
    BY <1>1 DEF Trades, NotDone
<1>5. DOMAIN bots' = Listed => Fits(b)'
    BY <1>1, <1>4 DEF IInv, AllFit, Fits, Running, NotDone, Listed
<1> QED
    BY <1>1, <1>2, <1>3, <1>4, <1>5, RowStep

LEMMA TestEndKeeps ==
    ASSUME IInv, NEW b \in Bots, TestEnd(b) PROVE IInv'
<1>1. /\ UNCHANGED <<server, task, config, dying, edit, start, recorded>>
      /\ server = "up" /\ ~NotDone(b) /\ testing' = testing \ {b} /\ disk' = bots'
    BY DEF TestEnd, Up, IInv, AllFit, Fits
<1>2. ~Trades(b)'
    BY <1>1 DEF Trades, NotDone
<1>3. CASE b \in Listed
    <2> DEFINE row == [bots[b] EXCEPT !.status = "stopped"]
    <2>1. bots' = [bots EXCEPT ![b] = row]
        BY <1>3 DEF TestEnd
    <2>2. row \in Rows
        BY <1>3 DEF IInv, Types, Partial, Listed, Rows, Statuses
    <2> HIDE DEF row
    <2>3. task[b] \in Phases /\ task' = [task EXCEPT ![b] = task[b]] /\ task'[b] = task[b]
        BY <1>1 DEF IInv, Types
    <2>4. DOMAIN bots' = Listed => Fits(b)'
        BY <1>1, <1>2, <1>3 DEF IInv, AllFit, Fits, Running, NotDone, Listed
    <2> QED
        BY <1>1, <1>2, <1>3, <2>1, <2>2, <2>3, <2>4, RowStep
<1>4. CASE b \notin Listed
    <2>1. bots' = bots
        BY <1>4 DEF TestEnd
    <2>2. Types'
        BY <1>1, <2>1 DEF IInv, Types, Partial
    <2>3. \A c \in Bots \ {b} : Untouched(c)
        BY <1>1, <2>1 DEF Untouched
    <2>4. Fits(b)'
        BY <1>1, <1>2, <2>1 DEF IInv, AllFit, Fits, Running, NotDone, Listed
    <2> QED
        BY <1>1, <1>2, <2>2, <2>3, <2>4, OneBot
<1> QED
    BY <1>3, <1>4

LEMMA RouteKeeps ==
    ASSUME Overlap = FALSE, Tests # "any", IInv, NEW b \in Bots, RouteStep(b) PROVE IInv'
BY StopKeeps, EditCheckKeeps, EditApplyKeeps, DeleteKeeps, TestBeginKeeps, TestEndKeeps
   DEF RouteStep

----------------------------------------------------------------------------
(* The server goes down and comes back.                                        *)

\* Nobody runs.
LEMMA Still ==
    ASSUME Types', \A b \in Bots : task'[b] \notin {"created", "begun", "on"},
           server' # "up",
           start' = NoTasks, edit' = Nobody, testing' = {}
    PROVE  IInv'
<1>1. \A b \in Bots : ~Running(b)' /\ ~Trades(b)' /\ start'[b] = "none"
    BY DEF Running, Trades, NoTasks
<1>2. DOMAIN edit' = {}
    BY DEF Nobody
<1>3. AllFit'
    BY <1>1, <1>2 DEF AllFit, Fits
<1>4. NoConflictingRuns'
    BY <1>1 DEF NoConflictingRuns
<1> QED
    BY <1>3, <1>4 DEF IInv

\* No request is under way in a server that is not up.
LEMMA NoRequests ==
    ASSUME IInv, server # "up" PROVE start = NoTasks /\ edit = Nobody /\ testing = {}
<1>1. start = NoTasks /\ testing = {}
    BY DEF IInv, Types, AllFit, Fits, NoTasks
<1>2. DOMAIN edit = {}
    BY DEF IInv, Types, Partial, AllFit, Fits
<1>3. edit = Nobody
    BY <1>2 DEF IInv, Types, Partial, Nobody
<1> QED
    BY <1>1, <1>3

LEMMA ShutdownBeginKeeps ==
    ASSUME IInv, ShutdownBegin PROVE IInv'
<1>1. /\ UNCHANGED <<bots, disk, task, config, start, edit, testing>>
      /\ server' = "closing" /\ start = NoTasks /\ edit = Nobody /\ testing = {}
      /\ \A b \in Bots : task[b] # "created"
      /\ recorded' = [b \in {x \in Listed : NotDone(x)} |-> bots[b].status]
      /\ dying' = dying \cup {b \in Bots : task[b] \in {"begun", "on"}}
    BY DEF ShutdownBegin, requests
<1>2. \A b \in Listed : bots[b].status \in Statuses
    BY DEF IInv, Types, Partial, Listed, Rows
<1>3. Partial(recorded, Statuses)'
    BY <1>1, <1>2 DEF IInv, Types, Partial, Listed
<1>4. Types'
    BY <1>1, <1>3 DEF IInv, Types, Partial
<1>5. \A b \in Bots : Trades(b)' <=> Trades(b)
    BY <1>1 DEF Trades
<1>6. DOMAIN edit = {} /\ \A b \in Bots : start[b] = "none"
    BY <1>1 DEF Nobody, NoTasks
<1>7. AllFit'
    BY <1>1, <1>5, <1>6 DEF IInv, AllFit, Fits, Running, NotDone, Listed
<1>8. NoConflictingRuns'
    BY <1>1, <1>5 DEF IInv, NoConflictingRuns
<1> QED
    BY <1>4, <1>7, <1>8 DEF IInv

LEMMA ShutdownEndKeeps ==
    ASSUME IInv, ShutdownEnd PROVE IInv'
<1> DEFINE row(b) == IF b \in DOMAIN recorded
                     THEN [bots[b] EXCEPT !.status = recorded[b]] ELSE bots[b]
<1>1. /\ UNCHANGED <<task, config, dying, start, edit, testing, recorded>>
      /\ server = "closing" /\ server' = "exiting" /\ dying = {}
      /\ bots' = [b \in Listed |-> row(b)] /\ disk' = bots'
    BY DEF ShutdownEnd, requests
<1>2. \A b \in Listed : row(b) \in Rows
    <2> SUFFICES ASSUME NEW b \in Listed PROVE row(b) \in Rows
        OBVIOUS
    <2>1. bots[b] \in Rows /\ (b \in DOMAIN recorded => recorded[b] \in Statuses)
        BY DEF IInv, Types, Partial, Listed
    <2> QED
        BY <2>1 DEF Rows
<1> HIDE DEF row
<1>3. Partial(bots, Rows)'
    BY <1>1, <1>2 DEF IInv, Types, Partial, Listed
<1>4. Types'
    BY <1>1, <1>3 DEF IInv, Types, Partial
<1>5. \A b \in Bots : task[b] \notin {"created", "begun", "on"}
    BY <1>1 DEF IInv, AllFit, Fits
<1>6. start' = NoTasks /\ edit' = Nobody /\ testing' = {}
    BY <1>1, NoRequests
<1> QED
    BY <1>1, <1>4, <1>5, <1>6, Still

LEMMA DeadKeeps ==
    ASSUME IInv, Dead PROVE IInv'
<1>1. Partial(bots, Rows)' /\ Partial(edit, Rows)' /\ Partial(recorded, Statuses)'
    BY DEF Dead, Nobody, Partial
<1>2. Types'
    BY <1>1 DEF Dead, NoTasks, Phases, IInv, Types, Partial
<1>3. \A b \in Bots : task'[b] \notin {"created", "begun", "on"}
    BY DEF Dead, NoTasks
<1> QED
    BY <1>2, <1>3, Still DEF Dead

LEMMA LoadKeeps ==
    ASSUME IInv, Load PROVE IInv'
<1>1. /\ UNCHANGED <<task, config, dying, start, edit, testing, recorded>>
      /\ server = "down" /\ server' = "loaded"
      /\ bots' = [b \in DOMAIN disk |-> LoadRow(disk[b])] /\ disk' = bots'
    BY DEF Load, requests
<1>2. \A b \in DOMAIN disk : LoadRow(disk[b]) \in Rows
    <2> SUFFICES ASSUME NEW b \in DOMAIN disk PROVE LoadRow(disk[b]) \in Rows
        OBVIOUS
    <2> DEFINE was == disk[b].status = "running"
    <2>1. disk[b] \in Rows /\ was \in BOOLEAN
        BY DEF IInv, Types, Partial
    <2>2. LoadRow(disk[b]) = [disk[b] EXCEPT !.wasRunning = was, !.status = "stopped"]
        BY DEF LoadRow
    <2> HIDE DEF was
    <2> QED
        BY <2>1, <2>2 DEF Rows, Statuses
<1>3. Partial(bots, Rows)'
    BY <1>1, <1>2 DEF IInv, Types, Partial
<1>4. Types'
    BY <1>1, <1>3 DEF IInv, Types, Partial
<1>5. \A b \in Bots : task[b] \notin {"created", "begun", "on"}
    BY <1>1 DEF IInv, AllFit, Fits
<1>6. start' = NoTasks /\ edit' = Nobody /\ testing' = {}
    BY <1>1, NoRequests
<1> QED
    BY <1>1, <1>4, <1>5, <1>6, Still

\* Bots resume one after the other through the guard of start_bot.
LEMMA ResumeKeeps ==
    ASSUME IInv, Resume PROVE IInv'
<1>1. PICK started \in SUBSET {b \in Listed : MayResume(b)},
           refused \in IF MayRefuse THEN SUBSET {b \in Listed : MayResume(b)} ELSE {{}} :
        /\ started \cap refused = {}
        /\ \A b, c \in started : b = c \/ ~Conflict(bots[b].config, bots[c].config)
        /\ \A b \in Listed \ (started \cup refused) :
              MayResume(b) => \E c \in started : Conflict(bots[b].config, bots[c].config)
        /\ task' = [b \in Bots |-> IF b \in started THEN "created" ELSE "none"]
        /\ config' = [b \in Bots |-> IF b \in started THEN bots[b].config ELSE config[b]]
        /\ bots' = [b \in Listed |->
              IF b \in refused
              THEN [bots[b] EXCEPT !.status = "error", !.paused = TRUE, !.note = "fatal",
                                   !.wasRunning = FALSE]
              ELSE [bots[b] EXCEPT !.wasRunning = @ /\ b \in started,
                                   !.note = IF MayResume(b) THEN "none" ELSE @]]
        /\ hist' = [hist EXCEPT !.ran = @ \ refused, !.on = @ \ refused]
    BY DEF Resume
<1>2. /\ UNCHANGED <<dying, start, edit, testing, recorded>>
      /\ server = "loaded" /\ server' = "up" /\ disk' = bots'
    BY DEF Resume, requests
<1>3. started \subseteq Listed /\ Listed \subseteq Bots
    BY DEF IInv, Types, Partial, Listed
<1>4. \A b \in Listed : bots'[b] \in Rows /\ bots'[b].config = bots[b].config
    <2> SUFFICES ASSUME NEW b \in Listed
                 PROVE  bots'[b] \in Rows /\ bots'[b].config = bots[b].config
        OBVIOUS
    <2>1. bots[b] \in Rows
        BY DEF IInv, Types, Partial, Listed
    <2>2. CASE b \in refused
        <3>1. bots'[b] = [bots[b] EXCEPT !.status = "error", !.paused = TRUE, !.note = "fatal",
                                         !.wasRunning = FALSE]
            BY <1>1, <2>2
        <3> QED
            BY <2>1, <3>1 DEF Rows, Statuses, Notes
    <2>3. CASE b \notin refused
        <3> DEFINE was == bots[b].wasRunning /\ b \in started
                   note == IF MayResume(b) THEN "none" ELSE bots[b].note
        <3>1. bots'[b] = [bots[b] EXCEPT !.wasRunning = was, !.note = note]
            BY <1>1, <2>3
        <3>2. was \in BOOLEAN /\ note \in Notes
            BY <2>1 DEF Rows, Notes
        <3> HIDE DEF was, note
        <3> QED
            BY <2>1, <3>1, <3>2 DEF Rows
    <2> QED
        BY <2>2, <2>3
<1>5. DOMAIN bots' = Listed
    BY <1>1
<1>6. bots' \in [Listed -> Rows]
    BY <1>1, <1>4
<1>7. Partial(bots, Rows)'
    BY <1>3, <1>5, <1>6 DEF Partial, Listed
<1>8. config' \in [Bots -> Configs]
    <2>1. \A b \in started : bots[b].config \in Configs
        BY <1>3 DEF IInv, Types, Partial, Listed, Rows
    <2> QED
        BY <1>1, <2>1 DEF IInv, Types
<1>9. task' \in [Bots -> Phases]
    BY <1>1 DEF Phases
<1>10. Types'
    BY <1>2, <1>7, <1>8, <1>9 DEF IInv, Types, Partial
<1>11. \A b \in Bots : /\ task'[b] = IF b \in started THEN "created" ELSE "none"
                       /\ b \in started => config'[b] = bots[b].config
    BY <1>1
<1>12. \A b \in Bots : /\ Running(b)' => b \in started
                       /\ Trades(b)' => b \in started
                       /\ Trades(b)' => task'[b] = "created"
    BY <1>11 DEF Running, Trades
<1>13. DOMAIN edit' = {} /\ start' = NoTasks /\ testing' = {}
    BY <1>2, NoRequests DEF Nobody
<1>14. AllFit'
    BY <1>2, <1>3, <1>4, <1>5, <1>11, <1>12, <1>13 DEF AllFit, Fits, Listed
<1>15. NoConflictingRuns'
    BY <1>1, <1>11, <1>12 DEF NoConflictingRuns
<1> QED
    BY <1>10, <1>14, <1>15 DEF IInv

LEMMA ServerKeeps ==
    ASSUME IInv, ServerStep PROVE IInv'
BY ShutdownBeginKeeps, ShutdownEndKeeps, DeadKeeps, LoadKeeps, ResumeKeeps
   DEF ServerStep, Exit, Crash

----------------------------------------------------------------------------
(* What bots.json and the runs say of each other, for the restarts.             *)

\* A row that resume_was_running starts again, and one that bars others from their side.
Resumable(row) == row.status = "running" /\ ~row.paused /\ row.note # "fatal"
Live(row) == row.status = "running" /\ ~row.paused

\* A bot whose run was saved is in the file and not marked as stopped by the user; one
\* whose Stop was answered neither runs nor would any restart take it for running.
Remembered(b) ==
    /\ b \in hist.on => b \in DOMAIN disk /\ ~disk[b].userStopped
    /\ b \in hist.on /\ server # "down" => b \in Listed /\ ~bots[b].userStopped
    /\ task[b] = "begun" => ~bots[b].userStopped
    /\ b \in hist.off =>
          /\ ~Running(b)
          /\ b \in Listed => bots[b].status # "running"
          /\ b \in DOMAIN disk => disk[b].status # "running"
          /\ server = "closing" /\ b \in DOMAIN recorded => recorded[b] # "running"
          /\ server = "loaded" /\ b \in Listed => ~bots[b].wasRunning
    /\ server = "up" /\ b \in Listed /\ bots[b].status = "running" => Running(b)
    /\ b \in DOMAIN edit => edit[b].status # "running"
    /\ server # "up" => <<"stop", b>> \notin saving

\* A saved run that nothing ended is on its way back at every stage of a restart: it runs
\* and the file says so, unless the save of a resumed run is still to come; it is noted by
\* shutdown(); its row is put back, loaded and taken up.
Returns(b) ==
    /\ NotDone(b) => start[b] = "none"
    /\ Trades(b) /\ task[b] # "created" => bots[b].note # "fatal"
    /\ server = "closing" /\ b \in Listed /\ bots[b].status = "running"
          => b \in DOMAIN recorded /\ recorded[b] = "running"
    /\ server = "loaded" /\ b \in Listed => bots[b].status = "stopped"
    /\ b \in hist.ran =>
          /\ server = "up" =>
                /\ Running(b) /\ ~bots[b].paused
                /\ task[b] # "created" /\ <<"run", b>> \notin saving
                      => b \in DOMAIN disk /\ Resumable(disk[b])
          /\ server = "closing" =>
                /\ b \in DOMAIN recorded /\ recorded[b] = "running"
                /\ b \in Listed /\ ~bots[b].paused /\ bots[b].note # "fatal"
          /\ server = "exiting" => b \in Listed /\ Resumable(bots[b])
          /\ server \in {"exiting", "down"} => b \in DOMAIN disk /\ Resumable(disk[b])
          /\ server = "loaded" => b \in Listed /\ MayResume(b)

\* No two rows that show a run conflict, in memory or in the file, nor do the rows that
\* shutdown() will put back or that a restart takes up.
NoneConflict(f, S) ==
    \A b, c \in S : b # c => ~Conflict(f[b].config, f[c].config)
RowsApart ==
    /\ NoneConflict(bots, {b \in Listed : Live(bots[b])})
    /\ NoneConflict(disk, {b \in DOMAIN disk : Live(disk[b])})
    /\ server = "closing" =>
          NoneConflict(bots, {b \in Listed \cap DOMAIN recorded :
                                  recorded[b] = "running" /\ ~bots[b].paused})
    /\ server = "loaded" => NoneConflict(bots, {b \in Listed : MayResume(b)})

Hists == [downs: Nat, ran: SUBSET Bots, off: SUBSET Bots, on: SUBSET Bots]
USE DEF Hists

Marked ==
    /\ hist \in Hists
    /\ saving \subseteq {"run", "end", "stop"} \X Bots

AllRemembered == \A b \in Bots : Remembered(b)
AllReturn == \A b \in Bots : Returns(b)
HInv == Marked /\ AllRemembered /\ AllReturn /\ RowsApart

\* Nothing that Remembered and Returns speak about, apart from the rows, changes for c.
Unmarked(c) ==
    /\ c \in DOMAIN edit' => c \in DOMAIN edit /\ edit'[c] = edit[c]
    /\ <<"run", c>> \in saving' <=> <<"run", c>> \in saving
    /\ <<"stop", c>> \in saving' <=> <<"stop", c>> \in saving
    /\ c \in hist'.on <=> c \in hist.on
    /\ c \in hist'.off <=> c \in hist.off
    /\ c \in hist'.ran <=> c \in hist.ran

\* The rows of a server that is up follow the runs, which do not conflict.
LEMMA UpKeeps ==
    ASSUME IInv', HInv, server' = "up", disk' = disk \/ disk' = bots', Marked',
           AllRemembered', AllReturn'
    PROVE  HInv'
<1>1. NoneConflict(bots, {b \in Listed : Live(bots[b])})'
    <2>1. \A b \in DOMAIN bots' : Live(bots'[b])
                => b \in Bots /\ Trades(b)' /\ config'[b] = bots'[b].config
        BY DEF AllRemembered, Remembered, IInv, Types, Partial, Listed, Live, AllFit, Fits,
               Trades, Running
    <2> QED
        BY <2>1 DEF IInv, NoConflictingRuns, NoneConflict, Listed
<1>2. NoneConflict(disk, {b \in DOMAIN disk : Live(disk[b])})'
    BY <1>1 DEF HInv, RowsApart, NoneConflict, Live, Listed
<1>3. RowsApart'
    BY <1>1, <1>2 DEF RowsApart
<1> QED
    BY <1>3 DEF HInv

LEMMA SameRemembered ==
    ASSUME IInv, HInv, server = "up", server' = "up", NEW c \in Bots, Untouched(c), Unmarked(c),
           disk' = disk \/ disk' = bots'
    PROVE  Remembered(c)' /\ Returns(c)'
<1>1. Fits(c) /\ Remembered(c) /\ Returns(c)
    BY DEF IInv, AllFit, HInv, AllRemembered, AllReturn
<1>2. Remembered(c)'
    BY <1>1 DEF Fits, Remembered, Untouched, Unmarked, Running, Listed
<1>3. Returns(c)'
    BY <1>1 DEF Fits, Returns, Untouched, Unmarked, Running, NotDone, Trades, Listed, Resumable
<1> QED
    BY <1>2, <1>3

\* A step of a server that is up, about one bot.
LEMMA OneRemembered ==
    ASSUME IInv, IInv', HInv, server = "up", server' = "up", NEW b \in Bots,
           \A c \in Bots \ {b} : Untouched(c) /\ Unmarked(c),
           disk' = disk \/ disk' = bots', Marked', Remembered(b)', Returns(b)'
    PROVE  HInv'
<1>1. \A c \in Bots : Remembered(c)' /\ Returns(c)'
    BY SameRemembered
<1> QED
    BY <1>1, UpKeeps DEF AllRemembered, AllReturn

LEMMA MarksOf ==
    ASSUME HInv, NEW b \in Bots
    PROVE  /\ Remembered(b) /\ Returns(b)
           /\ hist \in Hists
BY DEF HInv, Marked, AllRemembered, AllReturn

LEMMA PrepareStartRemembers ==
    ASSUME IInv, IInv', HInv, NEW b \in Bots, PrepareStart(b) PROVE HInv'
<1>1. /\ server' = "up" /\ server = "up" /\ ~NotDone(b)
      /\ UNCHANGED <<bots, disk, task, config, dying, saving, edit, testing, recorded, hist>>
    BY DEF PrepareStart, Up
<1>2. PICK s \in {"checked", "swept", "refused"} : start' = [start EXCEPT ![b] = s]
    BY DEF PrepareStart
<1>3. \A c \in Bots \ {b} : Untouched(c) /\ Unmarked(c)
    BY <1>1, <1>2 DEF IInv, Types, Untouched, Unmarked
<1>4. Remembered(b)'
    BY <1>1, MarksOf DEF Remembered, Running, Listed
<1>5. Returns(b)'
    BY <1>1, MarksOf DEF Returns, NotDone, Trades, Running, Listed, Resumable
<1> QED
    BY <1>1, <1>3, <1>4, <1>5, OneRemembered DEF HInv, Marked

LEMMA RefuseStartRemembers ==
    ASSUME IInv, IInv', HInv, NEW b \in Bots, RefuseStart(b) PROVE HInv'
<1>1. /\ server' = "up" /\ server = "up" /\ start[b] = "refused"
      /\ UNCHANGED <<task, config, dying, saving, edit, testing, recorded>>
      /\ start' = [start EXCEPT ![b] = "none"] /\ hist' = [hist EXCEPT !.on = @ \ {b}]
    BY DEF RefuseStart, Up
<1>2. /\ hist'.on = hist.on \ {b} /\ hist'.off = hist.off /\ hist'.ran = hist.ran /\ Marked'
    BY <1>1 DEF HInv, Marked
<1>3. ~NotDone(b) /\ b \notin hist.ran
    BY <1>1, MarksOf DEF Returns, Running, NotDone
<1>4. /\ b \in DOMAIN bots' <=> b \in Listed
      /\ b \in Listed => bots'[b].status = "error"
      /\ \A c \in Bots \ {b} : c \in DOMAIN bots' <=> c \in Listed
      /\ \A c \in Bots \ {b} : c \in Listed => bots'[c] = bots[c]
      /\ IF b \in Listed THEN disk' = bots' ELSE bots' = bots /\ disk' = disk
    <2>1. CASE b \in Listed
        <3> DEFINE row == [bots[b] EXCEPT !.status = "error", !.paused = TRUE, !.note = "fatal"]
        <3>1. bots' = [bots EXCEPT ![b] = row] /\ disk' = bots'
            BY <2>1 DEF RefuseStart
        <3>2. bots[b] \in Rows
            BY <2>1 DEF IInv, Types, Partial, Listed
        <3>3. row \in Rows /\ row.status = "error"
            BY <3>2 DEF Rows, Statuses, Notes
        <3> HIDE DEF row
        <3> QED
            BY <2>1, <3>1, <3>3, SetRow DEF IInv, Types
    <2>2. CASE b \notin Listed
        BY <2>2 DEF RefuseStart, Listed
    <2> QED
        BY <2>1, <2>2
<1>5. \A c \in Bots \ {b} : Untouched(c) /\ Unmarked(c)
    BY <1>1, <1>2, <1>4 DEF IInv, Types, Untouched, Unmarked, Listed
<1>6. Remembered(b)'
    BY <1>1, <1>2, <1>3, <1>4, MarksOf DEF Remembered, Running, NotDone, Listed
<1>7. Returns(b)'
    BY <1>1, <1>2, <1>3, MarksOf DEF Returns, NotDone, Trades, Running, Listed
<1> QED
    BY <1>1, <1>2, <1>4, <1>5, <1>6, <1>7, OneRemembered

LEMMA StartBotRemembers ==
    ASSUME IInv, IInv', HInv, NEW b \in Bots, StartBot(b) PROVE HInv'
<1>1. /\ server' = "up" /\ server = "up" /\ start[b] # "none"
      /\ UNCHANGED <<bots, disk, dying, saving, edit, testing, recorded>>
      /\ start' = [start EXCEPT ![b] = "none"] /\ start'[b] = "none"
    BY DEF StartBot, Up, IInv, Types
<1>2. ~NotDone(b) /\ b \notin hist.ran
    BY <1>1, MarksOf DEF Returns, Running, NotDone
<1>3. CASE UNCHANGED <<task, config, hist>>
    <2>1. \A c \in Bots \ {b} : Untouched(c) /\ Unmarked(c)
        BY <1>1, <1>3 DEF IInv, Types, Untouched, Unmarked
    <2>2. Remembered(b)'
        BY <1>1, <1>3, MarksOf DEF Remembered, Running, Listed
    <2>3. Returns(b)'
        BY <1>1, <1>2, <1>3, MarksOf DEF Returns, NotDone, Trades, Running, Listed
    <2> QED
        BY <1>1, <1>3, <2>1, <2>2, <2>3, OneRemembered DEF HInv, Marked
<1>4. CASE ~UNCHANGED <<task, config, hist>>
    <2>1. /\ b \in Listed /\ task' = [task EXCEPT ![b] = "created"]
          /\ config' = [config EXCEPT ![b] = bots[b].config]
          /\ hist' = [hist EXCEPT !.off = @ \ {b}]
        BY <1>4 DEF StartBot
    <2>2. /\ hist'.on = hist.on /\ hist'.off = hist.off \ {b} /\ hist'.ran = hist.ran /\ Marked'
          /\ task'[b] = "created"
        BY <1>1, <2>1 DEF HInv, Marked, IInv, Types
    <2>3. \A c \in Bots \ {b} : Untouched(c) /\ Unmarked(c)
        BY <1>1, <2>1, <2>2 DEF IInv, Types, Untouched, Unmarked
    <2>4. Remembered(b)'
        BY <1>1, <2>2, MarksOf DEF Remembered, Running, Listed
    <2>5. Returns(b)'
        BY <1>1, <1>2, <2>2 DEF Returns, NotDone, Trades, Running, Listed
    <2> QED
        BY <1>1, <2>2, <2>3, <2>4, <2>5, OneRemembered
<1> QED
    BY <1>3, <1>4

\* A step of a server that is up, about the row and the task of one bot.
LEMMA RowRemembers ==
    ASSUME IInv, IInv', HInv, server = "up", UNCHANGED <<server, config, edit, start>>,
           NEW b \in Listed, NEW row \in Rows, NEW t \in Phases,
           bots' = [bots EXCEPT ![b] = row], task' = [task EXCEPT ![b] = t],
           disk' = disk \/ disk' = bots',
           testing' \in {testing, testing \cup {b}, testing \ {b}},
           dying' \in {dying, dying \cup {b}, dying \ {b}},
           Marked', \A c \in Bots \ {b} : Unmarked(c),
           bots'[b] = row /\ task'[b] = t /\ DOMAIN bots' = Listed => Remembered(b)' /\ Returns(b)'
    PROVE  HInv'
<1>1. b \in Bots
    BY DEF IInv, Types, Partial, Listed
<1>2. /\ DOMAIN bots' = Listed /\ bots'[b] = row
      /\ \A c \in Bots \ {b} : c \in Listed => bots'[c] = bots[c]
    BY SetRow DEF IInv, Types
<1>3. task'[b] = t
    BY <1>1 DEF IInv, Types
<1>4. \A c \in Bots \ {b} : Untouched(c)
    BY <1>1, <1>2 DEF IInv, Types, Untouched, Listed
<1> QED
    BY <1>1, <1>2, <1>3, <1>4, OneRemembered

LEMMA RunBeginRemembers ==
    ASSUME IInv, IInv', HInv, NEW b \in Bots, RunBegin(b) PROVE HInv'
<1> DEFINE row == [bots[b] EXCEPT !.status = "running", !.wasRunning = FALSE,
                       !.userStopped = FALSE, !.paused = FALSE, !.note = "none"]
<1>1. /\ UNCHANGED <<server, disk, config, dying, edit, start, testing, recorded, hist>>
      /\ server = "up" /\ task[b] = "created" /\ saving' = saving \cup {<<"run", b>>}
      /\ bots' = [bots EXCEPT ![b] = row] /\ task' = [task EXCEPT ![b] = "begun"]
    BY DEF RunBegin, Up, requests
<1>2. b \in Listed /\ bots[b] \in Rows
    BY <1>1, RunIsListed DEF Running
<1>3. /\ row \in Rows /\ row.status = "running" /\ row.userStopped = FALSE
      /\ row.paused = FALSE /\ row.note = "none"
    BY <1>2 DEF Rows, Statuses, Notes
<1> HIDE DEF row
<1>4. Marked' /\ \A c \in Bots \ {b} : Unmarked(c)
    BY <1>1 DEF HInv, Marked, Unmarked
<1>5. bots'[b] = row /\ task'[b] = "begun" /\ DOMAIN bots' = Listed => Remembered(b)'
    BY <1>1, <1>2, <1>3, MarksOf DEF Remembered, Running, Listed
<1>6. bots'[b] = row /\ task'[b] = "begun" => Returns(b)'
    BY <1>1, <1>2, <1>3, MarksOf DEF Returns, NotDone, Running, Trades, Listed
<1> QED
    BY <1>1, <1>2, <1>3, <1>4, <1>5, <1>6, RowRemembers DEF Phases

\* A running task that stays where it is, with a row the user has not stopped.
LEMMA RunningRemembers ==
    ASSUME IInv, IInv', HInv, server = "up", NEW b \in Bots, NEW row \in Rows, Running(b),
           bots' = [bots EXCEPT ![b] = row], disk' = bots',
           UNCHANGED <<server, task, config, dying, saving, edit, start, testing, recorded>>,
           row.userStopped = bots[b].userStopped,
           row.paused \/ row.note # "fatal",
           hist' \in {hist, [hist EXCEPT !.ran = @ \ {b}, !.on = @ \ {b}]},
           b \in hist'.ran => row.paused = bots[b].paused /\ row.status \in {bots[b].status, "running"}
    PROVE  HInv'
<1>1. b \in Listed /\ task[b] \in Phases /\ task' = [task EXCEPT ![b] = task[b]]
    BY RunIsListed DEF IInv, Types
<1>2. /\ hist'.off = hist.off /\ hist'.on \in {hist.on, hist.on \ {b}}
      /\ hist'.ran \in {hist.ran, hist.ran \ {b}} /\ Marked'
    BY DEF HInv, Marked
<1>3. \A c \in Bots \ {b} : Unmarked(c)
    BY <1>2 DEF Unmarked
<1>4. bots'[b] = row /\ task'[b] = task[b] /\ DOMAIN bots' = Listed => Remembered(b)'
    BY <1>1, <1>2, MarksOf DEF Remembered, Running, Listed
<1>5. bots'[b] = row /\ task'[b] = task[b] /\ DOMAIN bots' = Listed => Returns(b)'
    BY <1>1, <1>2, MarksOf DEF IInv, AllFit, Fits, Returns, Running, NotDone, Trades, Listed, Resumable
<1> QED
    BY <1>1, <1>2, <1>3, <1>4, <1>5, RowRemembers

LEMMA PauseRemembers ==
    ASSUME IInv, IInv', HInv, NEW b \in Bots, Pause(b) PROVE HInv'
<1> DEFINE row == [bots[b] EXCEPT !.status = "error", !.paused = TRUE, !.note = "fatal"]
<1>1. /\ UNCHANGED <<server, task, config, dying, saving, edit, start, testing, recorded>>
      /\ server = "up" /\ Running(b) /\ bots' = [bots EXCEPT ![b] = row] /\ disk' = bots'
      /\ hist' = [hist EXCEPT !.ran = @ \ {b}, !.on = @ \ {b}]
    BY DEF Pause, Up, requests, Running
<1>2. bots[b] \in Rows
    BY <1>1, RunIsListed
<1>3. row \in Rows /\ row.userStopped = bots[b].userStopped /\ row.paused
    BY <1>2 DEF Rows, Statuses, Notes
<1> HIDE DEF row
<1>4. b \notin hist'.ran
    BY <1>1 DEF HInv, Marked
<1> QED
    BY <1>1, <1>3, <1>4, RunningRemembers

LEMMA BackOffRemembers ==
    ASSUME IInv, IInv', HInv, NEW b \in Bots, BackOff(b) PROVE HInv'
<1> DEFINE row == [bots[b] EXCEPT !.note = "recovering"]
<1>1. /\ UNCHANGED <<server, task, config, dying, saving, edit, start, testing, recorded, hist>>
      /\ server = "up" /\ Running(b) /\ bots' = [bots EXCEPT ![b] = row] /\ disk' = bots'
    BY DEF BackOff, Up, requests, Running
<1>2. bots[b] \in Rows
    BY <1>1, RunIsListed
<1>3. /\ row \in Rows /\ row.userStopped = bots[b].userStopped /\ row.paused = bots[b].paused
      /\ row.status = bots[b].status /\ row.note = "recovering"
    BY <1>2 DEF Rows, Notes
<1> HIDE DEF row
<1> QED
    BY <1>1, <1>3, RunningRemembers

LEMMA RecoverRemembers ==
    ASSUME IInv, IInv', HInv, NEW b \in Bots, Recover(b) PROVE HInv'
<1> DEFINE status == IF bots[b].paused THEN bots[b].status ELSE "running"
           row == [bots[b] EXCEPT !.note = "none", !.status = status]
<1>1. /\ UNCHANGED <<server, task, config, dying, saving, edit, start, testing, recorded, hist>>
      /\ server = "up" /\ Running(b) /\ bots' = [bots EXCEPT ![b] = row] /\ disk' = bots'
    BY DEF Recover, Up, requests, Running
<1>2. bots[b] \in Rows
    BY <1>1, RunIsListed
<1>3. status \in Statuses /\ status \in {bots[b].status, "running"}
    BY <1>2 DEF Rows, Statuses
<1> HIDE DEF status
<1>4. /\ row \in Rows /\ row.userStopped = bots[b].userStopped /\ row.paused = bots[b].paused
      /\ row.status = status /\ row.note = "none"
    BY <1>2, <1>3 DEF Rows, Notes
<1> HIDE DEF row
<1> QED
    BY <1>1, <1>3, <1>4, RunningRemembers

LEMMA EndRemembers ==
    ASSUME IInv, IInv', HInv, NEW b \in Bots, RunEnds(b) \/ RunRefused(b) \/ RunFails(b)
    PROVE  HInv'
<1>1. b \in Listed /\ bots[b] \in Rows
    BY RunIsListed DEF RunEnds, RunRefused, RunFails, Running
<1>2. PICK row \in Rows : /\ Ending(b, [bots EXCEPT ![b] = row])
                          /\ row.status = "stopped"
                          /\ row.userStopped = bots[b].userStopped \/ ~row.userStopped
    <2>1. CASE RunEnds(b)
        <3> DEFINE row == [bots[b] EXCEPT !.status = "stopped"]
        <3>1. row \in Rows /\ row.status = "stopped" /\ row.userStopped = bots[b].userStopped
            BY <1>1 DEF Rows, Statuses
        <3>2. Ending(b, [bots EXCEPT ![b] = row])
            BY <2>1 DEF RunEnds
        <3> QED
            BY <3>1, <3>2
    <2>2. CASE RunRefused(b)
        <3> DEFINE row == [bots[b] EXCEPT !.status = "stopped", !.wasRunning = FALSE,
                       !.userStopped = FALSE, !.paused = FALSE, !.note = "fatal"]
        <3>1. row \in Rows /\ row.status = "stopped" /\ ~row.userStopped
            BY <1>1 DEF Rows, Statuses, Notes
        <3>2. Ending(b, [bots EXCEPT ![b] = row])
            BY <2>2 DEF RunRefused
        <3> QED
            BY <3>1, <3>2
    <2>3. CASE RunFails(b)
        <3> DEFINE row == [bots[b] EXCEPT !.status = "stopped", !.note = "fatal"]
        <3>1. row \in Rows /\ row.status = "stopped" /\ row.userStopped = bots[b].userStopped
            BY <1>1 DEF Rows, Statuses, Notes
        <3>2. Ending(b, [bots EXCEPT ![b] = row])
            BY <2>3 DEF RunFails
        <3> QED
            BY <3>1, <3>2
    <2> QED
        BY <2>1, <2>2, <2>3
<1>3. /\ UNCHANGED <<server, disk, config, dying, edit, start, testing, recorded>>
      /\ bots' = [bots EXCEPT ![b] = row] /\ task' = [task EXCEPT ![b] = "ending"]
      /\ saving' = saving \cup {<<"end", b>>} /\ hist' = [hist EXCEPT !.ran = @ \ {b}]
      /\ server = "up" /\ Running(b)
    BY <1>2 DEF Ending, RunEnds, RunRefused, RunFails, Up, requests, Running
<1>4. /\ hist'.on = hist.on /\ hist'.off = hist.off /\ hist'.ran = hist.ran \ {b} /\ Marked'
    BY <1>3 DEF HInv, Marked
<1>5. \A c \in Bots \ {b} : Unmarked(c)
    BY <1>3, <1>4 DEF Unmarked
<1>6. bots'[b] = row /\ task'[b] = "ending" /\ DOMAIN bots' = Listed => Remembered(b)'
    BY <1>1, <1>2, <1>3, <1>4, MarksOf DEF Remembered, Running, Listed
<1>7. bots'[b] = row /\ task'[b] = "ending" => Returns(b)'
    BY <1>3, <1>4, MarksOf DEF Returns, Running, NotDone, Trades
<1> QED
    BY <1>1, <1>3, <1>4, <1>5, <1>6, <1>7, RowRemembers DEF Phases

\* A finally of a cancelled run, in a server that is up or going down: only its row and
\* its task move, and a row that says stopped bars nobody.
LEMMA DyingEndsRemembers ==
    ASSUME IInv, IInv', HInv, NEW b \in Bots, DyingEnds(b) PROVE HInv'
<1>1. /\ UNCHANGED <<server, disk, config, edit, start, testing, recorded, hist>>
      /\ server \in {"up", "closing"} /\ b \in dying /\ saving' = saving \cup {<<"end", b>>}
    BY DEF DyingEnds, requests
<1>2. /\ task'[b] = IF server = "closing" THEN "ending" ELSE task[b]
      /\ \A c \in Bots \ {b} : task'[c] = task[c]
    BY DEF DyingEnds, IInv, Types
<1>3. /\ DOMAIN bots' = Listed
      /\ \A c \in Bots \ {b} : c \in Listed => bots'[c] = bots[c]
      /\ b \in Listed => /\ bots'[b].status = "stopped"
                         /\ bots'[b].paused = bots[b].paused
                         /\ bots'[b].note = bots[b].note
                         /\ bots'[b].config = bots[b].config
                         /\ bots'[b].userStopped = bots[b].userStopped
    <2>1. CASE b \in Listed
        <3> DEFINE row == [bots[b] EXCEPT !.status = "stopped"]
        <3>1. bots' = [bots EXCEPT ![b] = row]
            BY <2>1 DEF DyingEnds
        <3>2. bots[b] \in Rows
            BY <2>1 DEF IInv, Types, Partial, Listed
        <3>3. /\ row \in Rows /\ row.status = "stopped" /\ row.paused = bots[b].paused
              /\ row.note = bots[b].note /\ row.config = bots[b].config
              /\ row.userStopped = bots[b].userStopped
            BY <3>2 DEF Rows, Statuses
        <3> HIDE DEF row
        <3> QED
            BY <2>1, <3>1, <3>3, SetRow DEF IInv, Types
    <2>2. CASE b \notin Listed
        BY <2>2 DEF DyingEnds, Listed
    <2> QED
        BY <2>1, <2>2
<1>4. Marked'
    BY <1>1 DEF HInv, Marked
<1>5. b \in dying => (server = "up" => task[b] \notin {"begun", "on"})
    BY DEF IInv, AllFit, Fits
<1>6. \A c \in Bots : Remembered(c)'
    <2> SUFFICES ASSUME NEW c \in Bots PROVE Remembered(c)'
        OBVIOUS
    <2>1. Remembered(c) /\ Fits(c)
        BY DEF HInv, AllRemembered, IInv, AllFit
    <2>2. CASE c = b
        BY <1>1, <1>2, <1>3, <1>5, <2>1, <2>2 DEF Remembered, Running, Listed
    <2>3. CASE c # b
        BY <1>1, <1>2, <1>3, <2>1, <2>3 DEF Remembered, Fits, Running, Listed
    <2> QED
        BY <2>2, <2>3
<1>7. \A c \in Bots : Returns(c)'
    <2> SUFFICES ASSUME NEW c \in Bots PROVE Returns(c)'
        OBVIOUS
    <2>1. Returns(c) /\ Fits(c)
        BY DEF HInv, AllReturn, IInv, AllFit
    <2>2. CASE c = b
        BY <1>1, <1>2, <1>3, <1>5, <2>1, <2>2 DEF Returns, Fits, Running, NotDone, Trades, Listed
    <2>3. CASE c # b
        BY <1>1, <1>2, <1>3, <2>1, <2>3
           DEF Returns, Fits, Running, NotDone, Trades, Listed, Resumable
    <2> QED
        BY <2>2, <2>3
<1>8. RowsApart'
    <2>1. /\ \A c \in Listed : bots'[c].config = bots[c].config
          /\ \A c \in Listed : Live(bots'[c]) => Live(bots[c])
          /\ \A c \in Listed : bots'[c].paused = bots[c].paused
        BY <1>3 DEF Live, IInv, Types, Partial, Listed
    <2>2. NoneConflict(bots, {c \in Listed : Live(bots[c])})'
        BY <1>3, <2>1 DEF HInv, RowsApart, NoneConflict, Listed
    <2>3. NoneConflict(disk, {c \in DOMAIN disk : Live(disk[c])})'
        BY <1>1 DEF HInv, RowsApart, NoneConflict, Live
    <2>4. server = "closing" =>
              NoneConflict(bots, {c \in Listed \cap DOMAIN recorded :
                                      recorded[c] = "running" /\ ~bots[c].paused})'
        BY <1>1, <1>3, <2>1 DEF HInv, RowsApart, NoneConflict, Listed
    <2> QED
        BY <1>1, <2>2, <2>3, <2>4 DEF RowsApart
<1> QED
    BY <1>4, <1>6, <1>7, <1>8 DEF HInv, AllRemembered, AllReturn

\* A save brings the file up to what memory holds.
LEMMA SavedRemembers ==
    ASSUME IInv, IInv', HInv, NEW b \in Bots, NEW w \in {"run", "end", "stop"}, Saved(w, b)
    PROVE  HInv'
<1> DEFINE lasts == w = "run" /\ task[b] = "begun" /\ ~bots[b].paused
           stops == w = "stop" /\ ~Running(b) /\ b \in Listed
<1>1. /\ UNCHANGED <<server, bots, config, dying, edit, start, testing, recorded>>
      /\ disk' = bots /\ server \in {"up", "closing", "exiting"}
      /\ <<w, b>> \in saving /\ saving' = saving \ {<<w, b>>}
    BY DEF Saved, requests
<1>2. /\ task'[b] = IF w = "run" /\ task[b] = "begun" THEN "on"
                    ELSE IF w = "end" /\ task[b] = "ending" THEN "done" ELSE task[b]
      /\ \A c \in Bots \ {b} : task'[c] = task[c]
    BY DEF Saved, IInv, Types
<1>3. /\ hist'.ran = IF lasts THEN hist.ran \cup {b} ELSE hist.ran
      /\ hist'.on = IF lasts THEN hist.on \cup {b} ELSE hist.on
      /\ hist'.off = IF stops THEN hist.off \cup {b} ELSE hist.off
      /\ hist'.downs = hist.downs
      /\ hist' \in Hists
    BY DEF Saved, HInv, Marked
<1>4. lasts => b \in Listed /\ Trades(b) /\ bots[b].status = "running"
    BY DEF IInv, AllFit, Fits, Trades, Running
<1> HIDE DEF stops
<1>5. Marked'
    BY <1>1, <1>3 DEF HInv, Marked
<1>6. stops => server = "up" /\ ~Running(b) /\ b \in Listed /\ bots[b].status # "running"
    BY <1>1, MarksOf DEF stops, Remembered
<1>7. \A c \in Bots : Remembered(c)'
    <2> SUFFICES ASSUME NEW c \in Bots PROVE Remembered(c)'
        OBVIOUS
    <2>1. Remembered(c)
        BY DEF HInv, AllRemembered
    <2>2. CASE c = b
        BY <1>1, <1>2, <1>3, <1>4, <1>6, <2>1, <2>2 DEF Remembered, Running, Listed
    <2>3. CASE c # b
        BY <1>1, <1>2, <1>3, <2>1, <2>3 DEF Remembered, Running, Listed
    <2> QED
        BY <2>2, <2>3
<1>8. \A c \in Bots : Returns(c)'
    <2> SUFFICES ASSUME NEW c \in Bots PROVE Returns(c)'
        OBVIOUS
    <2>1. Returns(c) /\ Fits(c)
        BY DEF HInv, AllReturn, IInv, AllFit
    <2>2. CASE c = b
        BY <1>1, <1>2, <1>3, <1>4, <2>1, <2>2
           DEF Returns, Fits, Running, NotDone, Trades, Listed, Resumable
    <2>3. CASE c # b
        BY <1>1, <1>2, <1>3, <2>1, <2>3
           DEF Returns, Fits, Running, NotDone, Trades, Listed, Resumable
    <2> QED
        BY <2>2, <2>3
<1>9. RowsApart'
    BY <1>1 DEF HInv, RowsApart, NoneConflict, Live, Listed
<1> QED
    BY <1>5, <1>7, <1>8, <1>9 DEF HInv, AllRemembered, AllReturn

LEMMA RunRemembers ==
    ASSUME IInv, IInv', HInv, NEW b \in Bots, RunStep(b) PROVE HInv'
BY RunBeginRemembers, PauseRemembers, BackOffRemembers, RecoverRemembers, EndRemembers,
   DyingEndsRemembers, SavedRemembers
   DEF RunStep

LEMMA StopRemembers ==
    ASSUME IInv, IInv', HInv, NEW b \in Bots, Stop(b) PROVE HInv'
<1> DEFINE row == [bots[b] EXCEPT !.status = "stopped", !.userStopped = TRUE]
<1>1. /\ UNCHANGED <<server, disk, config, edit, start, testing, recorded>>
      /\ server = "up" /\ b \in Listed /\ dying' \in {dying, dying \cup {b}}
      /\ bots' = [bots EXCEPT ![b] = row] /\ task' = [task EXCEPT ![b] = "none"]
      /\ saving' = saving \cup {<<"stop", b>>}
      /\ hist' = [hist EXCEPT !.ran = @ \ {b}, !.on = @ \ {b}]
    BY DEF Stop, Up, requests
<1>2. bots[b] \in Rows
    BY <1>1 DEF IInv, Types, Partial, Listed
<1>3. row \in Rows /\ row.status = "stopped"
    BY <1>2 DEF Rows, Statuses
<1> HIDE DEF row
<1>4. /\ hist'.on = hist.on \ {b} /\ hist'.off = hist.off /\ hist'.ran = hist.ran \ {b}
      /\ hist' \in Hists
    BY <1>1, MarksOf
<1>5. Marked'
    BY <1>1, <1>4 DEF HInv, Marked
<1>6. \A c \in Bots \ {b} : Unmarked(c)
    BY <1>1, <1>4 DEF Unmarked
<1>7. bots'[b] = row /\ task'[b] = "none" /\ DOMAIN bots' = Listed => Remembered(b)'
    BY <1>1, <1>3, <1>4, MarksOf DEF Remembered, Running, Listed
<1>8. bots'[b] = row /\ task'[b] = "none" => Returns(b)'
    BY <1>1, <1>4 DEF Returns, NotDone, Trades
<1> QED
    BY <1>1, <1>3, <1>4, <1>5, <1>6, <1>7, <1>8, RowRemembers DEF Phases

LEMMA EditCheckRemembers ==
    ASSUME IInv, IInv', HInv, NEW b \in Bots, NEW c \in Configs, EditCheck(b, c) PROVE HInv'
<1> DEFINE row == [bots[b] EXCEPT !.config = c]
<1>1. /\ UNCHANGED <<server, bots, disk, task, config, dying, saving, start, testing, recorded, hist>>
      /\ server = "up" /\ b \in Listed /\ bots[b].status # "running"
      /\ edit' = With(edit, b, row)
    BY DEF EditCheck, Up
<1>2. bots[b] \in Rows
    BY <1>1 DEF IInv, Types, Partial, Listed
<1>3. row.status # "running"
    BY <1>1, <1>2 DEF Rows
<1> HIDE DEF row
<1>4. /\ edit'[b] = row
      /\ \A d \in Bots \ {b} : d \in DOMAIN edit' <=> d \in DOMAIN edit
      /\ \A d \in Bots \ {b} : d \in DOMAIN edit => edit'[d] = edit[d]
    BY <1>1 DEF With
<1>5. \A d \in Bots \ {b} : Untouched(d) /\ Unmarked(d)
    BY <1>1, <1>4 DEF Untouched, Unmarked
<1>6. Remembered(b)'
    BY <1>1, <1>3, <1>4, MarksOf DEF Remembered, Running, Listed
<1>7. Returns(b)'
    BY <1>1, MarksOf DEF Returns, NotDone, Trades, Running, Listed
<1> QED
    BY <1>1, <1>5, <1>6, <1>7, OneRemembered DEF HInv, Marked

LEMMA EditApplyRemembers ==
    ASSUME IInv, IInv', HInv, NEW b \in Bots, EditApply(b) PROVE HInv'
<1>1. /\ UNCHANGED <<server, task, config, dying, saving, start, testing, recorded, hist>>
      /\ server = "up" /\ b \in DOMAIN edit /\ disk' = bots' /\ edit' = Without(edit, b)
      /\ edit[b] \in Rows /\ edit[b].status # "running" /\ ~Trades(b)
    BY MarksOf DEF EditApply, Up, IInv, Types, Partial, AllFit, Fits, Remembered
<1>2. /\ DOMAIN edit' = DOMAIN edit \ {b}
      /\ \A c \in DOMAIN edit \ {b} : edit'[c] = edit[c]
    BY <1>1 DEF Without
<1>3. /\ b \in DOMAIN bots'
      /\ \A c \in Bots \ {b} : c \in DOMAIN bots' <=> c \in Listed
      /\ \A c \in Bots \ {b} : c \in Listed => bots'[c] = bots[c]
      /\ b \in Listed => /\ bots'[b].paused = bots[b].paused
                         /\ bots'[b].status = bots[b].status
                         /\ bots'[b].userStopped = bots[b].userStopped
      /\ b \notin Listed => bots'[b].status # "running"
    <2>1. CASE b \in Listed
        <3> DEFINE row == [bots[b] EXCEPT !.config = edit[b].config]
        <3>1. bots' = [bots EXCEPT ![b] = row]
            BY <2>1 DEF EditApply
        <3>2. bots[b] \in Rows
            BY <2>1 DEF IInv, Types, Partial, Listed
        <3>3. /\ row \in Rows /\ row.paused = bots[b].paused /\ row.status = bots[b].status
              /\ row.userStopped = bots[b].userStopped
            BY <1>1, <3>2 DEF Rows
        <3> HIDE DEF row
        <3> QED
            BY <2>1, <3>1, <3>3, SetRow DEF IInv, Types
    <2>2. CASE b \notin Listed
        <3>1. bots' = With(bots, b, edit[b])
            BY <2>2 DEF EditApply
        <3> QED
            BY <1>1, <2>2, <3>1 DEF With, Listed
    <2> QED
        BY <2>1, <2>2
<1>4. \A c \in Bots \ {b} : Untouched(c) /\ Unmarked(c)
    BY <1>1, <1>2, <1>3 DEF Untouched, Unmarked, Listed
<1>5. Remembered(b)'
    BY <1>1, <1>2, <1>3, MarksOf DEF IInv, AllFit, Fits, Remembered, Running, Listed
<1>6. Returns(b)'
    BY <1>1, <1>3, MarksOf DEF IInv, AllFit, Fits, Returns, NotDone, Trades, Running, Listed
<1> QED
    BY <1>1, <1>4, <1>5, <1>6, OneRemembered DEF HInv, Marked

LEMMA DeleteRemembers ==
    ASSUME IInv, IInv', HInv, NEW b \in Bots, DeleteBot(b) PROVE HInv'
<1>1. /\ UNCHANGED <<server, config, dying, saving, edit, start, testing, recorded>>
      /\ server = "up" /\ b \in Listed /\ ~NotDone(b)
      /\ bots' = Without(bots, b) /\ disk' = bots' /\ task' = [task EXCEPT ![b] = "none"]
      /\ hist' = [hist EXCEPT !.on = @ \ {b}, !.off = @ \ {b}]
    BY DEF DeleteBot, Up, requests
<1>2. /\ DOMAIN bots' = Listed \ {b}
      /\ \A c \in Bots \ {b} : c \in Listed => bots'[c] = bots[c]
    BY <1>1 DEF Without, Listed
<1>3. task'[b] = "none"
    BY <1>1 DEF IInv, Types
<1>4. /\ hist'.on = hist.on \ {b} /\ hist'.off = hist.off \ {b} /\ hist'.ran = hist.ran /\ Marked'
    BY <1>1 DEF HInv, Marked
<1>5. \A c \in Bots \ {b} : Untouched(c) /\ Unmarked(c)
    BY <1>1, <1>2, <1>4 DEF IInv, Types, Untouched, Unmarked, Listed
<1>6. Remembered(b)'
    BY <1>1, <1>2, <1>3, <1>4, MarksOf DEF Remembered, Listed
<1>7. Returns(b)'
    BY <1>1, <1>2, <1>3, <1>4, MarksOf DEF Returns, NotDone, Trades, Running, Listed
<1> QED
    BY <1>1, <1>4, <1>5, <1>6, <1>7, OneRemembered

\* A backtest runs only beside a bot that does not, and says so in its status.
LEMMA TestRemembers ==
    ASSUME Tests # "any", IInv, IInv', HInv, NEW b \in Bots, TestBegin(b) \/ TestEnd(b)
    PROVE  HInv'
<1>1. /\ UNCHANGED <<server, task, config, dying, saving, edit, start, recorded, hist>>
      /\ server = "up" /\ ~NotDone(b) /\ disk' = bots'
      /\ testing' \in {testing \cup {b}, testing \ {b}}
    BY DEF TestBegin, TestEnd, Up, IInv, AllFit, Fits
<1>2. /\ DOMAIN bots' = Listed
      /\ \A c \in Bots \ {b} : c \in Listed => bots'[c] = bots[c]
      /\ b \in Listed => /\ bots'[b].status # "running"
                         /\ bots'[b].userStopped = bots[b].userStopped
    <2>1. CASE b \in Listed
        <3>1. PICK s \in {"backtesting", "stopped"} :
                  bots' = [bots EXCEPT ![b] = [bots[b] EXCEPT !.status = s]]
            BY <2>1 DEF TestBegin, TestEnd
        <3> DEFINE row == [bots[b] EXCEPT !.status = s]
        <3>2. bots[b] \in Rows
            BY <2>1 DEF IInv, Types, Partial, Listed
        <3>3. row \in Rows /\ row.status # "running" /\ row.userStopped = bots[b].userStopped
            BY <3>2 DEF Rows, Statuses
        <3>4. bots' = [bots EXCEPT ![b] = row]
            BY <3>1
        <3> HIDE DEF row
        <3> QED
            BY <2>1, <3>3, <3>4, SetRow DEF IInv, Types
    <2>2. CASE b \notin Listed
        BY <2>2 DEF TestBegin, TestEnd, Listed
    <2> QED
        BY <2>1, <2>2
<1>3. \A c \in Bots \ {b} : Untouched(c) /\ Unmarked(c)
    BY <1>1, <1>2 DEF Untouched, Unmarked, Listed
<1>4. Remembered(b)'
    BY <1>1, <1>2, MarksOf DEF Remembered, Running, NotDone, Listed
<1>5. Returns(b)'
    BY <1>1, MarksOf DEF Returns, NotDone, Trades, Running
<1> QED
    BY <1>1, <1>3, <1>4, <1>5, OneRemembered DEF HInv, Marked

LEMMA RouteRemembers ==
    ASSUME Tests # "any", IInv, IInv', HInv, NEW b \in Bots, RouteStep(b) PROVE HInv'
BY StopRemembers, EditCheckRemembers, EditApplyRemembers, DeleteRemembers, TestRemembers
   DEF RouteStep

LEMMA ShutdownBeginRemembers ==
    ASSUME IInv, HInv, ShutdownBegin PROVE HInv'
<1>1. /\ UNCHANGED <<bots, disk, task, config, start, edit, testing, saving, hist>>
      /\ server = "up" /\ server' = "closing" /\ edit = Nobody
      /\ \A b \in Bots : task[b] # "created" /\ <<"stop", b>> \notin saving
      /\ recorded' = [b \in {x \in Listed : NotDone(x)} |-> bots[b].status]
    BY DEF ShutdownBegin, requests
<1>2. /\ DOMAIN recorded' = {x \in Listed : NotDone(x)}
      /\ \A b \in DOMAIN recorded' : recorded'[b] = bots[b].status
    BY <1>1
<1>3. \A b \in Bots : Remembered(b)'
    <2> SUFFICES ASSUME NEW b \in Bots PROVE Remembered(b)'
        OBVIOUS
    <2> QED
        BY <1>1, <1>2, MarksOf DEF Remembered, Running, Listed
<1>4. \A b \in Bots : Returns(b)'
    <2> SUFFICES ASSUME NEW b \in Bots PROVE Returns(b)'
        OBVIOUS
    <2>1. Returns(b) /\ Remembered(b) /\ Fits(b)
        BY MarksOf DEF IInv, AllFit
    <2> QED
        BY <1>1, <1>2, <2>1 DEF Returns, Remembered, Fits, Running, NotDone, Trades, Listed
<1>5. RowsApart'
    BY <1>1, <1>2 DEF HInv, RowsApart, NoneConflict, Live, Listed
<1> QED
    BY <1>1, <1>3, <1>4, <1>5 DEF HInv, Marked, AllRemembered, AllReturn

LEMMA ShutdownEndRemembers ==
    ASSUME IInv, HInv, ShutdownEnd PROVE HInv'
<1>1. /\ UNCHANGED <<task, config, dying, start, edit, testing, saving, recorded, hist>>
      /\ server = "closing" /\ server' = "exiting" /\ disk' = bots'
      /\ bots' = [b \in Listed |-> IF b \in DOMAIN recorded
                                   THEN [bots[b] EXCEPT !.status = recorded[b]] ELSE bots[b]]
    BY DEF ShutdownEnd, requests
<1>2. DOMAIN bots' = Listed
    BY <1>1
<1>3. \A b \in Listed :
          /\ bots'[b].status = IF b \in DOMAIN recorded THEN recorded[b] ELSE bots[b].status
          /\ bots'[b].paused = bots[b].paused /\ bots'[b].note = bots[b].note
          /\ bots'[b].config = bots[b].config /\ bots'[b].userStopped = bots[b].userStopped
    <2> SUFFICES ASSUME NEW b \in Listed
                 PROVE  /\ bots'[b].status = IF b \in DOMAIN recorded THEN recorded[b]
                                                                      ELSE bots[b].status
                        /\ bots'[b].paused = bots[b].paused /\ bots'[b].note = bots[b].note
                        /\ bots'[b].config = bots[b].config
                        /\ bots'[b].userStopped = bots[b].userStopped
        OBVIOUS
    <2>1. bots[b] \in Rows
        BY DEF IInv, Types, Partial, Listed
    <2> QED
        BY <1>1, <2>1 DEF Rows
<1>4. \A b \in Bots : Remembered(b)'
    <2> SUFFICES ASSUME NEW b \in Bots PROVE Remembered(b)'
        OBVIOUS
    <2>1. Remembered(b) /\ Fits(b)
        BY MarksOf DEF IInv, AllFit
    <2> QED
        BY <1>1, <1>2, <1>3, <2>1 DEF Remembered, Fits, Running, Listed
<1>5. \A b \in Bots : Returns(b)'
    <2> SUFFICES ASSUME NEW b \in Bots PROVE Returns(b)'
        OBVIOUS
    <2>1. Returns(b) /\ Fits(b)
        BY MarksOf DEF IInv, AllFit
    <2>2. ~Trades(b)' \/ task[b] = "created"
        BY <1>1 DEF ShutdownEnd, IInv, AllFit, Fits, Trades
    <2> QED
        BY <1>1, <1>2, <1>3, <2>1, <2>2 DEF Returns, Fits, Running, NotDone, Trades, Listed, Resumable
<1>6. NoneConflict(bots, {b \in Listed : Live(bots[b])})'
    <2>1. \A b \in Listed : Live(bots'[b])
              => b \in DOMAIN recorded /\ recorded[b] = "running" /\ ~bots[b].paused
        BY <1>1, <1>3, MarksOf DEF Live, Returns, IInv, Types, Partial, Listed
    <2> QED
        BY <1>1, <1>2, <1>3, <2>1 DEF HInv, RowsApart, NoneConflict, Listed
<1>7. RowsApart'
    BY <1>1, <1>6 DEF RowsApart, NoneConflict, Live, Listed
<1> QED
    BY <1>1, <1>4, <1>5, <1>7 DEF HInv, Marked, AllRemembered, AllReturn

\* A server that ended leaves what is in the file.
LEMMA DeadRemembers ==
    ASSUME IInv, HInv, Dead, hist' \in Hists,
           hist'.on = hist.on, hist'.off = hist.off, hist'.ran \subseteq hist.ran,
           \A b \in hist'.ran : b \in DOMAIN disk /\ Resumable(disk[b])
    PROVE  HInv'
<1>1. /\ server' = "down" /\ DOMAIN bots' = {} /\ disk' = disk /\ saving' = {}
      /\ DOMAIN edit' = {} /\ DOMAIN recorded' = {}
      /\ \A b \in Bots : task'[b] = "none" /\ start'[b] = "none"
    BY DEF Dead, Nobody, NoTasks
<1>2. \A b \in Bots : Remembered(b)'
    <2> SUFFICES ASSUME NEW b \in Bots PROVE Remembered(b)'
        OBVIOUS
    <2> QED
        BY <1>1, MarksOf DEF Remembered, Running, Listed
<1>3. \A b \in Bots : Returns(b)'
    BY <1>1 DEF Returns, NotDone, Trades, Listed, Resumable
<1>4. RowsApart'
    BY <1>1 DEF HInv, RowsApart, NoneConflict, Live, Listed
<1> QED
    BY <1>1, <1>2, <1>3, <1>4 DEF HInv, Marked, AllRemembered, AllReturn

LEMMA ExitRemembers ==
    ASSUME IInv, HInv, Exit PROVE HInv'
<1>1. Dead /\ server = "exiting" /\ hist' = [hist EXCEPT !.downs = @ + 1]
    BY DEF Exit
<1>2. \A b \in hist.ran : b \in DOMAIN disk /\ Resumable(disk[b])
    BY <1>1 DEF HInv, Marked, AllReturn, Returns
<1> QED
    BY <1>1, <1>2, DeadRemembers DEF HInv, Marked

LEMMA CrashRemembers ==
    ASSUME IInv, HInv, Crash PROVE HInv'
<1>1. Dead /\ hist' = [hist EXCEPT !.downs = @ + 1, !.ran = IF Settled THEN hist.ran ELSE {}]
    BY DEF Crash
<1>2. PICK ran \in SUBSET hist.ran :
          hist' = [hist EXCEPT !.downs = @ + 1, !.ran = ran] /\ (ran # {} => Settled)
    BY <1>1
<1>3. \A b \in ran : b \in DOMAIN disk /\ Resumable(disk[b])
    BY <1>2 DEF HInv, Marked, AllReturn, Returns, Settled
<1>4. /\ hist'.on = hist.on /\ hist'.off = hist.off /\ hist'.ran = ran
      /\ hist' \in Hists
    <2> DEFINE n == hist.downs + 1
    <2>1. /\ ran \subseteq Bots /\ n \in Nat
          /\ hist \in Hists
        BY DEF HInv, Marked
    <2>2. hist' = [hist EXCEPT !.downs = n, !.ran = ran]
        BY <1>2
    <2> HIDE DEF n
    <2> QED
        BY <2>1, <2>2
<1> QED
    BY <1>1, <1>3, <1>4, DeadRemembers

LEMMA LoadRemembers ==
    ASSUME IInv, HInv, Load PROVE HInv'
<1>1. /\ UNCHANGED <<task, config, dying, start, edit, testing, saving, recorded, hist>>
      /\ server = "down" /\ server' = "loaded" /\ disk' = bots'
      /\ bots' = [b \in DOMAIN disk |-> LoadRow(disk[b])]
    BY DEF Load, requests
<1>2. DOMAIN bots' = DOMAIN disk /\ DOMAIN disk \subseteq Bots
    BY <1>1 DEF IInv, Types, Partial
<1>3. \A b \in DOMAIN disk :
          /\ bots'[b].status = "stopped" /\ bots'[b].wasRunning = (disk[b].status = "running")
          /\ bots'[b].paused = disk[b].paused /\ bots'[b].note = disk[b].note
          /\ bots'[b].config = disk[b].config /\ bots'[b].userStopped = disk[b].userStopped
    <2> SUFFICES ASSUME NEW b \in DOMAIN disk
                 PROVE  /\ bots'[b].status = "stopped"
                        /\ bots'[b].wasRunning = (disk[b].status = "running")
                        /\ bots'[b].paused = disk[b].paused /\ bots'[b].note = disk[b].note
                        /\ bots'[b].config = disk[b].config
                        /\ bots'[b].userStopped = disk[b].userStopped
        OBVIOUS
    <2>1. disk[b] \in Rows /\ bots'[b] = LoadRow(disk[b])
        BY <1>1 DEF IInv, Types, Partial
    <2> QED
        BY <2>1 DEF LoadRow, Rows
<1>4. \A b \in Bots : task[b] \notin {"created", "begun", "on"}
    BY <1>1 DEF IInv, AllFit, Fits
<1>5. \A b \in Bots : Remembered(b)'
    <2> SUFFICES ASSUME NEW b \in Bots PROVE Remembered(b)'
        OBVIOUS
    <2> QED
        BY <1>1, <1>2, <1>3, <1>4, MarksOf DEF Remembered, Running, Listed
<1>6. \A b \in Bots : Returns(b)'
    <2> SUFFICES ASSUME NEW b \in Bots PROVE Returns(b)'
        OBVIOUS
    <2>1. Returns(b)
        BY MarksOf
    <2> QED
        BY <1>1, <1>2, <1>3, <1>4, <2>1 DEF Returns, NotDone, Trades, Listed, Resumable, MayResume
<1>7. \A b \in DOMAIN disk : ~Live(bots'[b])
    BY <1>3 DEF Live
<1>8. NoneConflict(bots, {b \in Listed : MayResume(b)})'
    <2>1. \A b \in DOMAIN disk : MayResume(b)' => Live(disk[b])
        BY <1>3 DEF MayResume, Live
    <2> QED
        BY <1>2, <1>3, <2>1 DEF HInv, RowsApart, NoneConflict, Listed
<1>9. RowsApart'
    BY <1>1, <1>2, <1>7, <1>8 DEF RowsApart, NoneConflict, Listed
<1> QED
    BY <1>1, <1>5, <1>6, <1>9 DEF HInv, Marked, AllRemembered, AllReturn

\* What a restart does with the rows it loaded.
Resumed(started, refused) ==
    /\ \A b \in Listed \ (started \cup refused) :
          MayResume(b) => \E c \in started : Conflict(bots[b].config, bots[c].config)
    /\ started \cap refused = {}
    /\ \A b \in Bots : task'[b] = IF b \in started THEN "created" ELSE "none"
    /\ DOMAIN bots' = Listed
    /\ \A b \in Listed : /\ bots'[b].status # "running"
                         /\ bots'[b].paused = (bots[b].paused \/ b \in refused)
                         /\ bots'[b].userStopped = bots[b].userStopped
    /\ hist'.ran = hist.ran \ refused /\ hist'.on = hist.on \ refused
    /\ hist'.off = hist.off /\ Marked'

LEMMA ResumeDoes ==
    ASSUME IInv, HInv, Resume
    PROVE  \E started \in SUBSET {b \in Listed : MayResume(b)},
              refused \in SUBSET {b \in Listed : MayResume(b)} : Resumed(started, refused)
<1>1. PICK started \in SUBSET {b \in Listed : MayResume(b)},
           refused \in IF MayRefuse THEN SUBSET {b \in Listed : MayResume(b)} ELSE {{}} :
        /\ started \cap refused = {}
        /\ \A b, c \in started : b = c \/ ~Conflict(bots[b].config, bots[c].config)
        /\ \A b \in Listed \ (started \cup refused) :
              MayResume(b) => \E c \in started : Conflict(bots[b].config, bots[c].config)
        /\ task' = [b \in Bots |-> IF b \in started THEN "created" ELSE "none"]
        /\ config' = [b \in Bots |-> IF b \in started THEN bots[b].config ELSE config[b]]
        /\ bots' = [b \in Listed |->
              IF b \in refused
              THEN [bots[b] EXCEPT !.status = "error", !.paused = TRUE, !.note = "fatal",
                                   !.wasRunning = FALSE]
              ELSE [bots[b] EXCEPT !.wasRunning = @ /\ b \in started,
                                   !.note = IF MayResume(b) THEN "none" ELSE @]]
        /\ hist' = [hist EXCEPT !.ran = @ \ refused, !.on = @ \ refused]
    BY DEF Resume
<1>2. refused \in SUBSET {b \in Listed : MayResume(b)}
    BY <1>1
<1>3. /\ hist'.ran = hist.ran \ refused /\ hist'.on = hist.on \ refused
      /\ hist'.off = hist.off
      /\ hist' \in Hists
    BY <1>1 DEF HInv, Marked
<1>4. Marked'
    BY <1>3 DEF Resume, HInv, Marked
<1>5. DOMAIN bots' = Listed
    BY <1>1
<1>6. \A b \in Listed : /\ bots'[b].status # "running"
                        /\ bots'[b].paused = (bots[b].paused \/ b \in refused)
                        /\ bots'[b].userStopped = bots[b].userStopped
    <2> SUFFICES ASSUME NEW b \in Listed
                 PROVE  /\ bots'[b].status # "running"
                        /\ bots'[b].paused = (bots[b].paused \/ b \in refused)
                        /\ bots'[b].userStopped = bots[b].userStopped
        OBVIOUS
    <2>1. bots[b] \in Rows /\ b \in Bots
        BY DEF IInv, Types, Partial, Listed
    <2>2. bots[b].status # "running"
        BY <2>1, MarksOf DEF Resume, Returns
    <2>3. CASE b \in refused
        <3>1. bots'[b] = [bots[b] EXCEPT !.status = "error", !.paused = TRUE, !.note = "fatal",
                                         !.wasRunning = FALSE]
            BY <1>1, <2>3
        <3> QED
            BY <2>1, <2>3, <3>1 DEF Rows
    <2>4. CASE b \notin refused
        <3> DEFINE was == bots[b].wasRunning /\ b \in started
                   note == IF MayResume(b) THEN "none" ELSE bots[b].note
        <3>1. bots'[b] = [bots[b] EXCEPT !.wasRunning = was, !.note = note]
            BY <1>1, <2>4
        <3> HIDE DEF was, note
        <3> QED
            BY <2>1, <2>2, <2>4, <3>1 DEF Rows
    <2> QED
        BY <2>3, <2>4
<1>7. \A b \in Bots : task'[b] = IF b \in started THEN "created" ELSE "none"
    BY <1>1
<1>8. Resumed(started, refused)
    BY <1>1, <1>3, <1>4, <1>5, <1>6, <1>7 DEF Resumed
<1> QED
    BY <1>1, <1>2, <1>8

\* Nothing that may resume conflicts, so whoever ran is started or refused.
LEMMA ResumeRemembers ==
    ASSUME IInv, IInv', HInv, Resume
    PROVE  /\ HInv'
           /\ \A b \in hist.ran : Running(b)' \/ bots'[b].paused
           /\ \A b \in hist.off : ~Running(b)'
<1>1. PICK started \in SUBSET {b \in Listed : MayResume(b)},
           refused \in SUBSET {b \in Listed : MayResume(b)} : Resumed(started, refused)
    BY ResumeDoes
<1>2. /\ UNCHANGED <<dying, start, edit, testing, saving, recorded>>
      /\ server = "loaded" /\ server' = "up" /\ disk' = bots'
    BY DEF Resume, requests
<1>3. \A b \in Bots : start'[b] = "none"
    BY <1>2 DEF IInv, AllFit, Fits
<1>4. \A b \in hist.ran : b \in Bots /\ b \in Listed /\ MayResume(b)
    BY <1>2 DEF HInv, Marked, AllReturn, Returns
<1>5. \A b \in hist.ran : b \in started \cup refused
    <2> SUFFICES ASSUME NEW b \in hist.ran, b \notin started \cup refused PROVE FALSE
        OBVIOUS
    <2>1. PICK c \in started : Conflict(bots[b].config, bots[c].config)
        BY <1>1, <1>4 DEF Resumed
    <2> QED
        BY <1>2, <1>4, <2>1 DEF HInv, RowsApart, NoneConflict
<1>6. \A b \in hist.off : b \in Bots /\ b \notin started
    BY <1>2 DEF HInv, Marked, AllRemembered, Remembered, MayResume
<1>7. \A b \in Bots : Remembered(b)'
    <2> SUFFICES ASSUME NEW b \in Bots PROVE Remembered(b)'
        OBVIOUS
    <2> QED
        BY <1>1, <1>2, <1>6, MarksOf DEF Resumed, Remembered, Running, Listed
<1>8. \A b \in Bots : Returns(b)'
    <2> SUFFICES ASSUME NEW b \in Bots PROVE Returns(b)'
        OBVIOUS
    <2> QED
        BY <1>1, <1>2, <1>3, <1>4, <1>5, MarksOf
           DEF Resumed, Returns, NotDone, Running, Trades, Listed, MayResume
<1>9. HInv'
    BY <1>1, <1>2, <1>7, <1>8, UpKeeps DEF Resumed, AllRemembered, AllReturn
<1>10. \A b \in hist.ran : Running(b)' \/ bots'[b].paused
    BY <1>1, <1>4, <1>5 DEF Resumed, Running
<1>11. \A b \in hist.off : ~Running(b)'
    BY <1>1, <1>6 DEF Resumed, Running
<1> QED
    BY <1>9, <1>10, <1>11

LEMMA ServerRemembers ==
    ASSUME IInv, IInv', HInv, ServerStep PROVE HInv'
BY ShutdownBeginRemembers, ShutdownEndRemembers, ExitRemembers, CrashRemembers,
   LoadRemembers, ResumeRemembers
   DEF ServerStep

\* Only a restart brings a loaded server up.
LEMMA UpFromLoaded ==
    ASSUME [Next]_vars, server = "loaded", server' = "up" PROVE Resume
<1>1. \A b \in Bots : ~StartStep(b) /\ ~RouteStep(b)
    BY DEF StartStep, RouteStep, PrepareStart, RefuseStart, StartBot, Stop, EditApply,
           DeleteBot, TestBegin, TestEnd, EditCheck, Up
<1>2. \A b \in Bots : ~RunStep(b)
    BY DEF RunStep, RunBegin, RunRefused, Pause, BackOff, Recover, RunEnds, RunFails,
           DyingEnds, Saved, Up
<1> QED
    BY <1>1, <1>2 DEF Next, vars, ServerStep, ShutdownBegin, ShutdownEnd, Exit, Crash, Dead, Load

----------------------------------------------------------------------------
(* The theorems.                                                               *)

LEMMA InitFits == Init => IInv
<1> SUFFICES ASSUME Init PROVE IInv
    OBVIOUS
<1>1. \A c \in Configs : Stopped(c) \in Rows
    BY DEF Stopped, Rows, Statuses, Notes
<1>2. Partial(bots, Rows) /\ Partial(disk, Rows)
    BY <1>1, ConfigAssumption DEF Init, Partial
<1>3. Partial(edit, Rows) /\ Partial(recorded, Statuses)
    BY DEF Init, Nobody, Partial
<1>4. config \in [Bots -> Configs]
    BY ConfigAssumption DEF Init
<1>5. Types
    BY <1>2, <1>3, <1>4 DEF Init, Types, NoTasks, Phases, Partial
<1>6. \A b \in Bots : ~Running(b) /\ ~NotDone(b) /\ ~Trades(b) /\ task[b] = "none"
    BY DEF Init, NoTasks, Running, NotDone, Trades
<1>7. DOMAIN edit = {}
    BY DEF Init, Nobody
<1>8. AllFit
    BY <1>6, <1>7 DEF Init, AllFit, Fits
<1> QED
    BY <1>5, <1>6, <1>8 DEF IInv, NoConflictingRuns

LEMMA Inductive ==
    ASSUME Overlap = FALSE, Tests # "any" PROVE Spec => []IInv
<1>1. IInv /\ [Next]_vars => IInv'
    <2> SUFFICES ASSUME IInv, [Next]_vars PROVE IInv'
        OBVIOUS
    <2>1. CASE UNCHANGED vars
        <3>1. \A b \in Bots : Fits(b)' <=> Fits(b)
            BY <2>1 DEF vars, Fits, Running, Trades, NotDone, Listed
        <3>2. AllFit'
            BY <3>1 DEF IInv, AllFit
        <3>3. Types' /\ NoConflictingRuns'
            BY <2>1 DEF vars, IInv, Types, Partial, NoConflictingRuns, Trades
        <3> QED
            BY <3>2, <3>3 DEF IInv
    <2>2. CASE ServerStep
        BY <2>2, ServerKeeps
    <2>3. ASSUME NEW b \in Bots, StartStep(b) PROVE IInv'
        BY <2>3, PrepareStartKeeps, RefuseStartKeeps, StartBotKeeps DEF StartStep
    <2>4. ASSUME NEW b \in Bots, RunStep(b) PROVE IInv'
        BY <2>4, RunKeeps
    <2>5. ASSUME NEW b \in Bots, RouteStep(b) PROVE IInv'
        BY <2>5, RouteKeeps
    <2> QED
        BY <2>1, <2>2, <2>3, <2>4, <2>5 DEF Next
<1> QED
    BY <1>1, InitFits, PTL DEF Spec

LEMMA StepRemembers ==
    ASSUME Tests # "any", IInv, IInv', HInv, [Next]_vars PROVE HInv'
<1>1. CASE UNCHANGED vars
    <2>1. \A b \in Bots : (Remembered(b)' <=> Remembered(b)) /\ (Returns(b)' <=> Returns(b))
        BY <1>1 DEF vars, Remembered, Returns, Running, NotDone, Trades, Listed, MayResume
    <2>2. RowsApart'
        BY <1>1 DEF vars, HInv, RowsApart, NoneConflict, Listed, MayResume
    <2> QED
        BY <1>1, <2>1, <2>2 DEF vars, HInv, Marked, AllRemembered, AllReturn
<1>2. CASE ServerStep
    BY <1>2, ServerRemembers
<1>3. ASSUME NEW b \in Bots, StartStep(b) PROVE HInv'
    BY <1>3, PrepareStartRemembers, RefuseStartRemembers, StartBotRemembers DEF StartStep
<1>4. ASSUME NEW b \in Bots, RunStep(b) PROVE HInv'
    BY <1>4, RunRemembers
<1>5. ASSUME NEW b \in Bots, RouteStep(b) PROVE HInv'
    BY <1>5, RouteRemembers
<1> QED
    BY <1>1, <1>2, <1>3, <1>4, <1>5 DEF Next

LEMMA InitRemembers == Init => HInv
<1> SUFFICES ASSUME Init PROVE HInv
    OBVIOUS
<1>1. Marked
    BY DEF Init, Marked
<1>2. /\ server = "up" /\ disk = bots /\ saving = {} /\ DOMAIN edit = {}
      /\ \A b \in Bots : task[b] = "none" /\ start[b] = "none"
      /\ hist.on = {} /\ hist.off = {} /\ hist.ran = {}
      /\ \A b \in Listed : bots[b].status = "stopped"
    BY DEF Init, NoTasks, Nobody, Stopped, Listed
<1>3. \A b \in Bots : Remembered(b) /\ Returns(b)
    BY <1>2 DEF Remembered, Returns, Running, NotDone, Trades
<1>4. RowsApart
    BY <1>2 DEF RowsApart, NoneConflict, Live, Listed
<1> QED
    BY <1>1, <1>3, <1>4 DEF HInv, AllRemembered, AllReturn

LEMMA BothInductive ==
    ASSUME Overlap = FALSE, Tests # "any" PROVE Spec => [](IInv /\ HInv)
<1>1. HInv /\ IInv /\ IInv' /\ [Next]_vars => HInv'
    BY StepRemembers
<1> QED
    BY <1>1, InitRemembers, Inductive, PTL DEF Spec

\* Two bots that run at the same time never trade the same side of a symbol
\* (NoConflictingRuns): the guard of start_bot looks at the configs on the cards of the bots
\* with a task, and those are the configs that trade.
THEOREM NeverConflict ==
    ASSUME Overlap = FALSE, Tests # "any" PROVE Spec => []NoConflictingRuns
<1>1. IInv => NoConflictingRuns
    BY DEF IInv
<1> QED
    BY <1>1, Inductive, PTL

\* A bot trades the config on its card and is shown as running (CardMatchesRun), whatever
\* edits and starts come in between.
THEOREM CardsAreTrue ==
    ASSUME Overlap = FALSE, Tests # "any" PROVE Spec => []CardMatchesRun
<1>1. IInv => CardMatchesRun
    BY DEF IInv, AllFit, Fits, CardMatchesRun, Trades, Running
<1> QED
    BY <1>1, Inductive, PTL

\* The types (TypeOK), saves and history included.
THEOREM TypeCorrect ==
    ASSUME Overlap = FALSE, Tests # "any" PROVE Spec => []TypeOK
<1>1. IInv /\ HInv => TypeOK
    BY DEF IInv, Types, HInv, Marked, TypeOK
<1> QED
    BY <1>1, BothInductive, PTL

\* A bot that was on and stands still without a Stop or a pause is not marked as stopped by
\* the user, whatever crashes and restarts came in between (NeverSilentlyOff): bot_watch
\* will report it.
THEOREM NeverOffUnseen ==
    ASSUME Overlap = FALSE, Tests # "any" PROVE Spec => []NeverSilentlyOff
<1>1. IInv /\ HInv => NeverSilentlyOff
    BY DEF HInv, Marked, AllRemembered, Remembered, NeverSilentlyOff
<1> QED
    BY <1>1, BothInductive, PTL

\* A restart starts every bot whose saved run nothing ended, unless its graph is refused
\* (ResumesAll): the file shows the run, and nothing else in it is in the way.
THEOREM RestartsResume ==
    ASSUME Overlap = FALSE, Tests # "any" PROVE Spec => ResumesAll
<1>1. IInv /\ HInv /\ IInv' /\ [Next]_vars =>
          [server = "loaded" /\ server' = "up"
              => \A b \in hist.ran : Running(b)' \/ bots'[b].paused]_vars
    <2> SUFFICES ASSUME IInv, HInv, IInv', [Next]_vars, server = "loaded", server' = "up"
                 PROVE  \A b \in hist.ran : Running(b)' \/ bots'[b].paused
        OBVIOUS
    <2>1. Resume
        BY UpFromLoaded
    <2> QED
        BY <2>1, ResumeRemembers
<1> QED
    BY <1>1, BothInductive, PTL DEF Spec, ResumesAll

\* A restart starts no bot whose Stop was answered (StopSticks).
THEOREM StopsStick ==
    ASSUME Overlap = FALSE, Tests # "any" PROVE Spec => StopSticks
<1>1. IInv /\ HInv /\ IInv' /\ [Next]_vars =>
          [server = "loaded" /\ server' = "up" => \A b \in hist.off : ~Running(b)']_vars
    <2> SUFFICES ASSUME IInv, HInv, IInv', [Next]_vars, server = "loaded", server' = "up"
                 PROVE  \A b \in hist.off : ~Running(b)'
        OBVIOUS
    <2>1. Resume
        BY UpFromLoaded
    <2> QED
        BY <2>1, ResumeRemembers
<1> QED
    BY <1>1, BothInductive, PTL DEF Spec, StopSticks
=============================================================================
