-------------------------------- MODULE WfaPool --------------------------------
(***************************************************************************)
(* A walk-forward run: run_windows_parallel and _run_windows_serial in      *)
(* routes/wfa_pool.py, the grid of a window (routes/grid_runner.py) and the  *)
(* answer of routes/walk_forward.py.                                        *)
(*                                                                         *)
(* The windows of a run go to worker processes that may crash or never come  *)
(* back; the run has a time limit; the server may shut down or be killed at   *)
(* any moment.  The budget of a window is what was left when it was handed    *)
(* out, so no grid is cut before the limit has passed: time is late.         *)
(***************************************************************************)
EXTENDS Naturals, FiniteSets

CONSTANTS
    MaxWorkers,  \* processes a pool may have
    MinForPool,  \* _MIN_WINDOWS_FOR_POOL
    MaxWindows,  \* bound: windows of a run
    CutEmpty     \* a grid that is cut off may be one of which no combination worked

VARIABLES
    server,   \* "up", "closing", "dead"
    late,     \* the time limit has passed
    n,        \* windows of the run
    run,      \* the thread of the run
    fut,      \* the future of each window
    proc,     \* the worker processes; "lost" is one whose parent was gone when it started
    pool,     \* the executor
    killer    \* _force_kill_executor, in the run and in the shutdown

vars == <<server, late, n, run, fut, proc, pool, killer>>

Windows == 1..n
Workers == 1..MaxWorkers
Killers == {"run", "close"}
Ended == {"full", "cut", "empty", "raised", "error", "cancelled"}
Alive == {"boot", "idle", "work", "stuck", "lost"}

TypeOK ==
    /\ server \in {"up", "closing", "dead"} /\ late \in BOOLEAN /\ n \in 1..MaxWindows
    /\ run.at \in {"idle", "submit", "collect", "serial", "over", "done", "gone"}
    /\ run.next \in 1..(MaxWindows + 1) /\ run.told \in BOOLEAN
    /\ run.seen \subseteq Windows /\ run.kept \subseteq run.seen
    /\ run.out \in {"none", "answer", "error"}
    /\ fut \in [1..MaxWindows -> {"none", "queued", "running"} \cup Ended]
    /\ \A p \in Workers : proc[p].at \in {"none", "gone"} \cup Alive /\ proc[p].w \in 0..MaxWindows
    /\ pool.procs \subseteq Workers /\ pool.shut \in BOOLEAN /\ pool.listed \in BOOLEAN
    /\ pool.broken \in BOOLEAN
    /\ \A k \in Killers : killer[k].at \in {"none", "snap", "shut", "kill", "done"}
                          /\ killer[k].procs \subseteq Workers

Gone == [at |-> "gone", w |-> 0]
NoFut == [w \in 1..MaxWindows |-> "none"]
NoPool == [procs |-> {}, shut |-> FALSE, broken |-> FALSE, listed |-> FALSE]
NoKiller == [k \in Killers |-> [at |-> "none", procs |-> {}]]

Init ==
    /\ server = "up" /\ late = FALSE /\ n \in 1..MaxWindows
    /\ run = [at |-> "idle", next |-> 1, told |-> FALSE, seen |-> {}, kept |-> {}, out |-> "none"]
    /\ fut = NoFut /\ pool = NoPool /\ killer = NoKiller
    /\ proc = [p \in Workers |-> [at |-> "none", w |-> 0]]

-----------------------------------------------------------------------------
(* The run.                                                                *)

\* Mutant: a window that was judged on a part of its grid is in the answer.
AnswersBiased(told) == run' = [run EXCEPT !.at = "done", !.out = "answer", !.told = told]

\* The answer leaves a window out that was judged on a part of its grid, and says so.
Answers(told) ==
    run' = [run EXCEPT !.at = "done", !.out = "answer",
                !.told = told \/ \E w \in run.kept : fut[w] = "cut",
                !.kept = {w \in @ : fut[w] # "cut"}]

\* What is left is the finally block: it ends the workers.
Leaves(out) ==
    /\ run' = [run EXCEPT !.at = "over", !.out = out]
    /\ killer' = [killer EXCEPT !["run"].at = "snap"]

\* A small run goes in the thread itself; one whose fetch took all the time not at all.
Begin ==
    /\ server = "up" /\ run.at = "idle"
    /\ IF late
       THEN Answers(TRUE) /\ pool' = pool
       ELSE IF n < MinForPool
            THEN run' = [run EXCEPT !.at = "serial"] /\ pool' = pool
            ELSE run' = [run EXCEPT !.at = "submit"] /\ pool' = [pool EXCEPT !.listed = TRUE]
    /\ UNCHANGED <<server, late, n, fut, proc, killer>>

\* One window is handed to the executor, which starts a process for it unless one is
\* idle or all are started.  A pool that broke or was shut down takes nothing more.
Submit ==
    /\ server # "dead" /\ run.at = "submit" /\ run.next <= n
    /\ IF pool.shut \/ pool.broken
       THEN Leaves("error") /\ UNCHANGED <<fut, proc, pool>>
       ELSE /\ fut' = [fut EXCEPT ![run.next] = "queued"]
            /\ \/ \E p \in Workers :
                    /\ proc[p].at = "none" /\ \A q \in 1..(p - 1) : proc[q].at # "none"
                    /\ proc' = [proc EXCEPT ![p].at = "boot"]
                    /\ pool' = [pool EXCEPT !.procs = @ \cup {p}]
               \/ /\ \/ \A p \in Workers : proc[p].at # "none"
                     \/ \E w \in Windows : fut[w] \in {"full", "cut", "empty", "raised"}
                  /\ UNCHANGED <<proc, pool>>
            /\ run' = [run EXCEPT !.next = @ + 1] /\ killer' = killer
    /\ UNCHANGED <<server, late, n>>

\* All are handed out; when that took all the time, the run ends with nothing.
Submitted ==
    /\ server # "dead" /\ run.at = "submit" /\ run.next > n
    /\ IF late
       THEN /\ run' = [run EXCEPT !.at = "over", !.told = TRUE, !.out = "answer"]
            /\ killer' = [killer EXCEPT !["run"].at = "snap"]
       ELSE run' = [run EXCEPT !.at = "collect"] /\ killer' = killer
    /\ UNCHANGED <<server, late, n, fut, proc, pool>>

\* as_completed yields what has ended at a wake-up, and looks at the clock when it is
\* all taken: a result is kept, dropped with a warning, or an error of the run.
Collect ==
    LET ended == {w \in Windows \ run.seen : fut[w] \in Ended} IN
    /\ server # "dead" /\ run.at = "collect" /\ ended # {}
    /\ IF \E w \in ended : fut[w] = "error"
       THEN Leaves("error")
       ELSE /\ run' = [run EXCEPT !.seen = @ \cup ended,
                    !.kept = @ \cup {w \in ended : fut[w] \in {"full", "cut", "empty"}}]
            /\ killer' = killer
    /\ UNCHANGED <<server, late, n, fut, proc, pool>>

AllSeen ==
    /\ server # "dead" /\ run.at = "collect" /\ run.seen = Windows
    /\ Leaves("answer")
    /\ UNCHANGED <<server, late, n, fut, proc, pool>>

\* as_completed gives up.
TimeUp ==
    /\ server # "dead" /\ run.at = "collect" /\ late /\ run.seen # Windows
    /\ run' = [run EXCEPT !.at = "over", !.told = TRUE, !.out = "answer"]
    /\ killer' = [killer EXCEPT !["run"].at = "snap"]
    /\ UNCHANGED <<server, late, n, fut, proc, pool>>

\* A window in the thread of a small run.
Serial ==
    /\ server # "dead" /\ run.at = "serial" /\ run.next <= n
    /\ IF late
       THEN Answers(TRUE) /\ UNCHANGED <<fut, late>>
       ELSE \E o \in {"full", "cut", "empty", "error"} :
            /\ fut' = [fut EXCEPT ![run.next] = o]
            /\ late' = (late \/ o \in {"cut", "empty"})
            /\ run' = IF o = "error" THEN [run EXCEPT !.at = "done", !.out = "error"]
                      ELSE [run EXCEPT !.next = @ + 1, !.seen = @ \cup {run.next},
                              !.kept = @ \cup {run.next}, !.told = @ \/ o \in {"cut", "empty"}]
    /\ UNCHANGED <<server, n, proc, pool, killer>>

SerialEnds ==
    /\ server # "dead" /\ run.at = "serial" /\ run.next > n
    /\ Answers(run.told)
    /\ UNCHANGED <<server, late, n, fut, proc, pool, killer>>

Return ==
    /\ server # "dead" /\ run.at = "over" /\ killer["run"].at = "done"
    /\ IF run.out = "answer" THEN Answers(run.told) ELSE run' = [run EXCEPT !.at = "done"]
    /\ UNCHANGED <<server, late, n, fut, proc, pool, killer>>

-----------------------------------------------------------------------------
(* Ending the workers.                                                     *)

\* _force_kill_executor: notes the processes it knows, shuts the executor down, which
\* forgets them, and kills what it noted.
Snapshot(k) ==
    /\ server # "dead" /\ killer[k].at = "snap"
    /\ killer' = [killer EXCEPT ![k].at = "shut", ![k].procs = pool.procs]
    /\ UNCHANGED <<server, late, n, run, fut, proc, pool>>

ShutDown(k) ==
    /\ server # "dead" /\ killer[k].at = "shut"
    /\ pool' = [pool EXCEPT !.procs = {}, !.shut = TRUE]
    /\ \E S \in SUBSET {w \in Windows : fut[w] = "queued"} :
          fut' = [w \in DOMAIN fut |-> IF w \in S THEN "cancelled" ELSE fut[w]]
    /\ killer' = [killer EXCEPT ![k].at = "kill"]
    /\ UNCHANGED <<server, late, n, run, proc>>

\* Mutant: the processes are looked up when the shutdown has forgotten them.
KillKnown(k) ==
    /\ server # "dead" /\ killer[k].at = "kill"
    /\ proc' = [p \in Workers |-> IF p \in pool.procs THEN Gone ELSE proc[p]]
    /\ pool' = [pool EXCEPT !.listed = FALSE]
    /\ killer' = [killer EXCEPT ![k] = [at |-> "done", procs |-> {}]]
    /\ UNCHANGED <<server, late, n, run, fut>>

Kill(k) ==
    /\ server # "dead" /\ killer[k].at = "kill"
    /\ proc' = [p \in Workers |-> IF p \in killer[k].procs THEN Gone ELSE proc[p]]
    /\ pool' = [pool EXCEPT !.listed = FALSE]
    /\ killer' = [killer EXCEPT ![k] = [at |-> "done", procs |-> {}]]
    /\ UNCHANGED <<server, late, n, run, fut>>

-----------------------------------------------------------------------------
(* The workers.                                                            *)

\* _init_worker notes its parent and starts the watchdog: too late when that is gone.
Boot(p) ==
    /\ proc[p].at = "boot"
    /\ proc' = [proc EXCEPT ![p].at = IF server = "dead" THEN "lost" ELSE "idle"]
    /\ UNCHANGED <<server, late, n, run, fut, pool, killer>>

\* An idle worker takes the next window.
Take(p) ==
    /\ server # "dead" /\ proc[p].at = "idle"
    /\ \E w \in Windows : /\ fut[w] = "queued"
                          /\ fut' = [fut EXCEPT ![w] = "running"]
                          /\ proc' = [proc EXCEPT ![p] = [at |-> "work", w |-> w]]
    /\ UNCHANGED <<server, late, n, run, pool, killer>>

\* A window ends: judged, cut off by its budget, with an error that drops it ("raised"), or
\* with one that fails the run.
Finish(p) ==
    /\ server # "dead" /\ proc[p].at = "work"
    /\ \E o \in {"full", "raised", "error"} \cup (IF late THEN {"cut"} ELSE {})
                                             \cup (IF late /\ CutEmpty THEN {"empty"} ELSE {}) :
          fut' = [fut EXCEPT ![proc[p].w] = IF @ = "running" THEN o ELSE @]
    /\ proc' = [proc EXCEPT ![p] = [at |-> "idle", w |-> 0]]
    /\ UNCHANGED <<server, late, n, run, pool, killer>>

\* A call into a library never comes back.
Stick(p) ==
    /\ proc[p].at = "work"
    /\ proc' = [proc EXCEPT ![p] = [at |-> "stuck", w |-> 0]]
    /\ UNCHANGED <<server, late, n, run, fut, pool, killer>>

Dies(p) ==
    /\ server # "dead" /\ proc[p].at \in {"boot", "work"}
    /\ proc' = [proc EXCEPT ![p] = Gone]
    /\ UNCHANGED <<server, late, n, run, fut, pool, killer>>

\* The executor finds a process gone while work is left: the pool is broken.
Break ==
    /\ server # "dead" /\ ~pool.broken /\ \E p \in Workers : proc[p].at = "gone"
    /\ \E w \in Windows : fut[w] \in {"queued", "running"}
    /\ pool' = [pool EXCEPT !.broken = TRUE]
    /\ fut' = [w \in DOMAIN fut |-> IF fut[w] \in {"queued", "running"} THEN "error" ELSE fut[w]]
    /\ proc' = [p \in Workers |-> IF proc[p].at \in Alive THEN Gone ELSE proc[p]]
    /\ UNCHANGED <<server, late, n, run, killer>>

\* The watchdog sees that the parent is gone.
Watchdog(p) ==
    /\ server = "dead" /\ proc[p].at \in {"idle", "work", "stuck"}
    /\ proc' = [proc EXCEPT ![p] = Gone]
    /\ UNCHANGED <<server, late, n, run, fut, pool, killer>>

-----------------------------------------------------------------------------
(* Time and the server.                                                    *)

TimePasses ==
    /\ ~late /\ late' = TRUE
    /\ UNCHANGED <<server, n, run, fut, proc, pool, killer>>

\* The lifespan ends when nobody waits for an answer; a stream whose client left still
\* runs.  shutdown_all_executors ends the pools it finds.
Close ==
    /\ server = "up" /\ server' = "closing"
    /\ killer' = [killer EXCEPT !["close"].at = IF pool.listed THEN "snap" ELSE "done"]
    /\ UNCHANGED <<late, n, run, fut, proc, pool>>

Dead ==
    /\ server' = "dead"
    /\ run' = [run EXCEPT !.at = IF @ = "idle" THEN "idle" ELSE "gone",
               !.next = 1, !.seen = {}, !.kept = {}, !.told = FALSE, !.out = "none"]
    /\ fut' = NoFut /\ pool' = NoPool /\ killer' = NoKiller
    /\ late' = TRUE
    /\ UNCHANGED <<n, proc>>

\* The process ends, if need be because the system kills it.
Exit == server = "closing" /\ killer["close"].at = "done" /\ Dead
Crash == server # "dead" /\ Dead

RunStep ==
    \/ Submit \/ Submitted \/ Collect \/ AllSeen \/ TimeUp \/ Serial \/ SerialEnds \/ Return
KillStep(k) == Snapshot(k) \/ ShutDown(k) \/ Kill(k)
WorkerStep(p) == Boot(p) \/ Take(p) \/ Finish(p) \/ Stick(p) \/ Dies(p) \/ Watchdog(p)

Next ==
    \/ Begin \/ RunStep \/ TimePasses \/ Break \/ Close \/ Exit \/ Crash
    \/ \E k \in Killers : KillStep(k)
    \/ \E p \in Workers : WorkerStep(p)

Spec == Init /\ [][Next]_vars

\* The thread of the run goes on, and the server to its end, because the system kills one
\* that does not come to it; time passes; a worker starts, and its watchdog looks twice a
\* second.
ThreadStep == RunStep \/ KillStep("run")
CloseStep == KillStep("close") \/ Exit
WatchStep == \E p \in Workers : Boot(p) \/ Watchdog(p)
FairSpec ==
    Spec /\ WF_vars(ThreadStep) /\ WF_vars(CloseStep) /\ WF_vars(TimePasses) /\ WF_vars(WatchStep)

-----------------------------------------------------------------------------
(* Properties.                                                             *)

\* An answer that lacks a window, or judges one on a part of its grid, because the time
\* ran out says so (timed_out); the others it lacks are those whose worker raised.
CutOffIsTold ==
    server = "up" /\ run.at = "done" /\ run.out = "answer" /\ ~run.told =>
        \A w \in Windows : (w \in run.kept /\ fut[w] = "full") \/ fut[w] = "raised"

\* A process that was still starting when the server was killed has no watchdog.
Unwatched == IF server = "dead" THEN {"lost"} ELSE {}

\* A run that was started ends, and its workers with it, although they are stuck in a call,
\* crash, or start while the server goes down; and a server that is killed leaves none that
\* had started its watchdog.
RunEndsClean ==
    run.at # "idle" ~>
        /\ run.at \in {"done", "gone"}
        /\ \A p \in Workers : proc[p].at \in {"none", "gone"} \cup Unwatched
=============================================================================
