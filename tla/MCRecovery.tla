----------------------------- MODULE MCRecovery -----------------------------
(* The parts that must come back by themselves, each alone on a small instance: *)
(* the watch over IB Gateway, the link to it, a bot whose code failed, a bot whose *)
(* regime turns and the workers of a walk-forward run.  A behaviour picks one in  *)
(* its first state and keeps it.                                                *)
EXTENDS ExitsOnly

\* Of the link, the watch, the pool and the flips.
CONSTANTS
    Callers, Retries, MaxDrops,
    HealAfter, MinInterval, MaxInterval, FastAttempts, HealRealert, Realert, RegisterEvery,
    MaxWorkers, MinForPool, MaxWindows, CutEmpty,
    FlipMode, FlipOdd, MayDisturb

VARIABLES setup, gw, al, out, watched,
          link, reachable, lock, task, beat, healthy, call, drops,
          server, late, n, run, fut, proc, pool, killer

watchvars == <<gw, al, out, watched>>
linkvars == <<link, reachable, lock, task, beat, healthy, call, drops>>
jobvars == <<server, late, n, run, fut, proc, pool, killer>>
mcvars == <<setup, linkvars, watchvars, vars, jobvars>>

Link == INSTANCE IbkrLink
Watch == INSTANCE GatewayWatch WITH hist <- watched
Pool == INSTANCE WfaPool

\* Two flips: one that is stopped and crashes, while the lists at the entry are right, and
\* one left alone.
Flip == INSTANCE RegimeFlip WITH OnFlip <- FlipMode, OddAt <- FlipOdd
RightAtEntry == pc = "entry" /\ pc' = "submit" => ~odd'
LeftAlone == Flip!BrokerStep \/ Flip!Tick \/ Flip!AwaitStep

OnWatch(A) == setup = "watch" /\ A /\ UNCHANGED <<setup, linkvars, vars, jobvars>>
OnLink(A) == setup = "link" /\ A /\ UNCHANGED <<setup, watchvars, vars, jobvars>>
OnExits(A) == setup = "exits" /\ A /\ UNCHANGED <<setup, watchvars, linkvars, jobvars>>
Alone(A) == setup = "alone" /\ A /\ UNCHANGED <<setup, watchvars, linkvars, jobvars>>
OnCrashing(A) == setup = "crashing" /\ A /\ UNCHANGED <<setup, watchvars, linkvars, hist, jobvars>>
OnPool(A) == setup = "pool" /\ A /\ UNCHANGED <<setup, watchvars, linkvars, vars>>
OnRegime(A) == setup = "flip" /\ A /\ UNCHANGED <<setup, watchvars, linkvars, hist, jobvars>>

\* One state of a part is enough where it is not at work.
MCInit ==
    /\ Link!Init /\ Watch!Init /\ Pool!Init
    /\ setup \in {"watch", "link", "exits", "alone", "crashing", "flip", "pool"}
    /\ setup # "pool" => n = 1
    /\ setup # "watch" => gw = [state |-> "logged_in", api |-> TRUE]
    /\ IF setup \in {"exits", "alone"} THEN Init
       ELSE Flip!Init /\ hist = [finished |-> FALSE]

MCNext ==
    \/ OnWatch(Watch!Next) \/ OnLink(Link!Next)
    \/ OnExits(Next) \/ Alone(AloneNext)
    \/ OnCrashing(Flip!Next /\ RightAtEntry) \/ OnRegime(LeftAlone)
    \/ OnPool(Pool!Next)

SafeSpec == MCInit /\ [][MCNext]_mcvars

\* The fairness of the FairSpecs of the modules.  setup never changes, so one condition
\* can stand for one of each.
MCSpec ==
    /\ SafeSpec
    /\ WF_mcvars(OnWatch(Watch!Poll) \/ OnLink(Link!Heartbeat) \/ Alone(NewBar)
                 \/ OnRegime(Flip!NewBar) \/ OnPool(Pool!TimePasses))
    /\ WF_mcvars(OnLink(Link!HolderMoves) \/ Alone(AwaitStep) \/ OnRegime(Flip!Tick)
                 \/ OnPool(Pool!ThreadStep))
    /\ WF_mcvars(OnLink(Link!SocketCloses) \/ OnRegime(Flip!AwaitStep) \/ OnPool(Pool!CloseStep))
    /\ WF_mcvars(OnPool(Pool!WatchStep))
    /\ SF_mcvars(OnLink(Link!Acquire(Link!Beat)) \/ Alone(Fetched) \/ OnRegime(Flip!CheckHeld))
    /\ SF_mcvars(Alone(FlatListed) \/ OnRegime(Flip!CloseAccepted))
    /\ SF_mcvars(Alone(MissingListed) \/ OnRegime(Flip!Fill))

\* The properties, each where it is at work.
SentOnce == Link!SentOnce
KeepsGood == Link!KeepsGood
Reconnects == Link!Reconnects
RestartsNeverStop == setup = "watch" => Watch!RestartsGoOn
ToldInTime == Watch!ToldInTime
PausedBotIsFlat == setup \in {"exits", "alone"} => PausedIsFlat
BarCountedOnce == [][(setup \in {"exits", "alone"} => CountsOnce)]_vars
FlatBotPauses ==
    setup = "alone" /\ RunsOnFlat ~> setup = "alone" /\ bot.paused
EntersOnlyFlat == [][(setup \in {"crashing", "flip"} => Flip!OnlyFromFlat)]_vars
CutOffIsTold == setup = "pool" => Pool!CutOffIsTold
RunEndsClean ==
    setup = "pool" /\ run.at # "idle" ~>
        /\ run.at \in {"done", "gone"}
        /\ \A p \in 1..2 : proc[p].at \in {"none", "gone"} \cup Pool!Unwatched
RegimeWins ==
    <>[](setup = "flip" => mem.dir # "short") => <>[](setup = "flip" => held # "short")
=============================================================================
