--------------------------- MODULE Recovery_proofs ---------------------------
(* Proofs about the link to IB Gateway, for any number of callers, attempts and  *)
(* drops: a call puts at most one order on the socket, and no reconnect takes a  *)
(* good link down.  And about a walk-forward run, for any number of windows and  *)
(* workers: an answer that the time limit cut short says so.  And about the watch  *)
(* over the Gateway, for any intervals: one that stays stuck is reported in time. *)
(* And about a bot whose code failed: whoever finds it flat and pauses it is right, *)
(* whatever the lists at the checks leave out, whatever crashes and starts come   *)
(* between, and however a Stop in the exits-only state leaves the position.       *)
(* And about the flips of a regime bot: no entry goes out on a held position or an  *)
(* open close, whatever fails, fills late or crashes between the steps of a flip.  *)
EXTENDS MCRecovery, TLAPS

----------------------------------------------------------------------------
(* One order per call.                                                         *)

Calls == [pc : {"idle", "ensure", "try", "backoff", "failed"},
          op : {"read", "order"}, attempt : Nat, queued : Nat,
          co : {"new", "hung", "over"}, out : {"none", "ok", "err"},
          ran : Nat, sent : Nat]

\* Nothing is on the socket while the body has not begun, and a body that began is never
\* begun again.
Fit(r) == r.sent <= 1 /\ (r.co = "new" => r.sent = 0)

CallsFit ==
  /\ link \in {"up", "dead", "off"}
  /\ call \in [Callers -> Calls]
  /\ \A c \in Callers : Fit(call[c])

\* An attempt hands the same body to the loop.
LEMMA AttemptFits ==
  ASSUME NEW r \in Calls, Fit(r) PROVE Link!Attempt(r) \in Calls /\ Fit(Link!Attempt(r))
<1> DEFINE a == r.attempt + 1
           q == r.queued + 1
<1>1. a \in Nat /\ q \in Nat
  BY DEF Calls
<1>2. Link!Attempt(r) = [r EXCEPT !.pc = "try", !.attempt = a, !.queued = q, !.out = "none"]
  BY DEF Link!Attempt
<1> HIDE DEF a, q
<1>3. Link!Attempt(r) \in Calls /\ Link!Attempt(r).sent = r.sent /\ Link!Attempt(r).co = r.co
  BY <1>1, <1>2 DEF Calls
<1> QED
  BY <1>3 DEF Fit

\* The body sends at most once.
LEMMA BodyFits ==
  ASSUME NEW r \in Calls, r.sent = 0, link \in {"up", "dead", "off"}
  PROVE  Link!Body(r) \in Calls /\ Link!Body(r).sent <= 1 /\ Link!Body(r).co # "new"
<1>1. [r EXCEPT !.co = "over", !.out = "err"] \in Calls
  BY DEF Calls
<1>2. [r EXCEPT !.co = "hung"] \in Calls
  BY DEF Calls
<1>3. \A k \in Nat : [r EXCEPT !.co = "over", !.out = "ok", !.sent = k] \in Calls
  BY DEF Calls
<1>4. r.sent + 1 = 1 /\ r.op \in {"read", "order"}
  BY DEF Calls
<1>5. \/ Link!Body(r) = [r EXCEPT !.co = "over", !.out = "err"]
      \/ Link!Body(r) = [r EXCEPT !.co = "hung"]
      \/ Link!Body(r) = [r EXCEPT !.co = "over", !.out = "ok", !.sent = 1]
      \/ Link!Body(r) = [r EXCEPT !.co = "over", !.out = "ok", !.sent = 0]
  BY <1>4 DEF Link!Body
<1>6. CASE Link!Body(r) = [r EXCEPT !.co = "over", !.out = "err"]
  BY <1>1, <1>6 DEF Calls
<1>7. CASE Link!Body(r) = [r EXCEPT !.co = "hung"]
  BY <1>2, <1>7 DEF Calls
<1>8. CASE Link!Body(r) = [r EXCEPT !.co = "over", !.out = "ok", !.sent = 1]
  <2> DEFINE new == [r EXCEPT !.co = "over", !.out = "ok", !.sent = 1]
  <2>1. new \in Calls
    BY <1>3
  <2>2. new.sent = 1 /\ new.co = "over"
    BY DEF Calls
  <2> HIDE DEF new
  <2>3. Link!Body(r) = new
    BY <1>8 DEF new
  <2> QED
    BY <2>1, <2>2, <2>3
<1>9. CASE Link!Body(r) = [r EXCEPT !.co = "over", !.out = "ok", !.sent = 0]
  <2> DEFINE new == [r EXCEPT !.co = "over", !.out = "ok", !.sent = 0]
  <2>1. new \in Calls
    BY <1>3
  <2>2. new.sent = 0 /\ new.co = "over"
    BY DEF Calls
  <2> HIDE DEF new
  <2>3. Link!Body(r) = new
    BY <1>9 DEF new
  <2> QED
    BY <2>1, <2>2, <2>3
<1> QED
  BY <1>5, <1>6, <1>7, <1>8, <1>9

\* Whatever the loop does with one of its tasks, at most the first sends.
LEMMA StepFits ==
  ASSUME NEW r \in Calls, Fit(r), r.queued > 0, link \in {"up", "dead", "off"}
  PROVE  Link!Step(r) \in Calls /\ Fit(Link!Step(r))
<1> DEFINE ran == Link!Body(r).ran + 1
           after == CASE r.co = "new"  -> [Link!Body(r) EXCEPT !.ran = ran]
                      [] r.co = "hung" -> r
                      [] r.co = "over" -> [r EXCEPT !.out = "err"]
           left == after.queued - 1
           last == IF r.queued = 1 THEN after.out ELSE r.out
<1>1. after \in Calls /\ after.sent <= 1 /\ after.co # "new" /\ after.queued = r.queued
  <2>1. CASE r.co = "new"
    <3>1. Link!Body(r) \in Calls /\ Link!Body(r).sent <= 1 /\ Link!Body(r).co # "new"
      BY <2>1, BodyFits DEF Fit
    <3>2. ran \in Nat
      BY <3>1 DEF Calls
    <3>3. Link!Body(r).queued = r.queued
      BY DEF Link!Body, Calls
    <3>4. after = [Link!Body(r) EXCEPT !.ran = ran]
      BY <2>1
    <3> HIDE DEF ran, after
    <3> QED
      BY <3>1, <3>2, <3>3, <3>4 DEF Calls
  <2>2. CASE r.co = "hung"
    BY <2>2 DEF Fit
  <2>3. CASE r.co = "over"
    BY <2>3 DEF Calls, Fit
  <2> QED
    BY <2>1, <2>2, <2>3 DEF Calls
<1>2. Link!Step(r) = [after EXCEPT !.queued = left, !.out = last]
  BY DEF Link!Step
<1> HIDE DEF after
<1>3. left \in Nat /\ last \in {"none", "ok", "err"}
  BY <1>1 DEF Calls
<1> HIDE DEF left, last
<1> QED
  BY <1>1, <1>2, <1>3 DEF Calls, Fit

\* A step that changes one call, and that to a record that fits, keeps the others.
LEMMA OneCall ==
  ASSUME CallsFit, NEW c \in Callers, NEW r \in Calls, Fit(r),
         call' = [call EXCEPT ![c] = r], link' = link
  PROVE  CallsFit'
BY DEF CallsFit

LEMMA CallerFits ==
  ASSUME CallsFit, NEW c \in Callers, Link!Begin(c) \/ Link!Runs(c) PROVE CallsFit'
<1> DEFINE r == call[c]
<1>0. r \in Calls /\ Fit(r) /\ link \in {"up", "dead", "off"}
  BY DEF CallsFit
<1>1. CASE Link!Begin(c)
  <2>1. PICK op \in {"read", "order"} :
          LET fresh == [Link!Idle EXCEPT !.op = op, !.co = "new"] IN
          \/ call' = [call EXCEPT ![c] = Link!Attempt(fresh)]
          \/ call' = [call EXCEPT ![c] = [fresh EXCEPT !.pc = "ensure"]]
    BY <1>1 DEF Link!Begin
  <2> DEFINE fresh == [Link!Idle EXCEPT !.op = op, !.co = "new"]
  <2>2. fresh \in Calls /\ Fit(fresh)
    <3>1. Link!Idle \in Calls /\ Link!Idle.sent = 0
      BY DEF Link!Idle, Calls
    <3>2. op \in {"read", "order"}
      BY <2>1
    <3>3. fresh \in Calls
      BY <3>1, <3>2 DEF Calls
    <3>4. fresh.sent = 0
      BY <3>1 DEF Calls
    <3> QED
      BY <3>3, <3>4 DEF Fit
  <2>3. link' = link
    BY <1>1 DEF Link!Begin
  <2>4. CASE call' = [call EXCEPT ![c] = Link!Attempt(fresh)]
    BY <2>2, <2>3, <2>4, AttemptFits, OneCall
  <2>5. CASE call' = [call EXCEPT ![c] = [fresh EXCEPT !.pc = "ensure"]]
    <3>1. [fresh EXCEPT !.pc = "ensure"] \in Calls /\ Fit([fresh EXCEPT !.pc = "ensure"])
      BY <2>2 DEF Calls, Fit
    <3> QED
      BY <2>3, <2>5, <3>1, OneCall
  <2> QED
    BY <2>1, <2>4, <2>5
<1>2. CASE Link!Ensured(c)
  <2>1. link' = link /\ \/ call' = [call EXCEPT ![c] = Link!Attempt(r)]
                        \/ call' = [call EXCEPT ![c] = [r EXCEPT !.pc = "failed", !.co = "over"]]
    BY <1>2, <1>0 DEF Link!Ensured, CallsFit
  <2>2. /\ [r EXCEPT !.pc = "failed", !.co = "over"] \in Calls
        /\ Fit([r EXCEPT !.pc = "failed", !.co = "over"])
    BY <1>0 DEF Calls, Fit
  <2> QED
    BY <1>0, <2>1, <2>2, AttemptFits, OneCall
<1>3. CASE Link!LoopRuns(c)
  <2>1. link' = link /\ call' = [call EXCEPT ![c] = Link!Step(r)] /\ r.queued > 0
    BY <1>3 DEF Link!LoopRuns
  <2>2. Link!Step(r) \in Calls /\ Fit(Link!Step(r))
    BY <1>0, <2>1, StepFits
  <2> QED
    BY <2>1, <2>2, OneCall
<1>4. CASE Link!ReadBreaks(c)
  <2>1. /\ link' = link
        /\ call' = [call EXCEPT ![c] = [r EXCEPT !.co = "over", !.out = "err"]]
    BY <1>0, <1>4 DEF Link!ReadBreaks, CallsFit
  <2>2. /\ [r EXCEPT !.co = "over", !.out = "err"] \in Calls
        /\ Fit([r EXCEPT !.co = "over", !.out = "err"])
    BY <1>0 DEF Calls, Fit
  <2> QED
    BY <2>1, <2>2, OneCall
<1>5. CASE Link!Returns(c) \/ Link!AttemptFails(c)
  <2>1. PICK at \in {"idle", "backoff", "failed"} :
          link' = link /\ call' = [call EXCEPT ![c] = [r EXCEPT !.pc = at]]
    BY <1>0, <1>5 DEF Link!Returns, Link!AttemptFails, CallsFit
  <2>2. [r EXCEPT !.pc = at] \in Calls /\ Fit([r EXCEPT !.pc = at])
    BY <1>0 DEF Calls, Fit
  <2> QED
    BY <2>1, <2>2, OneCall
<1>6. CASE Link!Retry(c)
  <2>1. link' = link /\ call' = [call EXCEPT ![c] = Link!Attempt(r)]
    BY <1>6 DEF Link!Retry
  <2> QED
    BY <1>0, <2>1, AttemptFits, OneCall
<1> QED
  BY <1>1, <1>2, <1>3, <1>4, <1>5, <1>6 DEF Link!Runs

LEMMA OthersFit ==
  ASSUME CallsFit, (\E t \in Link!Tasks : Link!Reconnect(t)) \/ Link!Heartbeat \/ Link!Outside
  PROVE  CallsFit'
<1>1. call' = call /\ link' \in {"up", "dead", "off"}
  BY DEF CallsFit, Link!Reconnect, Link!Acquire, Link!ProbeAnswers, Link!ProbeFails, Link!Dial,
         Link!Heartbeat, Link!Ping, Link!BeatOver, Link!BeatGivesUp, Link!Outside,
         Link!GoesSilent, Link!GatewayStops, Link!GatewayStarts, Link!SocketCloses
<1> QED
  BY <1>1 DEF CallsFit

\* One call of submit_order puts at most one order on the socket, however often _run
\* times out and tries again (SentOnce).
THEOREM OneOrder == Link!Spec => []SentOnce
<1>1. Link!Init => CallsFit
  BY DEF Link!Init, CallsFit, Link!Idle, Calls, Fit
<1>2. CallsFit /\ [Link!Next]_(Link!linkVars) => CallsFit'
  <2> SUFFICES ASSUME CallsFit, [Link!Next]_(Link!linkVars) PROVE CallsFit'
    OBVIOUS
  <2>1. CASE UNCHANGED Link!linkVars
    BY <2>1 DEF CallsFit, Link!linkVars
  <2> QED
    BY <2>1, CallerFits, OthersFit DEF Link!Next
<1>3. CallsFit => SentOnce
  BY DEF CallsFit, SentOnce, Link!SentOnce, Fit
<1> QED
  BY <1>1, <1>2, <1>3, PTL DEF Link!Spec

----------------------------------------------------------------------------
(* Reconnects.                                                                 *)

\* Who probes or dials holds the lock, and who dials has found the link off: nobody else
\* can have dialled since.
Holding ==
  /\ task \in [Link!Tasks -> {"none", "wait", "probe", "dial", "ok", "err"}]
  /\ link \in {"up", "dead", "off"}
  /\ \A t \in Link!Tasks :
       /\ task[t] \in {"probe", "dial"} => lock = t
       /\ task[t] = "dial" => link = "off"

\* Tasks that neither probe nor dial after a step change nothing for the others.
LEMMA Apart ==
  ASSUME Holding, NEW t, NEW new \in {"none", "wait", "ok", "err"},
         task' = [task EXCEPT ![t] = new] \/ task' = task,
         lock' = lock \/ (lock' = Link!NoOne /\ lock = t /\ task' = [task EXCEPT ![t] = new]),
         link' = link \/ (link' # "up" /\ link' \in {"dead", "off"} /\ link # "off")
  PROVE  Holding'
BY DEF Holding

LEMMA ReconnectHolds ==
  ASSUME Link!NoOne \notin Link!Tasks, Holding, NEW t \in Link!Tasks, Link!Reconnect(t)
  PROVE  Holding'
<1>1. CASE Link!Acquire(t)
  <2>1. \A u \in Link!Tasks : task[u] \notin {"probe", "dial"}
    BY <1>1 DEF Link!Acquire, Holding
  <2> QED
    BY <1>1, <2>1 DEF Link!Acquire, Holding, Link!Connected
<1>2. CASE Link!ProbeAnswers(t)
  BY <1>2 DEF Link!ProbeAnswers, Holding
<1>3. CASE Link!ProbeFails(t)
  BY <1>3 DEF Link!ProbeFails, Holding
<1>4. CASE Link!Dial(t)
  <2>1. \A u \in Link!Tasks \ {t} : task[u] \notin {"probe", "dial"}
    BY <1>4 DEF Link!Dial, Holding
  <2> QED
    BY <1>4, <2>1 DEF Link!Dial, Holding
<1> QED
  BY <1>1, <1>2, <1>3, <1>4 DEF Link!Reconnect

LEMMA HeartbeatHolds ==
  ASSUME Holding, Link!Heartbeat PROVE Holding'
<1> Link!Beat \in Link!Tasks
  BY DEF Link!Beat, Link!Tasks
<1>1. CASE Link!Ping
  BY <1>1 DEF Link!Ping, Holding
<1>2. CASE Link!BeatOver
  BY <1>2 DEF Link!BeatOver, Holding
<1>3. CASE Link!BeatGivesUp
  BY <1>3 DEF Link!BeatGivesUp, Holding
<1> QED
  BY <1>1, <1>2, <1>3 DEF Link!Heartbeat

LEMMA CallerHolds ==
  ASSUME Holding, NEW c \in Callers, Link!Begin(c) \/ Link!Runs(c) PROVE Holding'
<1>1. /\ link' = link /\ lock' = lock
      /\ task' = task \/ \E t : task' = [task EXCEPT ![t] = "wait"]
  BY DEF Link!Begin, Link!Runs, Link!Ensured, Link!LoopRuns, Link!ReadBreaks,
         Link!Returns, Link!AttemptFails, Link!Retry
<1> QED
  BY <1>1 DEF Holding

LEMMA OutsideHolds ==
  ASSUME Holding, Link!Outside PROVE Holding'
BY DEF Holding, Link!Outside, Link!GoesSilent, Link!GatewayStops, Link!GatewayStarts, Link!SocketCloses

LEMMA HoldingHolds ==
  ASSUME Link!NoOne \notin Link!Tasks PROVE Link!Spec => []Holding
<1>1. Link!Init => Holding
  BY DEF Link!Init, Holding
<1>2. Holding /\ [Link!Next]_(Link!linkVars) => Holding'
  <2> SUFFICES ASSUME Holding, [Link!Next]_(Link!linkVars) PROVE Holding'
    OBVIOUS
  <2>1. CASE UNCHANGED Link!linkVars
    BY <2>1 DEF Holding, Link!linkVars
  <2> QED
    BY <2>1, ReconnectHolds, HeartbeatHolds, CallerHolds, OutsideHolds DEF Link!Next
<1> QED
  BY <1>1, <1>2, PTL DEF Link!Spec

\* No reconnect and no heartbeat takes down a link that answers (KeepsGood), as long as no
\* caller has the name that stands for nobody.
THEOREM GoodLinksStay ==
  ASSUME Link!NoOne \notin Link!Tasks PROVE Link!Spec => KeepsGood
<1>1. Holding /\ [Link!Next]_(Link!linkVars) =>
        [(\E t \in Link!Tasks : Link!Reconnect(t)) \/ Link!Heartbeat
           => ~(link = "up" /\ link' # "up")]_(Link!linkVars)
  <2> SUFFICES ASSUME Holding, link = "up",
                      (\E t \in Link!Tasks : Link!Reconnect(t)) \/ Link!Heartbeat
               PROVE  link' = "up"
    OBVIOUS
  <2>1. \A t \in Link!Tasks : task[t] # "dial"
    BY DEF Holding
  <2> QED
    BY <2>1 DEF Link!Reconnect, Link!Acquire, Link!ProbeAnswers, Link!ProbeFails, Link!Dial,
                Link!Heartbeat, Link!Ping, Link!BeatOver, Link!BeatGivesUp
<1> QED
  BY <1>1, HoldingHolds, PTL DEF Link!Spec, KeepsGood, Link!KeepsGood

----------------------------------------------------------------------------
(* A walk-forward run that lacks a window says so.                             *)

Stages == {"idle", "submit", "collect", "serial", "over", "done", "gone"}
Futures == {"none", "queued", "running"} \cup Pool!Ended
RunStates == [at : Stages, next : Nat \ {0}, told : BOOLEAN, seen : SUBSET Pool!Windows,
              kept : SUBSET Pool!Windows, out : {"none", "answer", "error"}]

JobsTyped ==
  /\ MaxWindows \in Nat /\ n \in 1..MaxWindows
  /\ server \in {"up", "closing", "dead"}
  /\ run \in RunStates
  /\ fut \in [1..MaxWindows -> Futures]
  /\ pool \in [procs : SUBSET Pool!Workers, shut : BOOLEAN, broken : BOOLEAN, listed : BOOLEAN]
  /\ killer \in [Pool!Killers -> [at : {"none", "snap", "shut", "kill", "done"},
                                  procs : SUBSET Pool!Workers]]

\* Nobody shuts the pool down under a run that hands windows out or collects them, and no
\* window of such a run was cancelled, or cut off with nothing to show.
Undisturbed ==
  /\ server = "up" => killer["close"].at = "none"
  /\ run.at \in {"idle", "submit", "collect", "serial"} => killer["run"].at = "none"
  /\ server = "up" /\ run.at \in {"idle", "submit", "collect"} =>
       \A w \in Pool!Windows : fut[w] \notin {"cancelled", "empty"}

Judged(w) == (w \in run.kept /\ fut[w] \in {"full", "cut"}) \/ fut[w] = "raised"

\* What was collected was judged or raised, and a run that collected all of it has all.
Collected ==
  /\ run.at \in {"idle", "submit"} => run.seen = {} /\ run.kept = {}
  /\ run.at = "idle" => run.next = 1
  /\ server = "up" /\ run.at = "collect" => \A w \in run.seen : Judged(w)
  /\ server = "up" /\ run.at = "over" /\ run.out = "answer" /\ ~run.told =>
       \A w \in Pool!Windows : Judged(w)
  /\ server = "up" /\ run.at = "serial" /\ ~run.told =>
       \A w \in Pool!Windows : w < run.next => w \in run.kept /\ fut[w] = "full"

JobsInv == JobsTyped /\ Undisturbed /\ Collected /\ Pool!CutOffIsTold

\* What a future says at its end stays.
Settled == {"full", "cut", "raised", "empty", "cancelled"}

LEMMA JobsInit ==
  ASSUME MaxWindows \in Nat, Pool!Init PROVE JobsInv
BY DEF Pool!Init, Pool!NoFut, Pool!NoPool, Pool!NoKiller, Pool!Killers, Pool!Windows, JobsInv,
       JobsTyped, RunStates, Stages, Futures, Undisturbed, Collected, Pool!CutOffIsTold

\* A step of the pool that leaves the run alone: futures move, but not those that ended,
\* and none is cancelled or cut off with nothing while the server is up.
LEMMA PoolMoves ==
  ASSUME JobsInv, run' = run, n' = n, server' = server \/ server' # "up", JobsTyped',
         \A w \in Pool!Windows : fut[w] \in Settled => fut'[w] = fut[w],
         \A w \in Pool!Windows : fut'[w] \in {"cancelled", "empty"} => fut'[w] = fut[w],
         killer' = killer
  PROVE  JobsInv'
<1>1. Pool!Windows' = Pool!Windows /\ (server' = "up" => server = "up")
  BY DEF Pool!Windows, JobsInv, JobsTyped, RunStates
<1>2. Undisturbed'
  BY <1>1 DEF JobsInv, Undisturbed
<1>3. \A w \in Pool!Windows : Judged(w) => Judged(w)'
  BY DEF Judged, Settled
<1>4. Collected'
  BY <1>1, <1>3 DEF JobsInv, JobsTyped, RunStates, Collected, Settled
<1>5. Pool!CutOffIsTold'
  BY <1>1 DEF JobsInv, Pool!CutOffIsTold, Settled
<1> QED
  BY <1>2, <1>4, <1>5 DEF JobsInv

LEMMA WorkersKeep ==
  ASSUME ~CutEmpty, JobsInv, NEW p \in Pool!Workers, Pool!WorkerStep(p) PROVE JobsInv'
<1>1. CASE UNCHANGED <<server, late, n, run, fut, pool, killer>>
  BY <1>1, PoolMoves DEF JobsInv, JobsTyped, RunStates, Pool!Windows, Pool!Workers
<1>2. CASE Pool!Take(p)
  <2>1. PICK w \in Pool!Windows : fut[w] = "queued" /\ fut' = [fut EXCEPT ![w] = "running"]
    BY <1>2 DEF Pool!Take
  <2>2. UNCHANGED <<server, n, run, pool, killer>>
    BY <1>2 DEF Pool!Take
  <2>3. JobsTyped'
    BY <2>1, <2>2 DEF JobsInv, JobsTyped, RunStates, Futures, Pool!Windows, Pool!Workers
  <2> QED
    BY <2>1, <2>2, <2>3, PoolMoves DEF JobsInv, JobsTyped, RunStates, Pool!Windows, Settled
<1>3. CASE Pool!Finish(p)
  <2>1. PICK o \in {"full", "raised", "error", "cut"} :
          fut' = [fut EXCEPT ![proc[p].w] = IF @ = "running" THEN o ELSE @]
    BY <1>3 DEF Pool!Finish
  <2>2. UNCHANGED <<server, n, run, pool, killer>>
    BY <1>3 DEF Pool!Finish
  <2>3. \A w \in 1..MaxWindows : fut'[w] = fut[w] \/ (fut[w] = "running" /\ fut'[w] = o)
    BY <2>1 DEF JobsInv, JobsTyped, RunStates
  <2>4. fut' \in [1..MaxWindows -> Futures]
    BY <2>1, <2>3 DEF JobsInv, JobsTyped, RunStates, Futures, Pool!Ended
  <2>5. JobsTyped'
    BY <2>2, <2>4 DEF JobsInv, JobsTyped, RunStates, Pool!Windows, Pool!Workers
  <2> QED
    BY <2>2, <2>3, <2>5, PoolMoves DEF JobsInv, JobsTyped, RunStates, Pool!Windows, Settled
<1> QED
  BY <1>1, <1>2, <1>3 DEF Pool!WorkerStep, Pool!Boot, Pool!Stick, Pool!Dies, Pool!Watchdog

LEMMA BreakKeeps ==
  ASSUME JobsInv, Pool!Break PROVE JobsInv'
<1>1. /\ UNCHANGED <<server, n, run, killer>> /\ pool' = [pool EXCEPT !.broken = TRUE]
      /\ fut' = [w \in DOMAIN fut |-> IF fut[w] \in {"queued", "running"} THEN "error" ELSE fut[w]]
  BY DEF Pool!Break
<1>2. JobsTyped'
  BY <1>1 DEF JobsInv, JobsTyped, RunStates, Futures, Pool!Ended, Pool!Windows, Pool!Workers
<1>3. \A w \in Pool!Windows :
         fut'[w] = IF fut[w] \in {"queued", "running"} THEN "error" ELSE fut[w]
  BY <1>1 DEF JobsInv, JobsTyped, RunStates, Pool!Windows
<1> QED
  BY <1>1, <1>2, <1>3, PoolMoves DEF Settled

\* A killer at work has its run behind it, or the server.
LEMMA KillersKeep ==
  ASSUME JobsInv, NEW k \in Pool!Killers, Pool!KillStep(k) PROVE JobsInv'
<1>1. killer[k].at \in {"snap", "shut", "kill"} /\ UNCHANGED <<server, n, run>>
  BY DEF Pool!KillStep, Pool!Snapshot, Pool!ShutDown, Pool!Kill
<1>2. \/ server # "up"
      \/ run.at \notin {"idle", "submit", "collect", "serial"} /\ killer'["close"] = killer["close"]
  BY <1>1 DEF Pool!KillStep, Pool!Snapshot, Pool!ShutDown, Pool!Kill, Pool!Killers, JobsInv,
              JobsTyped, RunStates, Undisturbed
<1>3. /\ \A i \in Pool!Killers : i # k => killer'[i] = killer[i]
      /\ killer'[k].at # "none"
  BY <1>1 DEF Pool!KillStep, Pool!Snapshot, Pool!ShutDown, Pool!Kill, JobsInv, JobsTyped, RunStates
<1>4. \A w \in 1..MaxWindows : fut'[w] = fut[w] \/ (fut[w] = "queued" /\ fut'[w] = "cancelled")
  BY DEF Pool!KillStep, Pool!Snapshot, Pool!ShutDown, Pool!Kill, JobsInv, JobsTyped, RunStates
<1>t. /\ pool \in [procs : SUBSET Pool!Workers, shut : BOOLEAN, broken : BOOLEAN, listed : BOOLEAN]
      /\ killer \in [Pool!Killers -> [at : {"none", "snap", "shut", "kill", "done"},
                                      procs : SUBSET Pool!Workers]]
  BY DEF JobsInv, JobsTyped
<1>5. JobsTyped'
  <2>1. fut' \in [1..MaxWindows -> Futures]
    BY DEF Pool!KillStep, Pool!Snapshot, Pool!ShutDown, Pool!Kill, JobsInv, JobsTyped, RunStates,
           Futures,
           Pool!Ended
  <2>2. /\ pool' \in [procs : SUBSET Pool!Workers, shut : BOOLEAN, broken : BOOLEAN,
                      listed : BOOLEAN]
        /\ killer' \in [Pool!Killers -> [at : {"none", "snap", "shut", "kill", "done"},
                                         procs : SUBSET Pool!Workers]]
    <3>1. CASE Pool!Snapshot(k)
      <4>1. /\ killer' = [killer EXCEPT ![k].at = "shut", ![k].procs = pool.procs]
            /\ pool' = pool
        BY <3>1 DEF Pool!Snapshot
      <4> QED
        BY <1>t, <4>1
    <3>2. CASE Pool!ShutDown(k)
      <4>1. /\ pool' = [pool EXCEPT !.procs = {}, !.shut = TRUE]
            /\ killer' = [killer EXCEPT ![k].at = "kill"]
        BY <3>2 DEF Pool!ShutDown
      <4>2. pool' \in [procs : SUBSET Pool!Workers, shut : BOOLEAN, broken : BOOLEAN,
                       listed : BOOLEAN]
        BY <4>1 DEF JobsInv, JobsTyped, RunStates
      <4> QED
        BY <4>1, <4>2 DEF JobsInv, JobsTyped, RunStates
    <3>3. CASE Pool!Kill(k)
      BY <3>3 DEF Pool!Kill, JobsInv, JobsTyped, RunStates
    <3> QED
      BY <3>1, <3>2, <3>3 DEF Pool!KillStep
  <2> QED
    BY <1>1, <2>1, <2>2 DEF JobsInv, JobsTyped, RunStates, Pool!Windows, Pool!Workers
<1>6. Undisturbed'
  BY <1>1, <1>2, <1>3 DEF JobsInv, JobsTyped, RunStates, Undisturbed, Pool!Killers
<1>7. \A w \in Pool!Windows : Judged(w) => Judged(w)'
  BY <1>1, <1>4 DEF Judged, Pool!Windows, JobsInv, JobsTyped, RunStates
<1>8. Collected'
  BY <1>1, <1>2, <1>7 DEF JobsInv, JobsTyped, RunStates, Collected, Pool!Windows, Judged
<1>9. Pool!CutOffIsTold'
  BY <1>1, <1>4 DEF JobsInv, JobsTyped, RunStates, Pool!CutOffIsTold, Pool!Windows
<1> QED
  BY <1>5, <1>6, <1>8, <1>9 DEF JobsInv

\* An update of the run's record keeps its type.
LEMMA RunSet ==
  ASSUME NEW r \in RunStates, NEW at \in Stages, NEW x \in Nat \ {0}, NEW told \in BOOLEAN,
         NEW seen \in SUBSET Pool!Windows, NEW kept \in SUBSET Pool!Windows,
         NEW o \in {"none", "answer", "error"}
  PROVE  [r EXCEPT !.at = at, !.next = x, !.seen = seen, !.kept = kept, !.told = told, !.out = o]
           \in RunStates
BY DEF RunStates

\* The same for a window the thread computes itself.
LEMMA SerialRun ==
  ASSUME NEW r \in RunStates, NEW x \in Nat \ {0}, NEW s \in SUBSET Pool!Windows,
         NEW k \in SUBSET Pool!Windows, NEW told \in BOOLEAN
  PROVE  [r EXCEPT !.next = x, !.told = told, !.seen = s, !.kept = k] \in RunStates
BY DEF RunStates

LEMMA ServerKeeps ==
  ASSUME JobsInv, Pool!TimePasses \/ Pool!Close \/ Pool!Exit \/ Pool!Crash PROVE JobsInv'
<1>1. CASE Pool!TimePasses
  BY <1>1, PoolMoves DEF Pool!TimePasses, JobsInv, JobsTyped, RunStates, Pool!Windows, Pool!Workers
<1>2. CASE Pool!Close
  <2>1. /\ server' = "closing" /\ UNCHANGED <<n, run, fut, pool>>
        /\ \E at \in {"snap", "done"} : killer' = [killer EXCEPT !["close"].at = at]
    BY <1>2 DEF Pool!Close
  <2>2. JobsTyped'
    <3>1. killer' \in [Pool!Killers -> [at : {"none", "snap", "shut", "kill", "done"},
                                        procs : SUBSET Pool!Workers]]
      BY <2>1 DEF JobsInv, JobsTyped, Pool!Killers
    <3>2. Pool!Windows' = Pool!Windows /\ Pool!Workers' = Pool!Workers
      BY <2>1 DEF Pool!Windows, Pool!Workers
    <3> HIDE DEF Pool!Windows, Pool!Workers, Pool!Killers
    <3> QED
      BY <2>1, <3>1, <3>2 DEF JobsInv, JobsTyped, RunStates
  <2>3. killer'["run"] = killer["run"]
    BY <2>1 DEF JobsInv, JobsTyped, RunStates, Pool!Killers
  <2> QED
    BY <2>1, <2>2, <2>3 DEF JobsInv, JobsTyped, RunStates, Undisturbed, Collected, Pool!CutOffIsTold
<1>3. CASE Pool!Dead
  <2>1. /\ server' = "dead" /\ n' = n /\ run'.at \in {"idle", "gone"}
        /\ run'.seen = {} /\ run'.kept = {} /\ run'.next = 1
        /\ fut' = Pool!NoFut /\ pool' = Pool!NoPool /\ killer' = Pool!NoKiller
    BY <1>3 DEF Pool!Dead, JobsInv, JobsTyped, RunStates
  <2>2. run' \in RunStates
    <3>1. PICK at \in Stages :
            run' = [run EXCEPT !.at = at, !.next = 1, !.seen = {}, !.kept = {}, !.told = FALSE,
                               !.out = "none"]
      BY <1>3 DEF Pool!Dead, Stages
    <3>2. FALSE \in BOOLEAN /\ 1 \in Nat \ {0} /\ {} \in SUBSET Pool!Windows
      OBVIOUS
    <3> QED
      BY <3>1, <3>2, RunSet DEF JobsInv, JobsTyped
  <2>3. JobsTyped'
    BY <2>1, <2>2 DEF JobsInv, JobsTyped, RunStates,
           Futures, Pool!Windows, Pool!Workers, Pool!Killers,
                      Pool!NoFut, Pool!NoPool, Pool!NoKiller
  <2> QED
    BY <2>1, <2>3 DEF JobsInv, Undisturbed, Collected, Pool!CutOffIsTold, Pool!NoKiller,
                      Pool!Killers
<1> QED
  BY <1>1, <1>2, <1>3 DEF Pool!Exit, Pool!Crash

\* A step of the run's own thread that leaves the futures alone.
LEMMA ThreadMoves ==
  ASSUME JobsInv, UNCHANGED <<server, n, fut>>,
         run' \in RunStates,
         pool' = pool \/ \E b \in BOOLEAN : pool' = [pool EXCEPT !.listed = b],
         killer' = killer \/ (run'.at \in {"over", "done"}
                                /\ killer' = [killer EXCEPT !["run"].at = "snap"]),
         run'.at \in {"idle", "submit", "collect", "serial"}
           => run.at \in {"idle", "submit", "collect", "serial"},
         run'.at \in {"idle", "submit", "collect"} => run.at \in {"idle", "submit", "collect"},
         Collected', Pool!CutOffIsTold'
  PROVE  JobsInv'
<1>1. JobsTyped'
  BY DEF JobsInv, JobsTyped, RunStates, Pool!Windows, Pool!Workers, Pool!Killers
<1>2. killer'["close"] = killer["close"] /\ (killer'["run"] = killer["run"] \/ killer' # killer)
  BY DEF JobsInv, JobsTyped, RunStates, Pool!Killers
<1>3. Undisturbed'
  BY <1>2 DEF JobsInv, Undisturbed, Pool!Windows
<1> QED
  BY <1>1, <1>3 DEF JobsInv

\* The answer names what it lacks, or says that it was cut off.
LEMMA AnswersTold ==
  ASSUME JobsInv, NEW told \in BOOLEAN, Pool!Answers(told), UNCHANGED <<server, n, fut, killer>>,
         pool' = pool \/ \E b \in BOOLEAN : pool' = [pool EXCEPT !.listed = b],
         server = "up" /\ ~told => \A w \in Pool!Windows : Judged(w)
  PROVE  JobsInv'
<1> DEFINE cut == \E w \in run.kept : fut[w] = "cut"
           left == {w \in run.kept : fut[w] # "cut"}
<1>1. run' = [run EXCEPT !.at = "done", !.out = "answer", !.told = told \/ cut, !.kept = left]
  BY DEF Pool!Answers
<1>2. (told \/ cut) \in BOOLEAN /\ left \subseteq run.kept
  OBVIOUS
<1>3. ~(told \/ cut) => left = run.kept /\ \A w \in run.kept : fut[w] # "cut"
  OBVIOUS
<1> HIDE DEF cut, left
<1>4. /\ run' \in RunStates
      /\ run'.at = "done" /\ (run'.told <=> (told \/ cut)) /\ run'.kept = left
  BY <1>1, <1>2 DEF JobsInv, JobsTyped, RunStates, Stages
<1>5. Pool!CutOffIsTold'
  BY <1>3, <1>4 DEF Pool!CutOffIsTold, Judged, Pool!Windows
<1>6. Collected'
  BY <1>4 DEF Collected
<1> QED
  BY <1>4, <1>5, <1>6, ThreadMoves

\* The thread begins, hands out, and has handed out.
LEMMA SubmitKeeps ==
  ASSUME JobsInv, Pool!Begin \/ Pool!Submit \/ Pool!Submitted PROVE JobsInv'
<1>1. CASE Pool!Begin
  <2>1. CASE late
    BY <1>1, <2>1, AnswersTold DEF Pool!Begin
  <2>2. CASE ~late
    <3>1. PICK at \in {"serial", "submit"} : run' = [run EXCEPT !.at = at]
      BY <1>1, <2>2 DEF Pool!Begin
    <3>2. /\ run.at = "idle" /\ UNCHANGED <<server, n, fut, killer>>
          /\ pool' = pool \/ pool' = [pool EXCEPT !.listed = TRUE]
      BY <1>1, <2>2 DEF Pool!Begin
    <3>3. run.next = 1 /\ run'.next = 1 /\ run'.at = at /\ run'.seen = {} /\ run'.kept = {}
      BY <3>1, <3>2 DEF JobsInv, JobsTyped, RunStates, Collected
    <3>4. \A w \in Pool!Windows : ~(w < 1)
      BY DEF Pool!Windows, JobsInv, JobsTyped
    <3>5. Collected'
      BY <3>1, <3>2, <3>3, <3>4 DEF Collected, Pool!Windows
    <3> QED
      BY <3>1, <3>2, <3>5, ThreadMoves DEF JobsInv, JobsTyped, RunStates, Stages, Pool!CutOffIsTold
  <2> QED
    BY <2>1, <2>2
<1>2. CASE Pool!Submit
  <2>1. CASE pool.shut \/ pool.broken
    <3>1. /\ run.at = "submit" /\ UNCHANGED <<server, n, fut, pool>>
          /\ run' = [run EXCEPT !.at = "over", !.out = "error"]
          /\ killer' = [killer EXCEPT !["run"].at = "snap"]
      BY <1>2, <2>1 DEF Pool!Submit, Pool!Leaves
    <3> QED
      BY <3>1, ThreadMoves DEF JobsInv, JobsTyped, RunStates, Stages, Collected, Pool!CutOffIsTold
  <2>2. CASE ~(pool.shut \/ pool.broken)
    <3>1. /\ run.at = "submit" /\ UNCHANGED <<server, n, killer>>
          /\ fut' = [fut EXCEPT ![run.next] = "queued"]
          /\ run' = [run EXCEPT !.next = @ + 1]
          /\ pool' = pool \/ \E p \in Pool!Workers : pool' = [pool EXCEPT !.procs = @ \cup {p}]
      BY <1>2, <2>2 DEF Pool!Submit
    <3>2. run' \in RunStates
      <4>1. run \in RunStates /\ run.next + 1 \in Nat \ {0}
        BY DEF JobsInv, JobsTyped, RunStates
      <4> QED
        BY <3>1, <4>1 DEF RunStates
    <3>3. pool' \in [procs : SUBSET Pool!Workers, shut : BOOLEAN, broken : BOOLEAN,
                     listed : BOOLEAN]
      BY <3>1 DEF JobsInv, JobsTyped, RunStates
    <3>4. \A w \in 1..MaxWindows : fut'[w] \in {fut[w], "queued"}
      BY <3>1 DEF JobsInv, JobsTyped, RunStates
    <3>5. JobsTyped'
      BY <3>1, <3>2, <3>3, <3>4 DEF JobsInv, JobsTyped, RunStates,
             Futures, Pool!Windows, Pool!Workers
    <3>6. run'.at = "submit" /\ run'.seen = run.seen /\ run'.kept = run.kept
      BY <3>1 DEF JobsInv, JobsTyped, RunStates
    <3> QED
      BY <3>1, <3>4, <3>5, <3>6 DEF JobsInv, JobsTyped, RunStates, Undisturbed, Collected,
                                    Pool!CutOffIsTold, Pool!Windows
  <2> QED
    BY <2>1, <2>2
<1>3. CASE Pool!Submitted
  <2>1. run.at = "submit" /\ UNCHANGED <<server, n, fut, pool>>
    BY <1>3 DEF Pool!Submitted
  <2>2. CASE late
    <3>1. /\ run' = [run EXCEPT !.at = "over", !.told = TRUE, !.out = "answer"]
          /\ killer' = [killer EXCEPT !["run"].at = "snap"]
      BY <1>3, <2>2 DEF Pool!Submitted
    <3> QED
      BY <2>1, <3>1, ThreadMoves DEF JobsInv, JobsTyped, RunStates, Stages,
             Collected, Pool!CutOffIsTold
  <2>3. CASE ~late
    <3>1. run' = [run EXCEPT !.at = "collect"] /\ killer' = killer
      BY <1>3, <2>3 DEF Pool!Submitted
    <3> QED
      BY <2>1, <3>1, ThreadMoves DEF JobsInv, JobsTyped, RunStates, Stages,
             Collected, Pool!CutOffIsTold
  <2> QED
    BY <2>2, <2>3
<1> QED
  BY <1>1, <1>2, <1>3

\* The thread collects.
LEMMA CollectKeeps ==
  ASSUME JobsInv, Pool!Collect \/ Pool!AllSeen \/ Pool!TimeUp \/ Pool!Return PROVE JobsInv'
<1>1. CASE Pool!Collect
  <2> DEFINE ended == {w \in Pool!Windows \ run.seen : fut[w] \in Pool!Ended}
             good == {w \in ended : fut[w] \in {"full", "cut", "empty"}}
  <2>1. run.at = "collect" /\ UNCHANGED <<server, n, fut, pool>>
    BY <1>1 DEF Pool!Collect
  <2>2. CASE \E w \in ended : fut[w] = "error"
    <3>1. /\ run' = [run EXCEPT !.at = "over", !.out = "error"]
          /\ killer' = [killer EXCEPT !["run"].at = "snap"]
      BY <1>1, <2>2 DEF Pool!Collect, Pool!Leaves
    <3> QED
      BY <2>1, <3>1, ThreadMoves DEF JobsInv, JobsTyped, RunStates, Stages,
             Collected, Pool!CutOffIsTold
  <2>3. CASE ~ \E w \in ended : fut[w] = "error"
    <3>1. run' = [run EXCEPT !.seen = @ \cup ended, !.kept = @ \cup good] /\ killer' = killer
      BY <1>1, <2>3 DEF Pool!Collect
    <3>2. ended \subseteq Pool!Windows /\ good \subseteq Pool!Windows
      OBVIOUS
    <3>3. server = "up" => \A w \in ended : (w \in good /\ fut[w] \in {"full", "cut"})
                                            \/ fut[w] = "raised"
      BY <2>1, <2>3 DEF JobsInv, Undisturbed, Pool!Ended
    <3> HIDE DEF ended, good
    <3>4. /\ run' \in RunStates
          /\ run'.at = "collect" /\ run'.seen = run.seen \cup ended
          /\ run'.kept = run.kept \cup good
      BY <2>1, <3>1, <3>2 DEF JobsInv, JobsTyped, RunStates, Stages
    <3>5. server = "up" => \A w \in run.seen : Judged(w)
      BY <2>1 DEF JobsInv, Collected
    <3>6. Collected'
      BY <2>1, <3>3, <3>4, <3>5 DEF Collected, Judged
    <3> QED
      BY <2>1, <3>1, <3>4, <3>6, ThreadMoves DEF Pool!CutOffIsTold
  <2> QED
    BY <2>2, <2>3
<1>2. CASE Pool!AllSeen
  <2>1. /\ run.at = "collect" /\ run.seen = Pool!Windows /\ UNCHANGED <<server, n, fut, pool>>
        /\ run' = [run EXCEPT !.at = "over", !.out = "answer"]
        /\ killer' = [killer EXCEPT !["run"].at = "snap"]
    BY <1>2 DEF Pool!AllSeen, Pool!Leaves
  <2>2. /\ run' \in RunStates
        /\ run'.at = "over" /\ run'.kept = run.kept
    BY <2>1 DEF JobsInv, JobsTyped, RunStates, Stages
  <2>3. Collected'
    BY <2>1, <2>2 DEF JobsInv, Collected, Judged, Pool!Windows
  <2> QED
    BY <2>1, <2>2, <2>3, ThreadMoves DEF Pool!CutOffIsTold
<1>3. CASE Pool!TimeUp
  <2>1. /\ run.at = "collect" /\ UNCHANGED <<server, n, fut, pool>>
        /\ run' = [run EXCEPT !.at = "over", !.told = TRUE, !.out = "answer"]
        /\ killer' = [killer EXCEPT !["run"].at = "snap"]
    BY <1>3 DEF Pool!TimeUp
  <2> QED
    BY <2>1, ThreadMoves DEF JobsInv, JobsTyped, RunStates, Stages, Collected, Pool!CutOffIsTold
<1>4. CASE Pool!Return
  <2>1. run.at = "over" /\ UNCHANGED <<server, n, fut, pool, killer>>
    BY <1>4 DEF Pool!Return
  <2>2. CASE run.out = "answer"
    <3>1. Pool!Answers(run.told) /\ run.told \in BOOLEAN
      BY <1>4, <2>2 DEF Pool!Return, JobsInv, JobsTyped, RunStates
    <3>2. server = "up" /\ ~run.told => \A w \in Pool!Windows : Judged(w)
      BY <2>1, <2>2 DEF JobsInv, Collected
    <3> QED
      BY <2>1, <3>1, <3>2, AnswersTold
  <2>3. CASE run.out # "answer"
    <3>1. run' = [run EXCEPT !.at = "done"]
      BY <1>4, <2>3 DEF Pool!Return
    <3> QED
      BY <2>1, <2>3, <3>1, ThreadMoves DEF JobsInv, JobsTyped, RunStates, Stages, Collected,
                                           Pool!CutOffIsTold
  <2> QED
    BY <2>2, <2>3
<1> QED
  BY <1>1, <1>2, <1>3, <1>4

\* A small run in the thread itself.
LEMMA SerialKeeps ==
  ASSUME JobsInv, Pool!Serial \/ Pool!SerialEnds PROVE JobsInv'
<1>1. run.at = "serial" /\ UNCHANGED <<server, n, pool, killer>>
  BY DEF Pool!Serial, Pool!SerialEnds
<1>2. CASE Pool!Serial /\ late
  BY <1>1, <1>2, AnswersTold DEF Pool!Serial
<1>3. CASE Pool!Serial /\ ~late
  <2>1. PICK o \in {"full", "cut", "empty", "error"} :
          /\ fut' = [fut EXCEPT ![run.next] = o]
          /\ run' = IF o = "error" THEN [run EXCEPT !.at = "done", !.out = "error"]
                    ELSE [run EXCEPT !.next = @ + 1, !.seen = @ \cup {run.next},
                            !.kept = @ \cup {run.next}, !.told = @ \/ o \in {"cut", "empty"}]
    BY <1>3 DEF Pool!Serial
  <2>2. run.next \in Pool!Windows
    BY <1>3 DEF Pool!Serial, JobsInv, JobsTyped, RunStates, Pool!Windows
  <2>3. fut' \in [1..MaxWindows -> Futures]
    BY <2>1 DEF JobsInv, JobsTyped, RunStates, Futures, Pool!Ended
  <2>4. CASE o = "error"
    <3>1. run' = [run EXCEPT !.at = "done", !.out = "error"]
      BY <2>1, <2>4
    <3>2. /\ run' \in RunStates
          /\ run'.at = "done" /\ run'.out = "error"
      BY <3>1 DEF JobsInv, JobsTyped, RunStates, Stages
    <3>3. JobsTyped'
      BY <1>1, <2>3, <3>2 DEF JobsInv, JobsTyped, RunStates, Pool!Windows, Pool!Workers
    <3> QED
      BY <1>1, <3>2, <3>3 DEF JobsInv, Undisturbed, Collected, Pool!CutOffIsTold
  <2>5. CASE o # "error"
    <3> DEFINE bad == o \in {"cut", "empty"}
    <3>1. run' = [run EXCEPT !.next = @ + 1, !.seen = @ \cup {run.next},
                            !.kept = @ \cup {run.next}, !.told = @ \/ bad]
      BY <2>1, <2>5
    <3>2. (run.told \/ bad) \in BOOLEAN /\ (~bad => o = "full")
      BY <2>5
    <3> HIDE DEF bad
    <3>3. /\ run' \in RunStates
          /\ run'.at = "serial" /\ run'.next = run.next + 1
          /\ run'.kept = run.kept \cup {run.next}
      <4>1. /\ run.next + 1 \in Nat \ {0} /\ run.kept \cup {run.next} \in SUBSET Pool!Windows
            /\ run.seen \cup {run.next} \in SUBSET Pool!Windows /\ run \in RunStates
        BY <2>2 DEF JobsInv, JobsTyped, RunStates
      <4>2. run' = [run EXCEPT !.next = run.next + 1, !.seen = run.seen \cup {run.next},
                            !.kept = run.kept \cup {run.next}, !.told = run.told \/ bad]
        BY <3>1
      <4> DEFINE told == run.told \/ bad
      <4>3. told \in BOOLEAN /\ run' = [run EXCEPT !.next = run.next + 1, !.told = told,
                   !.seen = run.seen \cup {run.next}, !.kept = run.kept \cup {run.next}]
        BY <3>2, <4>2
      <4> HIDE DEF told
      <4>4. run' \in RunStates
        <5> DEFINE x == run.next + 1
                   s == run.seen \cup {run.next}
                   k == run.kept \cup {run.next}
        <5>1. /\ x \in Nat \ {0} /\ s \in SUBSET Pool!Windows /\ k \in SUBSET Pool!Windows
              /\ run' = [run EXCEPT !.next = x, !.told = told, !.seen = s, !.kept = k]
          BY <4>1, <4>3
        <5> HIDE DEF x, s, k
        <5>2. run \in RunStates /\ told \in BOOLEAN
          BY <4>1, <4>3
        <5>3. [run EXCEPT !.next = x, !.told = told, !.seen = s, !.kept = k] \in RunStates
          BY <5>1, <5>2, SerialRun, Zenon
        <5> QED
          BY <5>1, <5>3
      <4> QED
        BY <1>1, <4>1, <4>2, <4>4 DEF RunStates
    <3>4. run'.told = (run.told \/ bad)
      BY <3>1 DEF JobsInv, JobsTyped, RunStates
    <3>5. JobsTyped'
      BY <1>1, <2>3, <3>3 DEF JobsInv, JobsTyped, RunStates, Pool!Windows, Pool!Workers
    <3>6. ~run'.told => ~run.told /\ o = "full"
      BY <3>2, <3>4
    <3>7. fut'[run.next] = o /\ \A w \in Pool!Windows : w # run.next => fut'[w] = fut[w]
      BY <2>1, <2>2 DEF JobsInv, JobsTyped, RunStates, Pool!Windows
    <3>8. \A w \in Pool!Windows : w < run'.next => w < run.next \/ w = run.next
      BY <3>3 DEF JobsInv, JobsTyped, RunStates, Pool!Windows
    <3>9. Collected'
      BY <1>1, <3>3, <3>6, <3>7, <3>8 DEF JobsInv, Collected, Pool!Windows
    <3> QED
      BY <1>1, <3>3, <3>5, <3>9 DEF JobsInv, Undisturbed, Pool!CutOffIsTold
  <2> QED
    BY <2>4, <2>5
<1>4. CASE Pool!SerialEnds
  <2>1. server = "up" /\ ~run.told => \A w \in Pool!Windows : Judged(w)
    BY <1>4 DEF Pool!SerialEnds, JobsInv, JobsTyped, RunStates, Collected, Judged, Pool!Windows
  <2>2. run.told \in BOOLEAN
    BY DEF JobsInv, JobsTyped, RunStates
  <2> QED
    BY <1>1, <1>4, <2>1, <2>2, AnswersTold DEF Pool!SerialEnds
<1> QED
  BY <1>2, <1>3, <1>4

\* The answer of a walk-forward run that lacks a window, or judges one on a part of its
\* grid, because the time ran out says so, however the workers crash, hang and are ended
\* (CutOffIsTold; wfa_pool.py run_windows_parallel, _run_windows_serial, timed_out).  A grid
\* that is cut off before any of its combinations worked is left out: TLC shows that the
\* answer is silent about it.
THEOREM CutOffsTold ==
  ASSUME MaxWindows \in Nat, ~CutEmpty PROVE Pool!Spec => []CutOffIsTold
<1>1. JobsInv /\ [Pool!Next]_(Pool!vars) => JobsInv'
  <2> SUFFICES ASSUME JobsInv, [Pool!Next]_(Pool!vars) PROVE JobsInv'
    OBVIOUS
  <2>1. CASE UNCHANGED Pool!vars
    BY <2>1, PoolMoves DEF Pool!vars, JobsInv, JobsTyped, RunStates, Pool!Windows, Pool!Workers
  <2> QED
    BY <2>1, SubmitKeeps, CollectKeeps, SerialKeeps, BreakKeeps, KillersKeep, WorkersKeep,
       ServerKeeps DEF Pool!Next, Pool!RunStep
<1>2. JobsInv => CutOffIsTold
  BY DEF JobsInv, CutOffIsTold
<1> QED
  BY <1>1, <1>2, JobsInit, PTL DEF Pool!Spec

----------------------------------------------------------------------------
(* A Gateway that stays stuck is reported in time.                             *)

WatchAssumption ==
  /\ HealAfter \in Nat /\ FastAttempts \in Nat /\ HealRealert \in Nat
  /\ Realert \in Nat /\ RegisterEvery \in Nat
  /\ MinInterval \in Nat \ {0} /\ MaxInterval \in Nat /\ MinInterval < MaxInterval

Bound == HealAfter + (FastAttempts + 1) * MinInterval

\* How long the restarts that are still due before the alert take after the last one, with
\* the time the last of them is given.
Left(attempts) ==
  IF attempts < FastAttempts THEN (FastAttempts - attempts + 1) * MinInterval ELSE MinInterval

\* As long as nobody is told of a state that a restart should cure, the time it has lasted
\* is the time it is left to cure itself, or leaves enough for the restarts still due.
OnTime ==
  watched.stuck > 0 /\ ~al.alerted =>
    /\ al.stuck # -1 /\ watched.stuck <= Bound
    /\ al.stuck < HealAfter => watched.stuck <= al.stuck + 1
    /\ al.stuck = HealAfter => /\ al.heal < MinInterval
                               /\ watched.stuck + Left(al.attempts) - al.heal - 1 <= Bound

WatchInv == Watch!TypeOK /\ watched.told = al.alerted /\ OnTime

LEMMA LeftSteps ==
  ASSUME WatchAssumption, NEW a \in Nat
  PROVE  /\ Left(a) \in Nat /\ Left(a) >= MinInterval
         /\ Left(a) <= (FastAttempts + 1) * MinInterval
         /\ a < FastAttempts => Left(a) = Left(a + 1) + MinInterval
         /\ a >= FastAttempts => Left(a) = MinInterval
         /\ Bound \in Nat /\ Bound = HealAfter + (FastAttempts + 1) * MinInterval
<1>1. \A x, m \in Nat : (x + 1) * m = x * m + m /\ x * m \in Nat
  OBVIOUS
<1>2. (FastAttempts + 1) * MinInterval = FastAttempts * MinInterval + MinInterval
  BY <1>1 DEF WatchAssumption
<1>3. FastAttempts * MinInterval \in Nat
  BY <1>1 DEF WatchAssumption
<1>4. CASE a < FastAttempts
  <2> DEFINE d == FastAttempts - a - 1
  <2>1. d \in Nat /\ FastAttempts = d + 1 + a /\ FastAttempts - a + 1 = d + 1 + 1
    BY <1>4 DEF WatchAssumption
  <2> HIDE DEF d
  <2>2. /\ (d + 1 + 1) * MinInterval = d * MinInterval + MinInterval + MinInterval
        /\ (d + 1) * MinInterval = d * MinInterval + MinInterval
        /\ (d + 1 + a) * MinInterval = d * MinInterval + MinInterval + a * MinInterval
        /\ d * MinInterval \in Nat /\ a * MinInterval \in Nat
    BY <2>1 DEF WatchAssumption
  <2>3. Left(a) = d * MinInterval + MinInterval + MinInterval
    BY <1>4, <2>1, <2>2 DEF Left
  <2>4. Left(a + 1) = d * MinInterval + MinInterval
    <3>1. CASE a + 1 < FastAttempts
      <4>1. FastAttempts - (a + 1) + 1 = d + 1
        BY <2>1
      <4> QED
        BY <3>1, <4>1, <2>2 DEF Left
    <3>2. CASE ~(a + 1 < FastAttempts)
      <4>1. d = 0
        BY <2>1, <3>2
      <4>2. 0 * MinInterval = 0
        BY DEF WatchAssumption
      <4> QED
        BY <3>2, <4>1, <4>2 DEF Left, WatchAssumption
    <3> QED
      BY <3>1, <3>2
  <2>5. FastAttempts * MinInterval = d * MinInterval + MinInterval + a * MinInterval
    BY <2>1, <2>2
  <2> QED
    BY <1>2, <1>3, <1>4, <2>2, <2>3, <2>4, <2>5 DEF WatchAssumption, Bound
<1>5. CASE ~(a < FastAttempts)
  BY <1>2, <1>3, <1>5 DEF WatchAssumption, Bound, Left
<1> QED
  BY <1>4, <1>5

\* After the fast restarts the gap is longer.
LEMMA IntervalGrows ==
  ASSUME WatchAssumption, NEW a \in 0..Watch!AttemptCap
  PROVE  /\ a < FastAttempts => Watch!Interval(a) = MinInterval
         /\ a >= FastAttempts => Watch!Interval(a) > MinInterval /\ Watch!Interval(a) \in Nat
<1>1. a < FastAttempts => Watch!Interval(a) = MinInterval
  BY DEF Watch!Interval
<1>2. ASSUME a >= FastAttempts
      PROVE  Watch!Interval(a) > MinInterval /\ Watch!Interval(a) \in Nat
  <2> DEFINE d == Watch!Capped(a - FastAttempts + 1, 8)
  <2>1. d \in 1..8
    BY <1>2 DEF Watch!Capped, Watch!AttemptCap, WatchAssumption
  <2>2. Watch!Interval(a) = Watch!Capped(MinInterval * 2^d, MaxInterval)
    BY <1>2 DEF Watch!Interval, WatchAssumption, Watch!AttemptCap
  <2> HIDE DEF d
  <2>3. 2^d \in Nat /\ 2^d >= 2
    <3>1. \/ d = 1 \/ d = 2 \/ d = 3 \/ d = 4 \/ d = 5 \/ d = 6 \/ d = 7 \/ d = 8
      BY <2>1
    <3>2. /\ 2^1 = 2 /\ 2^2 = 4 /\ 2^3 = 8 /\ 2^4 = 16
          /\ 2^5 = 32 /\ 2^6 = 64 /\ 2^7 = 128 /\ 2^8 = 256
      OBVIOUS
    <3>3. 2^d \in {2^1, 2^2, 2^3, 2^4, 2^5, 2^6, 2^7, 2^8}
      BY <3>1, Zenon
    <3>4. 2^d \in {2, 4, 8, 16, 32, 64, 128, 256}
      BY <3>2, <3>3, Zenon
    <3> DEFINE p == 2^d
    <3> HIDE DEF p
    <3>5. p \in {2, 4, 8, 16, 32, 64, 128, 256} => p \in Nat /\ p >= 2
      OBVIOUS
    <3> QED
      BY <3>4, <3>5 DEF p
  <2> DEFINE p == 2^d
  <2>4. p \in Nat /\ p >= 2 /\ Watch!Interval(a) = Watch!Capped(MinInterval * p, MaxInterval)
    BY <2>2, <2>3
  <2> HIDE DEF p
  <2>5. MinInterval * p >= MinInterval * 2 /\ MinInterval * p \in Nat
    BY <2>4 DEF WatchAssumption
  <2> QED
    BY <2>4, <2>5 DEF Watch!Capped, WatchAssumption
<1> QED
  BY <1>1, <1>2

\* A poll of a stuck Gateway takes one poll off what is left.
LEMMA HealingKeeps ==
  ASSUME WatchAssumption, WatchInv, Watch!TypeOK', gw.state \in Watch!HealStates,
         Watch!Healing(Watch!Aged(al)), Watch!Recorded
  PROVE  OnTime'
<1> DEFINE a == Watch!Aged(al)
           s == IF al.stuck = -1 THEN 0 ELSE Watch!Capped(al.stuck + 1, HealAfter)
           t == IF al.stuck = -1 THEN 0 ELSE al.attempts
           h == Watch!Capped(al.heal + 1, MaxInterval)
           due == s >= HealAfter /\ h >= Watch!Interval(t)
<1>1. /\ al.stuck \in {-1} \cup 0..HealAfter /\ al.attempts \in 0..Watch!AttemptCap
      /\ al.heal \in 0..MaxInterval /\ al.alerted \in BOOLEAN /\ watched.stuck \in Nat
  BY DEF WatchInv, Watch!TypeOK
<1>2. CASE gw.state = "down" /\ ~al.ever
  BY <1>2 DEF Watch!Recorded, OnTime
<1>3. CASE ~(gw.state = "down" /\ ~al.ever)
  <2> SUFFICES ASSUME ~al'.alerted PROVE OnTime'
    BY DEF OnTime
  <2> DEFINE b0 == Watch!Stuck(a)
             b == Watch!Healed(b0)
  <2>1. /\ a.stuck = (IF al.stuck = -1 THEN -1 ELSE s) /\ a.attempts = al.attempts
        /\ a.heal = h /\ a.ever = al.ever /\ a.alerted = al.alerted
    BY DEF Watch!Aged, WatchInv, Watch!TypeOK
  <2>2. /\ b0.stuck = s /\ b0.attempts = t /\ b0.heal = h /\ b0.alerted = al.alerted
    BY <1>1 DEF Watch!Aged, Watch!Stuck, WatchInv, Watch!TypeOK, Watch!Capped, WatchAssumption
  <2>3. /\ b.stuck = s /\ b.alerted = al.alerted
        /\ b.attempts = (IF due THEN Watch!Capped(t + 1, Watch!AttemptCap) ELSE t)
        /\ b.heal = (IF due THEN 0 ELSE h)
    <3>1. Watch!RestartDue(b0) <=> due
      BY <2>2 DEF Watch!RestartDue
    <3>2. CASE due
      <4>1. b = [b0 EXCEPT !.attempts = Watch!Capped(@ + 1, Watch!AttemptCap), !.heal = 0]
        BY <3>1, <3>2 DEF Watch!Healed
      <4>2. DOMAIN b0 = {"last", "ever", "stuck", "attempts", "heal", "alert", "register", "alerted"}
        BY <1>1 DEF Watch!Aged, Watch!Stuck, WatchInv, Watch!TypeOK
      <4> HIDE DEF b, b0, due, s, t, h
      <4> QED
        BY <2>2, <3>2, <4>1, <4>2
    <3>3. CASE ~due
      BY <2>2, <3>1, <3>3 DEF Watch!Healed
    <3> QED
      BY <3>2, <3>3
  <2> DEFINE fire == ~Watch!Suppressed(b) /\ (~b.alerted \/ b.alert >= HealRealert)
             c == IF fire THEN Watch!Alerted(b) ELSE b
  <2>4. al' = [c EXCEPT !.last = gw.state]
    <3>1. ~(gw.state = "down" /\ ~a.ever)
      BY <1>3, <2>1
    <3> QED
      BY <3>1 DEF Watch!Healing
  <2>5. DOMAIN b = {"last", "ever", "stuck", "attempts", "heal", "alert", "register", "alerted"}
    BY <1>1 DEF Watch!Aged, Watch!Stuck, Watch!Healed, WatchInv, Watch!TypeOK
  <2> HIDE DEF b0
  <2>6. ~fire
    <3>1. SUFFICES ASSUME fire PROVE FALSE
      OBVIOUS
    <3>2. al' = [Watch!Alerted(b) EXCEPT !.last = gw.state]
      BY <2>4, <3>1
    <3> HIDE DEF b
    <3>3. al'.alerted = TRUE
      BY <2>5, <3>2 DEF Watch!Alerted
    <3> QED
      BY <3>3
  <2>7. /\ al'.stuck = s /\ al'.attempts = b.attempts /\ al'.heal = b.heal
        /\ al'.alerted = b.alerted
    <3>1. al' = [b EXCEPT !.last = gw.state]
      BY <2>4, <2>6
    <3> HIDE DEF b
    <3> QED
      BY <2>3, <2>5, <3>1
  <2>8. ~al.alerted /\ (b.attempts < FastAttempts \/ b.heal < MinInterval)
    <3>1. ~b.alerted /\ ~al.alerted
      BY <2>3, <2>7
    <3> HIDE DEF b
    <3> QED
      BY <2>6, <3>1 DEF Watch!Suppressed
  <2>9. watched'.stuck = (IF watched.stuck < Bound + 1 THEN watched.stuck + 1 ELSE Bound + 1)
    <3>1. gw.state \in Watch!HealStates /\ (al.ever \/ gw.state # "down")
      BY <1>3, Zenon
    <3>2. watched'.stuck = Watch!Capped(watched.stuck + 1,
                             HealAfter + (FastAttempts + 1) * MinInterval + 1)
      BY <3>1 DEF Watch!Recorded
    <3>3. Bound \in Nat
      BY LeftSteps
    <3> QED
      BY <1>1, <3>2, <3>3 DEF Watch!Capped, Bound
  <2>10. t \in 0..Watch!AttemptCap /\ s \in 0..HealAfter /\ h \in 0..MaxInterval
    BY <1>1 DEF Watch!Capped, WatchAssumption, Watch!AttemptCap
  <2> DEFINE u == b.attempts
             g == b.heal
  <2>11. /\ s = IF al.stuck = -1 THEN 0 ELSE IF al.stuck < HealAfter THEN al.stuck + 1 ELSE HealAfter
         /\ h = IF al.heal < MaxInterval THEN al.heal + 1 ELSE MaxInterval
         /\ u = IF due THEN Watch!Capped(t + 1, Watch!AttemptCap) ELSE t
         /\ g = IF due THEN 0 ELSE h
    BY <1>1, <2>3 DEF Watch!Capped, WatchAssumption
  <2>12. /\ due => s = HealAfter
         /\ t < FastAttempts /\ s = HealAfter => (due <=> h >= MinInterval)
         /\ t >= FastAttempts /\ due => h > MinInterval
    BY <2>10, IntervalGrows DEF WatchAssumption, Watch!AttemptCap
  <2> HIDE DEF a, b, due, s, t, h, u, g
  <2>13. u \in Nat /\ (t < FastAttempts /\ due => u = t + 1)
         /\ (t >= FastAttempts => u >= FastAttempts) /\ (~due => u = t)
    BY <2>10, <2>11 DEF Watch!Capped, Watch!AttemptCap, WatchAssumption
  <2>14. /\ Left(u) \in Nat /\ Left(u) >= MinInterval /\ Left(t) \in Nat /\ Bound \in Nat
         /\ HealAfter + Left(u) <= Bound /\ HealAfter + Left(t) <= Bound /\ HealAfter + MinInterval <= Bound
         /\ t < FastAttempts /\ due => Left(t) = Left(u) + MinInterval
         /\ t >= FastAttempts => Left(u) = MinInterval /\ Left(t) = MinInterval
    BY <2>10, <2>13, LeftSteps DEF WatchAssumption
  <2>15. g < MinInterval \/ s < HealAfter
    BY <2>8, <2>10, <2>11, <2>12, <2>13 DEF u, g, WatchAssumption
  <2> DEFINE k == watched.stuck
             k1 == watched'.stuck
             Soon == /\ k1 <= Bound
                     /\ s < HealAfter => k1 <= s + 1
                     /\ s = HealAfter => g < MinInterval /\ k1 + Left(u) - g - 1 <= Bound
  <2>16. k \in Nat /\ k1 = IF k < Bound + 1 THEN k + 1 ELSE Bound + 1
    BY <1>1, <2>9
  <2>17. k > 0 => /\ al.stuck # -1 /\ k <= Bound
                  /\ al.stuck < HealAfter => k <= al.stuck + 1
                  /\ al.stuck = HealAfter =>
                       al.heal < MinInterval /\ k + Left(al.attempts) - al.heal - 1 <= Bound
    BY <2>8 DEF WatchInv, OnTime
  <2>18. al.stuck # -1 => t = al.attempts
    BY DEF t
  <2> HIDE DEF k, k1
  <2>19. ASSUME k = 0 PROVE Soon
    BY <2>10, <2>11, <2>14, <2>15, <2>16, <2>19 DEF WatchAssumption
  <2>20. ASSUME k > 0 /\ al.stuck < HealAfter PROVE Soon
    <3>1. al.stuck \in 0..HealAfter /\ k <= al.stuck + 1 /\ s = al.stuck + 1 /\ k <= Bound
      <4>1. al.stuck # -1 /\ k <= al.stuck + 1 /\ k <= Bound
        BY <2>17, <2>20
      <4>2. al.stuck \in 0..HealAfter
        BY <1>1, <4>1
      <4> QED
        BY <2>11, <2>20, <4>1, <4>2 DEF WatchAssumption
    <3>2. k1 = k + 1 /\ g \in Nat
      BY <2>10, <2>11, <2>14, <2>16, <3>1
    <3> QED
      BY <2>10, <2>14, <2>15, <2>16, <3>1, <3>2 DEF WatchAssumption
  <2>21. ASSUME k > 0 /\ al.stuck = HealAfter PROVE Soon
    <3>1. /\ k <= Bound /\ t = al.attempts /\ s = HealAfter /\ h = al.heal + 1
          /\ al.heal < MinInterval /\ k + Left(t) - al.heal - 1 <= Bound
      <4>1. /\ al.stuck # -1 /\ al.heal < MinInterval /\ k <= Bound
            /\ k + Left(al.attempts) - al.heal - 1 <= Bound
        BY <2>17, <2>21
      <4>2. t = al.attempts
        BY <2>18, <4>1
      <4>3. s = HealAfter /\ h = al.heal + 1
        BY <1>1, <2>11, <2>21, <4>1 DEF WatchAssumption
      <4> QED
        BY <4>1, <4>2, <4>3
    <3>2. k1 = k + 1 /\ al.heal \in Nat /\ k \in Nat
      BY <1>1, <2>14, <2>16, <3>1
    <3>3. CASE due
      <4>1. t < FastAttempts /\ Left(t) = Left(u) + MinInterval /\ g = 0 /\ h >= MinInterval
        BY <2>10, <2>11, <2>12, <2>14, <3>1, <3>2, <3>3 DEF WatchAssumption, Watch!AttemptCap
      <4> QED
        BY <2>14, <3>1, <3>2, <4>1 DEF WatchAssumption
    <3>4. CASE ~due
      <4>1. u = t /\ g = h
        BY <2>11, <2>13, <3>4
      <4> QED
        BY <2>14, <2>15, <3>1, <3>2, <4>1 DEF WatchAssumption
    <3> QED
      BY <3>3, <3>4
  <2>22. Soon
    BY <1>1, <2>16, <2>19, <2>20, <2>21 DEF WatchAssumption
  <2>23. al'.stuck = s /\ Left(al'.attempts) = Left(u) /\ al'.heal = g /\ watched'.stuck = k1
    BY <2>7 DEF k1, u, g
  <2> QED
    BY <2>10, <2>22, <2>23 DEF OnTime
<1> QED
  BY <1>2, <1>3

AlertStates ==
  [last: Watch!States \cup {"none"}, ever: BOOLEAN, stuck: {-1} \cup 0..HealAfter,
   attempts: 0..Watch!AttemptCap, heal: 0..MaxInterval, alert: 0..HealRealert,
   register: 0..RegisterEvery, alerted: BOOLEAN]

StuckAges == {-1} \cup 0..HealAfter

\* An update of the memory is memory.
LEMMA AlertSet ==
  ASSUME NEW a \in AlertStates
  PROVE  /\ \A st \in StuckAges, h \in 0..MaxInterval, r \in 0..HealRealert, g \in 0..RegisterEvery :
              [a EXCEPT !.stuck = st, !.heal = h, !.alert = r, !.register = g] \in AlertStates
         /\ \A st \in StuckAges, at \in 0..Watch!AttemptCap :
              [a EXCEPT !.stuck = st, !.attempts = at] \in AlertStates
         /\ \A at \in 0..Watch!AttemptCap, h \in 0..MaxInterval :
              [a EXCEPT !.attempts = at, !.heal = h] \in AlertStates
         /\ \A r \in 0..HealRealert, ad \in BOOLEAN :
              [a EXCEPT !.alert = r, !.alerted = ad] \in AlertStates
         /\ \A l \in Watch!States : [a EXCEPT !.last = l] \in AlertStates
         /\ \A l \in Watch!States, ev \in BOOLEAN, st \in StuckAges,
               at \in 0..Watch!AttemptCap, ad \in BOOLEAN, g \in 0..RegisterEvery :
              [a EXCEPT !.last = l, !.ever = ev, !.stuck = st, !.attempts = at,
                        !.alerted = ad, !.register = g] \in AlertStates
<1> USE DEF AlertStates, StuckAges
<1>1. \A st \in StuckAges, h \in 0..MaxInterval, r \in 0..HealRealert, g \in 0..RegisterEvery :
          [a EXCEPT !.stuck = st, !.heal = h, !.alert = r, !.register = g] \in AlertStates
  OBVIOUS
<1>2. \A st \in StuckAges, at \in 0..Watch!AttemptCap :
          [a EXCEPT !.stuck = st, !.attempts = at] \in AlertStates
  OBVIOUS
<1>3. \A at \in 0..Watch!AttemptCap, h \in 0..MaxInterval :
          [a EXCEPT !.attempts = at, !.heal = h] \in AlertStates
  OBVIOUS
<1>4. \A r \in 0..HealRealert, ad \in BOOLEAN :
          [a EXCEPT !.alert = r, !.alerted = ad] \in AlertStates
  OBVIOUS
<1>5. \A l \in Watch!States : [a EXCEPT !.last = l] \in AlertStates
  OBVIOUS
<1>6. \A l \in Watch!States, ev \in BOOLEAN, st \in StuckAges,
         at \in 0..Watch!AttemptCap, ad \in BOOLEAN, g \in 0..RegisterEvery :
          [a EXCEPT !.last = l, !.ever = ev, !.stuck = st, !.attempts = at,
                    !.alerted = ad, !.register = g] \in AlertStates
  OBVIOUS
<1> HIDE DEF AlertStates, StuckAges
<1> QED
  BY <1>1, <1>2, <1>3, <1>4, <1>5, <1>6, Zenon

\* What a poll makes of the memory is memory.
LEMMA AlertSteps ==
  ASSUME WatchAssumption, NEW a \in AlertStates
  PROVE  /\ Watch!Aged(a) \in AlertStates /\ Watch!Stuck(a) \in AlertStates
         /\ Watch!Healed(a) \in AlertStates /\ Watch!Alerted(a) \in AlertStates
         /\ \A s \in Watch!States : [a EXCEPT !.last = s] \in AlertStates
<1>1. /\ a.stuck \in {-1} \cup 0..HealAfter /\ a.attempts \in 0..Watch!AttemptCap
      /\ a.heal \in 0..MaxInterval /\ a.alert \in 0..HealRealert
      /\ a.register \in 0..RegisterEvery
      /\ 0 \in 0..HealAfter /\ 0 \in 0..Watch!AttemptCap /\ 0 \in 0..MaxInterval
      /\ 0 \in 0..HealRealert
  BY DEF AlertStates, WatchAssumption, Watch!AttemptCap
<1>2. Watch!Aged(a) \in AlertStates
  <2> DEFINE s == IF a.stuck = -1 THEN -1 ELSE Watch!Capped(a.stuck + 1, HealAfter)
             h == Watch!Capped(a.heal + 1, MaxInterval)
             r == Watch!Capped(a.alert + 1, HealRealert)
             g == Watch!Capped(a.register + 1, RegisterEvery)
  <2>1. /\ s \in {-1} \cup 0..HealAfter /\ h \in 0..MaxInterval /\ r \in 0..HealRealert
        /\ g \in 0..RegisterEvery
    BY <1>1 DEF Watch!Capped, WatchAssumption
  <2>2. Watch!Aged(a) = [a EXCEPT !.stuck = s, !.heal = h, !.alert = r, !.register = g]
    BY DEF Watch!Aged
  <2> HIDE DEF s, h, r, g
  <2> QED
    <3>1. s \in StuckAges
      BY <2>1 DEF StuckAges
    <3>2. [a EXCEPT !.stuck = s, !.heal = h, !.alert = r, !.register = g] \in AlertStates
      BY <2>1, <3>1, AlertSet, Zenon
    <3> QED
      BY <2>2, <3>2
<1>4. Watch!Stuck(a) \in AlertStates
  BY <1>1, AlertSet DEF Watch!Stuck, StuckAges
<1>6. Watch!Healed(a) \in AlertStates
  <2>1. Watch!Capped(a.attempts + 1, Watch!AttemptCap) \in 0..Watch!AttemptCap
    BY <1>1 DEF Watch!Capped, Watch!AttemptCap, WatchAssumption
  <2> QED
    BY <1>1, <2>1, AlertSet DEF Watch!Healed
<1>8. Watch!Alerted(a) \in AlertStates
  BY <1>1, AlertSet DEF Watch!Alerted
<1>9. \A s \in Watch!States : [a EXCEPT !.last = s] \in AlertStates
  BY AlertSet
<1> QED
  BY <1>2, <1>4, <1>6, <1>8, <1>9

\* Types are kept by every step.
LEMMA WatchTypes ==
  ASSUME WatchAssumption, Watch!TypeOK, [Watch!Next]_watchvars PROVE Watch!TypeOK'
<1>1. CASE UNCHANGED watchvars
  BY <1>1 DEF Watch!TypeOK, watchvars
<1>2. CASE Watch!GatewayMoves
  BY <1>2 DEF Watch!TypeOK, Watch!GatewayMoves
<1>3. CASE Watch!BackendRestarts
  <2>1. gw' \in [state: Watch!States, api: BOOLEAN]
    BY <1>3 DEF Watch!TypeOK, Watch!BackendRestarts
  <2> QED
    BY <1>3, <2>1 DEF Watch!TypeOK, Watch!BackendRestarts, Watch!Fresh, Watch!NoHist,
                      WatchAssumption, Watch!AttemptCap, Watch!States
<1>4. CASE Watch!Poll
  <2> DEFINE a == Watch!Aged(al)
  <2>1. a \in AlertStates /\ gw.state \in Watch!States
    BY AlertSteps DEF Watch!TypeOK, AlertStates
  <2>2. al' \in AlertStates /\ out' \subseteq Watch!Outs
    <3> HIDE DEF a
    <3>1. CASE Watch!LoggedIn(a)
      <4>1. out' \subseteq Watch!Outs
        BY <3>1 DEF Watch!LoggedIn, Watch!Outs
      <4>2. al' \in AlertStates
        <5>1. \E g \in {0, a.register} : al' = [a EXCEPT !.last = "logged_in", !.ever = TRUE,
                 !.stuck = -1, !.attempts = 0, !.alerted = FALSE, !.register = g]
          BY <3>1 DEF Watch!LoggedIn
        <5>2. a.register \in 0..RegisterEvery /\ 0 \in 0..RegisterEvery
              /\ 0 \in 0..Watch!AttemptCap /\ "logged_in" \in Watch!States
          BY <2>1 DEF AlertStates, WatchAssumption, Watch!AttemptCap, Watch!States
        <5> QED
          <6>1. PICK g \in {0, a.register} : al' = [a EXCEPT !.last = "logged_in", !.ever = TRUE,
                   !.stuck = -1, !.attempts = 0, !.alerted = FALSE, !.register = g]
            BY <5>1
          <6>2. g \in 0..RegisterEvery /\ -1 \in StuckAges
            BY <5>2, <6>1 DEF StuckAges
          <6>3. TRUE \in BOOLEAN /\ FALSE \in BOOLEAN
            OBVIOUS
          <6>4. [a EXCEPT !.last = "logged_in", !.ever = TRUE, !.stuck = -1, !.attempts = 0,
                          !.alerted = FALSE, !.register = g] \in AlertStates
            BY <2>1, <5>2, <6>2, <6>3, AlertSet, Zenon
          <6> QED
            BY <6>1, <6>4
      <4> QED
        BY <4>1, <4>2
    <3>2. CASE Watch!Healing(a)
      <4> DEFINE b0 == Watch!Stuck(a)
                 b == Watch!Healed(b0)
      <4>1. b0 \in AlertStates
        BY <2>1, AlertSteps
      <4>2. b \in AlertStates
        BY <4>1, AlertSteps
      <4>3. \E c \in {a, b, Watch!Alerted(b)} : al' = [c EXCEPT !.last = gw.state]
        BY <3>2 DEF Watch!Healing
      <4>4. out' \subseteq Watch!Outs
        BY <3>2 DEF Watch!Healing, Watch!Outs
      <4> HIDE DEF b
      <4>5. Watch!Alerted(b) \in AlertStates
        BY <4>2, AlertSteps
      <4> QED
        BY <2>1, <4>2, <4>3, <4>4, <4>5, AlertSteps
    <3>3. CASE Watch!Asking(a)
      <4>1. \E c \in {a, Watch!Alerted(a)} : al' = [c EXCEPT !.last = gw.state]
        BY <3>3 DEF Watch!Asking
      <4>2. out' \subseteq Watch!Outs
        BY <3>3 DEF Watch!Asking, Watch!Outs
      <4> QED
        BY <2>1, <4>1, <4>2, AlertSteps
    <3>4. CASE out' = {} /\ al' = [a EXCEPT !.last = gw.state]
      BY <2>1, <3>4, AlertSteps
    <3> QED
      BY <1>4, <3>1, <3>2, <3>3, <3>4 DEF Watch!Poll, a
  <2>3. watched' \in [restart: 0..MinInterval, away: 0..HealAfter, told: BOOLEAN, stuck: Nat]
    <3>1. Watch!Recorded
      BY <1>4 DEF Watch!Poll
    <3>2. Bound + 1 \in Nat
      BY LeftSteps
    <3> QED
      BY <3>1, <3>2 DEF Watch!Recorded, Watch!TypeOK, Watch!Capped, WatchAssumption, Bound
  <2> QED
    BY <1>4, <2>2, <2>3 DEF Watch!TypeOK, AlertStates, Watch!Poll
<1> QED
  BY <1>1, <1>2, <1>3, <1>4 DEF Watch!Next

\* Somebody has been told exactly when the memory says so.
LEMMA ToldTogether ==
  ASSUME WatchAssumption, WatchInv, Watch!TypeOK', Watch!Poll PROVE watched'.told = al'.alerted
<1> DEFINE a == Watch!Aged(al)
<1>1. a \in AlertStates /\ a.alerted = al.alerted /\ watched.told = al.alerted
  BY AlertSteps DEF WatchInv, Watch!TypeOK, AlertStates, Watch!Aged
<1>2. watched'.told <=> gw.state # "logged_in" /\ (al.alerted \/ out' \cap {"alert", "heal_alert"} # {})
  BY <1>1 DEF Watch!Poll, Watch!Recorded
<1>3. watched'.told \in BOOLEAN /\ al'.alerted \in BOOLEAN
  BY DEF Watch!TypeOK
<1> HIDE DEF a
<1>4. CASE gw.state = "logged_in"
  <2>1. \E g \in {0, a.register} : al' = [a EXCEPT !.last = "logged_in", !.ever = TRUE,
           !.stuck = -1, !.attempts = 0, !.alerted = FALSE, !.register = g]
    <3>1. Watch!LoggedIn(a)
      BY <1>4 DEF Watch!Poll, Watch!HealStates, a
    <3> QED
      BY <3>1 DEF Watch!LoggedIn
  <2>2. al'.alerted = FALSE
    BY <1>1, <2>1 DEF AlertStates
  <2> QED
    BY <1>2, <1>3, <1>4, <2>2
<1>5. CASE gw.state \in Watch!HealStates
  <2> DEFINE b == Watch!Healed(Watch!Stuck(a))
             fire == ~Watch!Suppressed(b) /\ (~b.alerted \/ b.alert >= HealRealert)
             c == IF fire THEN Watch!Alerted(b) ELSE b
  <2>1. b \in AlertStates /\ b.alerted = al.alerted
    <3>1. Watch!Stuck(a) \in AlertStates /\ Watch!Stuck(a).alerted = a.alerted
      BY <1>1, AlertSteps DEF Watch!Stuck, AlertStates
    <3> DEFINE d == Watch!Stuck(a)
    <3>2. d \in AlertStates /\ d.alerted = a.alerted
      BY <3>1
    <3> HIDE DEF d
    <3>3. Watch!Healed(d) \in AlertStates /\ Watch!Healed(d).alerted = d.alerted
      BY <3>2, AlertSteps DEF Watch!Healed, AlertStates
    <3> QED
      BY <1>1, <3>2, <3>3 DEF d
  <2>2. Watch!Healing(a)
    BY <1>5 DEF Watch!Poll, Watch!HealStates, a
  <2>3. CASE gw.state = "down" /\ ~a.ever
    <3>1. out' = {} /\ al' = [a EXCEPT !.last = gw.state]
      BY <2>2, <2>3 DEF Watch!Healing
    <3>2. al'.alerted = a.alerted
      BY <1>1, <3>1 DEF AlertStates
    <3> QED
      BY <1>1, <1>2, <1>3, <1>5, <3>1, <3>2 DEF Watch!HealStates
  <2>4. CASE ~(gw.state = "down" /\ ~a.ever)
    <3>1. /\ ("heal_alert" \in out' <=> fire) /\ "alert" \notin out'
          /\ al' = [c EXCEPT !.last = gw.state]
      BY <2>2, <2>4 DEF Watch!Healing
    <3> HIDE DEF b, fire
    <3>2. CASE fire
      <4>1. al'.alerted = TRUE
        BY <2>1, <3>1, <3>2 DEF Watch!Alerted, AlertStates
      <4> QED
        BY <1>2, <1>3, <1>5, <3>1, <3>2, <4>1 DEF Watch!HealStates
    <3>3. CASE ~fire
      <4>1. al'.alerted = b.alerted
        BY <2>1, <3>1, <3>3 DEF AlertStates
      <4> QED
        BY <1>2, <1>3, <1>5, <2>1, <3>1, <3>3, <4>1 DEF Watch!HealStates
    <3> QED
      BY <3>2, <3>3
  <2> QED
    BY <2>3, <2>4
<1>6. CASE gw.state \in {"awaiting_2fa", "locked_out"}
  <2> DEFINE fire == a.last # gw.state \/ a.alert >= Realert
  <2>1. /\ out' = IF fire THEN {"alert"} ELSE {}
        /\ al' = [IF fire THEN Watch!Alerted(a) ELSE a EXCEPT !.last = gw.state]
    BY <1>6 DEF Watch!Poll, Watch!Asking, Watch!HealStates, a
  <2> HIDE DEF fire
  <2>2. al'.alerted = (fire \/ a.alerted)
    BY <1>1, <2>1 DEF Watch!Alerted, AlertStates
  <2> QED
    BY <1>1, <1>2, <1>3, <1>6, <2>1, <2>2
<1>7. CASE gw.state \notin Watch!HealStates \cup {"logged_in", "awaiting_2fa", "locked_out"}
  <2>1. out' = {} /\ al' = [a EXCEPT !.last = gw.state]
    BY <1>7 DEF Watch!Poll, a
  <2>2. al'.alerted = a.alerted
    BY <1>1, <2>1 DEF AlertStates
  <2> QED
    BY <1>1, <1>2, <1>3, <1>7, <2>1, <2>2
<1> QED
  BY <1>4, <1>5, <1>6, <1>7

LEMMA WatchInit == ASSUME WatchAssumption, Watch!Init PROVE WatchInv
  BY DEF Watch!Init, Watch!Fresh, Watch!NoHist, WatchAssumption, WatchInv, Watch!TypeOK, OnTime,
         Watch!AttemptCap, Watch!States

LEMMA WatchKept ==
  ASSUME WatchAssumption, WatchInv, [Watch!Next]_(Watch!vars) PROVE WatchInv'
<1>1. Watch!TypeOK'
  BY WatchTypes DEF WatchInv, Watch!vars, watchvars
<1>2. CASE UNCHANGED Watch!vars \/ Watch!GatewayMoves
  BY <1>1, <1>2 DEF WatchInv, OnTime, Watch!vars, Watch!GatewayMoves
<1>3. CASE Watch!BackendRestarts
  BY <1>1, <1>3 DEF WatchInv, OnTime, Watch!BackendRestarts, Watch!Fresh, Watch!NoHist
<1>4. CASE Watch!Poll
  <2>1. OnTime'
    <3>1. CASE gw.state \in Watch!HealStates
      <4>1. Watch!Healing(Watch!Aged(al)) /\ Watch!Recorded
        BY <1>4, <3>1 DEF Watch!Poll, Watch!HealStates
      <4> QED
        BY <1>1, <3>1, <4>1, HealingKeeps
    <3>2. CASE gw.state \notin Watch!HealStates
      BY <1>4, <3>2 DEF Watch!Poll, Watch!Recorded, OnTime
    <3> QED
      BY <3>1, <3>2
  <2> QED
    BY <1>1, <1>4, <2>1, ToldTogether DEF WatchInv
<1> QED
  BY <1>2, <1>3, <1>4 DEF Watch!Next

\* A Gateway that stays in a state that a restart should cure is reported once the fast
\* restarts have had their time, and one more interval (ToldInTime; gateway.py
\* check_and_alert, _try_self_heal, _heal_interval), for any of the intervals, if the
\* longest is longer than the shortest: with one interval only every restart would put the
\* alert off to the next.
THEOREM StuckIsTold ==
  ASSUME WatchAssumption PROVE Watch!Spec => []ToldInTime
<1>1. WatchInv => ToldInTime
  <2>1. Bound \in Nat
    BY LeftSteps
  <2> QED
    BY <2>1 DEF WatchInv, ToldInTime, Watch!ToldInTime, OnTime, Bound, Watch!TypeOK
<1>2. Watch!Init => WatchInv
  BY WatchInit
<1>3. WatchInv /\ [Watch!Next]_(Watch!vars) => WatchInv'
  BY WatchKept
<1> QED
  BY <1>1, <1>2, <1>3, PTL DEF Watch!Spec

----------------------------------------------------------------------------
(* The restarts keep their distance.                                           *)

\* How old the episode is at a poll that finds the Gateway in a state to cure, and the last
\* restart.
Episode == IF al.stuck = -1 THEN 0 ELSE Watch!Capped(al.stuck + 1, HealAfter)
Rested == Watch!Capped(al.heal + 1, MaxInterval)

\* What a poll does to the episode, to the age of the last restart and to who was told.
PollDoes ==
    /\ al'.last = gw.state /\ al'.stuck \in {-1, Episode}
    /\ gw.state = "logged_in" => al'.stuck = -1 /\ ~al'.alerted
    /\ IF "restart" \in out'
       THEN /\ gw.state \in Watch!HealStates /\ al'.heal = 0
            /\ Episode >= HealAfter /\ Rested >= MinInterval
       ELSE al'.heal = Rested
    /\ gw.state = "logged_in" =>
          ("clear" \in out' <=> al.last \notin {"none", "logged_in"} /\ al.alerted)

LEMMA AgedIs ==
  ASSUME WatchAssumption, al \in AlertStates
  PROVE  LET a == Watch!Aged(al) IN
         /\ a \in AlertStates /\ a.last = al.last /\ a.alerted = al.alerted /\ a.ever = al.ever
         /\ a.heal = Rested /\ a.stuck = IF al.stuck = -1 THEN -1 ELSE Episode
         /\ a.attempts = al.attempts
<1>1. Watch!Aged(al) \in AlertStates
  BY AlertSteps
<1> QED
  BY <1>1 DEF Watch!Aged, AlertStates, Episode, Rested

\* In a state that a restart cures.
LEMMA HealingDoes ==
  ASSUME WatchAssumption, al \in AlertStates, gw.state \in Watch!HealStates,
         Watch!Healing(Watch!Aged(al))
  PROVE  PollDoes
<1> DEFINE a == Watch!Aged(al)
           b0 == Watch!Stuck(a)
           b == Watch!Healed(b0)
           fire == ~Watch!Suppressed(b) /\ (~b.alerted \/ b.alert >= HealRealert)
           c == IF fire THEN Watch!Alerted(b) ELSE b
<1>1. /\ a \in AlertStates /\ a.alerted = al.alerted /\ a.heal = Rested
      /\ a.stuck = IF al.stuck = -1 THEN -1 ELSE Episode
  BY AgedIs
<1>2. gw.state # "logged_in"
  BY DEF Watch!HealStates
<1>3. /\ Watch!Healing(a)
      /\ b0 = IF a.stuck = -1 THEN [a EXCEPT !.stuck = 0, !.attempts = 0] ELSE a
  BY DEF Watch!Stuck
<1> HIDE DEF a
<1>4. CASE gw.state = "down" /\ ~a.ever
  <2>1. out' = {} /\ al' = [a EXCEPT !.last = gw.state]
    BY <1>3, <1>4 DEF Watch!Healing
  <2>2. al'.last = gw.state /\ al'.stuck = a.stuck /\ al'.heal = a.heal
    BY <1>1, <2>1 DEF AlertStates
  <2> QED
    BY <1>1, <1>2, <2>1, <2>2 DEF PollDoes
<1>5. CASE ~(gw.state = "down" /\ ~a.ever)
  <2>1. b0 \in AlertStates /\ b \in AlertStates
    BY <1>1, AlertSteps
  <2>2. b0.stuck = Episode /\ b0.heal = Rested
    <3>1. CASE al.stuck = -1
      <4>1. a.stuck = -1 /\ Episode = 0
        BY <1>1, <3>1 DEF Episode
      <4> QED
        BY <1>1, <1>3, <4>1 DEF AlertStates
    <3>2. CASE al.stuck # -1
      <4>1. Episode # -1
        BY <3>2 DEF AlertStates, Episode, Watch!Capped, WatchAssumption
      <4> QED
        BY <1>1, <1>3, <3>2, <4>1
    <3> QED
      BY <3>1, <3>2
  <2>3. ("restart" \in out' <=> Watch!RestartDue(b0)) /\ al' = [c EXCEPT !.last = gw.state]
    BY <1>3, <1>5 DEF Watch!Healing
  <2>4. Watch!RestartDue(b0) => Episode >= HealAfter /\ Rested >= MinInterval
    <3>1. b0.attempts \in 0..Watch!AttemptCap
      BY <2>1 DEF AlertStates
    <3> DEFINE at == b0.attempts
    <3>2. at \in 0..Watch!AttemptCap
      BY <3>1
    <3> HIDE DEF at
    <3>3. Watch!Interval(at) \in Nat /\ Watch!Interval(at) >= MinInterval
      BY <3>2, IntervalGrows DEF WatchAssumption, Watch!AttemptCap
    <3>4. Rested \in Nat
      BY <1>1 DEF AlertStates
    <3>5. Watch!RestartDue(b0) => b0.stuck >= HealAfter /\ b0.heal >= Watch!Interval(at)
      BY DEF Watch!RestartDue, at
    <3> QED
      BY <2>2, <3>3, <3>4, <3>5 DEF WatchAssumption
  <2> HIDE DEF b0
  <2>5. /\ b.stuck = b0.stuck
        /\ b.heal = IF Watch!RestartDue(b0) THEN 0 ELSE b0.heal
    BY <2>1 DEF Watch!Healed, AlertStates
  <2> HIDE DEF b, fire
  <2>6. al'.last = gw.state /\ al'.stuck = b.stuck /\ al'.heal = b.heal
    BY <2>1, <2>3 DEF Watch!Alerted, AlertStates
  <2> QED
    BY <1>2, <2>2, <2>3, <2>4, <2>5, <2>6 DEF PollDoes
<1> QED
  BY <1>4, <1>5

LEMMA PollIs ==
  ASSUME WatchAssumption, al \in AlertStates, Watch!Poll PROVE PollDoes
<1> DEFINE a == Watch!Aged(al)
<1>1. /\ a \in AlertStates /\ a.alerted = al.alerted /\ a.heal = Rested /\ a.last = al.last
      /\ a.stuck = IF al.stuck = -1 THEN -1 ELSE Episode
  BY AgedIs
<1> HIDE DEF a
<1>2. CASE gw.state = "logged_in"
  <2>1. Watch!LoggedIn(a)
    BY <1>2 DEF Watch!Poll, Watch!HealStates, a
  <2>2. /\ "clear" \in out' <=> a.last \notin {"none", "logged_in"} /\ a.alerted
        /\ "restart" \notin out'
    BY <2>1 DEF Watch!LoggedIn
  <2>3. PICK g \in {0, a.register} : al' = [a EXCEPT !.last = "logged_in", !.ever = TRUE,
           !.stuck = -1, !.attempts = 0, !.alerted = FALSE, !.register = g]
    BY <2>1 DEF Watch!LoggedIn
  <2>4. al'.last = "logged_in" /\ al'.stuck = -1 /\ al'.alerted = FALSE /\ al'.heal = a.heal
    BY <1>1, <2>3 DEF AlertStates
  <2> QED
    BY <1>1, <1>2, <2>2, <2>4 DEF PollDoes
<1>3. CASE gw.state \in Watch!HealStates
  <2>1. Watch!Healing(Watch!Aged(al))
    BY <1>3 DEF Watch!Poll, Watch!HealStates
  <2> QED
    BY <1>3, <2>1, HealingDoes
<1>4. CASE gw.state \in {"awaiting_2fa", "locked_out"}
  <2> DEFINE fire == a.last # gw.state \/ a.alert >= Realert
  <2>1. /\ out' = IF fire THEN {"alert"} ELSE {}
        /\ al' = [IF fire THEN Watch!Alerted(a) ELSE a EXCEPT !.last = gw.state]
    BY <1>4 DEF Watch!Poll, Watch!Asking, Watch!HealStates, a
  <2> HIDE DEF fire
  <2>2. al'.last = gw.state /\ al'.stuck = a.stuck /\ al'.heal = a.heal
    BY <1>1, <2>1 DEF Watch!Alerted, AlertStates
  <2> QED
    BY <1>1, <1>4, <2>1, <2>2 DEF PollDoes
<1>5. CASE gw.state \notin Watch!HealStates \cup {"logged_in", "awaiting_2fa", "locked_out"}
  <2>1. out' = {} /\ al' = [a EXCEPT !.last = gw.state]
    BY <1>5 DEF Watch!Poll, a
  <2>2. al'.last = gw.state /\ al'.stuck = a.stuck /\ al'.heal = a.heal /\ al'.alerted = a.alerted
    BY <1>1, <2>1 DEF AlertStates
  <2> QED
    BY <1>1, <1>5, <2>1, <2>2 DEF PollDoes
<1> QED
  BY <1>2, <1>3, <1>4, <1>5

\* The ages the memory keeps and the ones of the history: an episode is never older than
\* the time the Gateway was away, and who was told is told of a state other than a login.
PaceInv ==
    /\ WatchInv
    /\ watched.restart = Watch!Capped(al.heal, MinInterval)
    /\ al.stuck # -1 => Watch!Capped(al.stuck + 1, HealAfter) <= watched.away
    /\ al.alerted => al.last \notin {"none", "logged_in"}

LEMMA PaceInit == ASSUME WatchAssumption, Watch!Init PROVE PaceInv
<1>1. WatchInv
  BY WatchInit
<1> QED
  BY <1>1 DEF PaceInv, Watch!Init, Watch!Fresh, Watch!NoHist, Watch!Capped, WatchAssumption

LEMMA PaceKept ==
  ASSUME WatchAssumption, PaceInv, [Watch!Next]_(Watch!vars) PROVE PaceInv'
<1>1. WatchInv /\ WatchInv'
  BY WatchKept DEF PaceInv
<1>2. CASE UNCHANGED Watch!vars \/ Watch!GatewayMoves
  BY <1>1, <1>2 DEF PaceInv, Watch!vars, Watch!GatewayMoves
<1>3. CASE Watch!BackendRestarts
  BY <1>1, <1>3 DEF PaceInv, Watch!BackendRestarts, Watch!Fresh, Watch!NoHist, Watch!Capped, WatchAssumption
<1>4. CASE Watch!Poll
  <2>1. /\ al \in AlertStates /\ gw.state \in Watch!States
        /\ watched.restart \in 0..MinInterval /\ watched.away \in 0..HealAfter
        /\ al.heal \in 0..MaxInterval /\ al.stuck \in {-1} \cup 0..HealAfter
    BY <1>1 DEF WatchInv, Watch!TypeOK, AlertStates
  <2>2. PollDoes
    BY <1>4, <2>1, PollIs
  <2>3. /\ watched'.restart = IF "restart" \in out' THEN 0 ELSE Watch!Capped(watched.restart + 1, MinInterval)
        /\ watched'.away = IF gw.state = "logged_in" THEN 0 ELSE Watch!Capped(watched.away + 1, HealAfter)
    BY <1>4 DEF Watch!Poll, Watch!Recorded
  <2>4. watched'.restart = Watch!Capped(al'.heal, MinInterval)
    <3>1. CASE "restart" \in out'
      BY <2>2, <2>3, <3>1 DEF PollDoes, Watch!Capped, WatchAssumption
    <3>2. CASE "restart" \notin out'
      <4>1. al'.heal = Rested /\ watched'.restart = Watch!Capped(watched.restart + 1, MinInterval)
        BY <2>2, <2>3, <3>2 DEF PollDoes
      <4> QED
        BY <2>1, <4>1 DEF PaceInv, Rested, Watch!Capped, WatchAssumption
    <3> QED
      BY <3>1, <3>2
  <2>5. al'.stuck # -1 => Watch!Capped(al'.stuck + 1, HealAfter) <= watched'.away
    <3>1. SUFFICES ASSUME al'.stuck # -1
                   PROVE  Watch!Capped(al'.stuck + 1, HealAfter) <= watched'.away
      OBVIOUS
    <3>2. al'.stuck = Episode /\ watched'.away = Watch!Capped(watched.away + 1, HealAfter)
      BY <2>2, <2>3, <3>1 DEF PollDoes
    <3>3. Episode \in Nat /\ (Episode = 0 \/ Episode <= watched.away)
      BY <2>1 DEF PaceInv, Episode, Watch!Capped, WatchAssumption
    <3> HIDE DEF Episode
    <3> QED
      BY <2>1, <3>2, <3>3 DEF Watch!Capped, WatchAssumption
  <2>6. al'.alerted => al'.last \notin {"none", "logged_in"}
    BY <2>1, <2>2 DEF PollDoes, Watch!States, Watch!NeedsHuman, Watch!HealStates
  <2> QED
    BY <1>1, <2>4, <2>5, <2>6 DEF PaceInv
<1> QED
  BY <1>2, <1>3, <1>4 DEF Watch!Next

\* What a poll that goes on from a state of the loop sends out.
LEMMA PollPace ==
  ASSUME WatchAssumption, PaceInv, Watch!Poll
  PROVE  /\ "restart" \in out' => /\ watched.restart + 1 >= MinInterval
                                  /\ gw.state # "logged_in" /\ watched.away >= HealAfter
         /\ al'.last = "logged_in" => ("clear" \in out' <=> watched.told)
<1>1. /\ al \in AlertStates /\ watched.told = al.alerted /\ al.heal \in 0..MaxInterval
      /\ al.stuck \in {-1} \cup 0..HealAfter /\ watched.away \in 0..HealAfter
  BY DEF PaceInv, WatchInv, Watch!TypeOK, AlertStates
<1>2. PollDoes
  BY <1>1, PollIs
<1>3. ASSUME "restart" \in out'
      PROVE  /\ watched.restart + 1 >= MinInterval
             /\ gw.state # "logged_in" /\ watched.away >= HealAfter
  <2>1. gw.state \in Watch!HealStates /\ Episode >= HealAfter /\ Rested >= MinInterval
    BY <1>2, <1>3 DEF PollDoes
  <2>2. gw.state # "logged_in"
    BY <2>1 DEF Watch!HealStates
  <2>3. watched.restart + 1 >= MinInterval
    BY <1>1, <2>1 DEF PaceInv, Rested, Watch!Capped, WatchAssumption
  <2>4. watched.away >= HealAfter
    BY <1>1, <2>1 DEF PaceInv, Episode, Watch!Capped, WatchAssumption
  <2> QED
    BY <2>2, <2>3, <2>4
<1>4. ASSUME al'.last = "logged_in" PROVE "clear" \in out' <=> watched.told
  BY <1>1, <1>2, <1>4 DEF PollDoes, PaceInv
<1> QED
  BY <1>3, <1>4

LEMMA PaceHolds == ASSUME WatchAssumption PROVE Watch!Spec => []PaceInv
<1>1. Watch!Init => PaceInv
  BY PaceInit
<1>2. PaceInv /\ [Watch!Next]_(Watch!vars) => PaceInv'
  BY PaceKept
<1> QED
  BY <1>1, <1>2, PTL DEF Watch!Spec

\* In one life of the backend two restarts of the Gateway are never closer than the
\* shortest interval, not even across two outages (RestartsApart; gateway.py
\* _try_self_heal, whose last restart outlives the episode): the age kept in memory is the
\* true age, up to that interval.
THEOREM RestartsKeepApart == ASSUME WatchAssumption PROVE Watch!Spec => Watch!RestartsApart
<1>1. PaceInv /\ [Watch!Next]_(Watch!vars)
        => [Watch!Poll /\ "restart" \in out' => watched.restart + 1 >= MinInterval]_(Watch!vars)
  BY PollPace
<1> QED
  BY <1>1, PaceHolds, PTL DEF Watch!Spec, Watch!RestartsApart

\* A Gateway is never restarted that is logged in, or was within the time it is given to
\* recover, whatever states the log went through in between (NotTransient; gateway.py
\* _try_self_heal, check_and_alert).
THEOREM OnlyStuckRestarted == ASSUME WatchAssumption PROVE Watch!Spec => Watch!NotTransient
<1>1. PaceInv /\ [Watch!Next]_(Watch!vars)
        => [Watch!Poll /\ "restart" \in out'
              => gw.state # "logged_in" /\ watched.away >= HealAfter]_(Watch!vars)
  BY PollPace
<1> QED
  BY <1>1, PaceHolds, PTL DEF Watch!Spec, Watch!NotTransient

\* "All clear" goes out at a login exactly if somebody was told since the login before
\* (ClearIfTold; gateway.py check_and_alert): no alarm stays open, none is closed unheard.
THEOREM AllClearIfTold == ASSUME WatchAssumption PROVE Watch!Spec => Watch!ClearIfTold
<1>1. PaceInv /\ [Watch!Next]_(Watch!vars)
        => [Watch!Poll /\ al'.last = "logged_in" => (("clear" \in out') <=> watched.told)]_(Watch!vars)
  BY PollPace
<1> QED
  BY <1>1, PaceHolds, PTL DEF Watch!Spec, Watch!ClearIfTold

----------------------------------------------------------------------------
(* A bot whose code failed.                                                    *)

\* A position of the bot is known to it or kept by its exits-only state, in memory and in
\* bots.json, and a bot that has one is not paused.
Guarded(s) == ~s.paused /\ (s.tracked \/ s.exitsOnly)
Known == held => Guarded(bot) /\ Guarded(disk)

\* What the runner has seen.  Who is taken for flat at the failure was; a list that left
\* out the position either was right, or the next one is, as long as the position lasts.
Seen ==
    /\ ~live => pc = "sleep"
    /\ live =>
        /\ mem.failure = "flat" => ~held
        /\ pc # "sleep" /\ mem.failure = "none" => mem.why = "reference"
        /\ pc = "confirm" => bot.tracked /\ (held /\ ~mem.empty => odd /\ mem.missing = 0)
        /\ mem.missing = 1 => odd \/ (~held /\ (bot.tracked \/ mem.failure = "mayhold"))
        /\ pc \in {"close", "postclose"} /\ mem.missing = 1 => odd

IInv == TypeOK /\ Known /\ Seen

\* No list at a call other than a check leaves out a held position, and a Stop forgets a
\* position in the exits-only state only.
RightLists == OddAt \cap {"postclose", "update"} = {}
StopsInExits == StopAt \in {"never", "exits"}

----------------------------------------------------------------------------
(* What the lists say.                                                         *)

LEMMA RightList ==
    ASSUME NEW site, site \notin OddAt, NEW a \in Answers(site), a.sees = "none"
    PROVE  ~held
BY DEF Answers

LEMMA AnyList ==
    ASSUME TypeOK, NEW site, NEW a \in Answers(site)
    PROVE  /\ a.sees \in {"held", "none", "error"}
           /\ a.sees = "held" => held
           /\ a.sees = "none" => a.empty \in BOOLEAN
           /\ a.sees = "none" /\ ~a.empty /\ held /\ site = "check" => ~odd
<1>1. CASE a = [sees |-> IF held THEN "held" ELSE "none", empty |-> ~held /\ ~Others]
    <2>1. CASE held
        BY <1>1, <2>1
    <2>2. CASE ~held
        <3>1. a.sees = "none" /\ a.empty = (~held /\ ~Others)
            BY <1>1, <2>2
        <3>2. a.empty \in BOOLEAN
            BY <3>1, Zenon
        <3> QED
            BY <2>2, <3>1, <3>2
    <2> QED
        BY <2>1, <2>2
<1>2. CASE a = [sees |-> "error", empty |-> FALSE]
    BY <1>2
<1>3. CASE \E e \in {TRUE} \cup IF Others /\ ~(site = "check" /\ odd) THEN {FALSE} ELSE {} :
               a = [sees |-> "none", empty |-> e]
    <2>1. PICK e \in {TRUE} \cup IF Others /\ ~(site = "check" /\ odd) THEN {FALSE} ELSE {} :
               a = [sees |-> "none", empty |-> e]
        BY <1>3
    <2>2. a.sees = "none" /\ a.empty = e /\ e \in BOOLEAN
        BY <2>1
    <2>3. e = FALSE /\ site = "check" => ~odd
        BY <2>1
    <2> QED
        BY <2>2, <2>3
<1> QED
    BY <1>1, <1>2, <1>3 DEF Answers

\* A list of the check, after which its oddness is known.
LEMMA Looked ==
    ASSUME TypeOK, NEW a \in Answers("check"), Checked(a)
    PROVE  /\ odd' \in BOOLEAN
           /\ a.sees = "none" /\ ~a.empty /\ held => ~odd /\ odd'
           /\ a.sees = "none" /\ odd => odd'
BY AnyList DEF Checked, TypeOK

----------------------------------------------------------------------------
(* The ways out of _manage_without_signals.                                     *)

\* What a tick may leave behind in b and m.
Leaves(b, m) ==
    /\ b \in BotStates /\ m \in Memories
    /\ m.failure = "flat" => ~held
    /\ m.missing = 1 => odd' \/ (~held /\ (b.tracked \/ m.failure = "mayhold"))

Same == live /\ UNCHANGED <<held, closing, live>> /\ odd' \in BOOLEAN

LEMMA MarkedType ==
    ASSUME NEW b \in BotStates, NEW m \in Memories
    PROVE  /\ Marked(b, m) \in BotStates /\ Marked(b, m).tracked = b.tracked
           /\ Marked(b, m).exitsOnly = b.exitsOnly /\ Marked(b, m).paused = b.paused
BY DEF Marked, BotStates

LEMMA EndsKeeps ==
    ASSUME IInv, NEW b, NEW m, Leaves(b, m), held => Guarded(b), Same, Ends(b, m)
    PROVE  IInv'
<1> DEFINE e == Marked(b, m)
<1>1. /\ e \in BotStates /\ e.tracked = b.tracked /\ e.exitsOnly = b.exitsOnly /\ e.paused = b.paused
    BY MarkedType DEF Leaves
<1>2. bot' = e /\ mem' = m /\ pc' = "sleep" /\ disk' \in {e, disk}
    BY DEF Ends
<1> HIDE DEF e
<1>3. hist' \in [finished: BOOLEAN]
    <2>1. hist.finished \in BOOLEAN /\ m.ran \in BOOLEAN /\ m.due \in BOOLEAN
        BY DEF IInv, TypeOK, Leaves, Memories
    <2> QED
        BY <2>1 DEF Ends
<1>4. TypeOK'
    BY <1>1, <1>2, <1>3 DEF IInv, TypeOK, Leaves, Same
<1>5. Known'
    BY <1>1, <1>2 DEF IInv, Known, Guarded, Same
<1>6. Seen'
    BY <1>1, <1>2 DEF Seen, Leaves, Same
<1> QED
    BY <1>4, <1>5, <1>6 DEF IInv

LEMMA EndsFlatKeeps ==
    ASSUME IInv, NEW b, NEW m, Leaves(b, m), held => Guarded(b) /\ m.why = "reference", Same,
           EndsFlat(b, m), m.failure = "none" => m.why = "reference"
    PROVE  IInv'
<1> DEFINE e == IF m.why = "reference" THEN b ELSE [b EXCEPT !.exitsOnly = FALSE, !.paused = TRUE]
<1>1. e \in BotStates /\ e.tracked = b.tracked /\ (m.why = "reference" => e = b)
    BY DEF Leaves, BotStates
<1>2. bot' = e /\ disk' = e /\ mem' = m /\ pc' = "sleep" /\ hist' = [finished |-> FALSE]
    BY DEF EndsFlat
<1> HIDE DEF e
<1>3. TypeOK'
    BY <1>1, <1>2 DEF IInv, TypeOK, Leaves, Same
<1>4. Known'
    BY <1>1, <1>2 DEF Known, Same
<1>5. Seen'
    BY <1>1, <1>2 DEF Seen, Leaves, Same
<1> QED
    BY <1>3, <1>4, <1>5 DEF IInv

LEMMA ManageKeeps ==
    ASSUME IInv, NEW b, NEW m, Leaves(b, m), held => Guarded(b), UNCHANGED <<broker, live>>,
           live, Manage(b, m), m.failure = "none" => m.why = "reference"
    PROVE  IInv'
<1>1. CASE m.ran /\ ~m.due /\ ~m.problem
    BY <1>1, EndsKeeps DEF Manage, Same, broker, IInv, TypeOK
<1>2. CASE ~(m.ran /\ ~m.due /\ ~m.problem)
    <2>1. /\ bot' = b /\ mem' = [m EXCEPT !.problem = FALSE, !.blind = FALSE]
          /\ pc' = "check" /\ UNCHANGED <<disk, hist>>
        BY <1>2 DEF Manage
    <2>2. /\ mem' \in Memories /\ mem'.failure = m.failure /\ mem'.why = m.why
          /\ mem'.missing = m.missing
        BY <2>1 DEF Leaves, Memories
    <2>3. TypeOK'
        BY <2>1, <2>2 DEF IInv, TypeOK, Leaves, broker
    <2>4. Known'
        BY <2>1 DEF IInv, Known, broker
    <2>5. Seen'
        BY <2>1, <2>2 DEF Seen, Leaves, broker
    <2> QED
        BY <2>3, <2>4, <2>5 DEF IInv
<1> QED
    BY <1>1, <1>2

----------------------------------------------------------------------------
(* One lemma per part of the program.                                          *)

\* What a step does to a bot's own fields.
Kept(e, b) == e \in BotStates /\ e.exitsOnly = b.exitsOnly /\ e.paused = b.paused

LEMMA Zero == 0 \in 0..2
OBVIOUS

LEMMA Counted ==
    ASSUME NEW b \in BotStates, NEW c \in 0..2
    PROVE  /\ Kept([b EXCEPT !.done = FALSE, !.counted = c], b)
           /\ [b EXCEPT !.done = FALSE, !.counted = c].tracked = b.tracked
           /\ Kept([b EXCEPT !.tracked = FALSE, !.counted = c], b)
           /\ [b EXCEPT !.tracked = FALSE, !.counted = c].tracked = FALSE
           /\ Kept([b EXCEPT !.tracked = TRUE, !.done = TRUE, !.counted = c], b)
           /\ [b EXCEPT !.tracked = TRUE, !.done = TRUE, !.counted = c].tracked = TRUE
BY DEF BotStates, Kept

LEMMA Worked ==
    ASSUME NEW b \in BotStates
    PROVE  /\ Kept([b EXCEPT !.tracked = TRUE], b) /\ [b EXCEPT !.tracked = TRUE].tracked = TRUE
           /\ Kept([b EXCEPT !.done = TRUE], b) /\ [b EXCEPT !.done = TRUE].tracked = b.tracked
           /\ Kept([b EXCEPT !.tracked = TRUE, !.done = TRUE], b)
           /\ [b EXCEPT !.tracked = TRUE, !.done = TRUE].tracked = TRUE
BY DEF BotStates, Kept

LEMMA Clearing ==
    ASSUME NEW b \in BotStates
    PROVE  Kept(Cleared(b), b) /\ Cleared(b).tracked = FALSE
BY Counted, Zero DEF Cleared

LEMMA BrokerKeeps ==
    ASSUME IInv, BrokerStep PROVE IInv'
<1>1. CASE Fill
    BY <1>1 DEF Fill, IInv, TypeOK, Known, Seen
<1>2. CASE CancelDone
    BY <1>2 DEF CancelDone, IInv, TypeOK, Known, Seen
<1>3. CASE OutsideClose
    BY <1>3 DEF OutsideClose, IInv, TypeOK, Known, Seen
<1>4. CASE NewBar
    <2>1. Kept(bot', bot) /\ bot'.tracked = bot.tracked
        BY <1>4, Counted, Zero DEF NewBar, IInv, TypeOK
    <2>2. Kept(disk', disk) /\ disk'.tracked = disk.tracked
        BY <1>4, Counted, Zero DEF NewBar, IInv, TypeOK
    <2>3. /\ mem' \in Memories /\ mem'.failure = mem.failure /\ mem'.missing = mem.missing
        BY <1>4 DEF NewBar, IInv, TypeOK, Memories
    <2> QED
        BY <1>4, <2>1, <2>2, <2>3 DEF NewBar, Kept, IInv, TypeOK, Known, Guarded, Seen
<1> QED
    BY <1>1, <1>2, <1>3, <1>4 DEF BrokerStep

LEMMA EvaluatedType ==
    ASSUME NEW b \in BotStates
    PROVE  /\ Evaluated(b) \in BotStates /\ Evaluated(b).tracked = b.tracked
           /\ Evaluated(b).exitsOnly = b.exitsOnly /\ Evaluated(b).paused = b.paused
BY DEF Evaluated, CountBar, BotStates

\* What is known at a poll.
LEMMA AtPoll ==
    ASSUME IInv, Polls
    PROVE  /\ bot \in BotStates /\ mem \in Memories /\ live /\ pc = "sleep" /\ ~bot.paused
           /\ held => Guarded(bot)
           /\ mem.failure = "flat" => ~held
           /\ mem.missing = 1 => odd \/ (~held /\ (bot.tracked \/ mem.failure = "mayhold"))
BY DEF IInv, TypeOK, Known, Seen, Polls

LEMMA FailureKeeps ==
    ASSUME IInv, ReferenceDown \/ CodeFails \/ CodeRefused \/ ExitsTick PROVE IInv'
<1>1. CASE ReferenceDown
    <2> DEFINE m == [mem EXCEPT !.why = "reference"]
    <2>1. /\ m \in Memories /\ m.failure = mem.failure /\ m.missing = mem.missing
          /\ m.why = "reference"
        BY AtPoll, <1>1 DEF Memories, ReferenceDown
    <2>2. Manage(bot, m)
        BY <1>1 DEF ReferenceDown
    <2> HIDE DEF m
    <2>3. Leaves(bot, m)
        BY <1>1, <2>1, AtPoll DEF Leaves, ReferenceDown, broker
    <2> QED
        BY <1>1, <2>1, <2>2, <2>3, AtPoll, ManageKeeps DEF ReferenceDown
<1>2. ASSUME Polls, mem.failure = "none", odd' = odd
      PROVE  /\ Failing \in Memories /\ Leaves(InExitsOnly, Failing) /\ InExitsOnly \in BotStates
             /\ Failing.failure # "none" /\ (held => Guarded(InExitsOnly))
    <2>1. /\ Failing \in Memories /\ Failing.missing = mem.missing
          /\ Failing.failure = (IF bot.tracked \/ bot.exitsOnly THEN "mayhold" ELSE "flat")
        BY <1>2, AtPoll DEF Failing, Memories
    <2>2. /\ InExitsOnly \in BotStates /\ InExitsOnly.tracked = bot.tracked
          /\ InExitsOnly.exitsOnly = TRUE /\ InExitsOnly.paused = bot.paused
        BY <1>2, AtPoll DEF InExitsOnly, BotStates
    <2> QED
        BY <1>2, <2>1, <2>2, AtPoll DEF Leaves, Guarded
<1>3. CASE CodeFails
    BY <1>2, <1>3, AtPoll, ManageKeeps DEF CodeFails, broker
<1>4. CASE CodeRefused
    <2>1. CASE Manage(InExitsOnly, Failing)
        BY <1>2, <1>4, <2>1, AtPoll, ManageKeeps DEF CodeRefused, broker
    <2>2. CASE /\ bot' = InExitsOnly /\ mem' = Failing /\ disk' = bot' /\ UNCHANGED <<pc, hist>>
        <3>1. Polls /\ mem.failure = "none" /\ UNCHANGED <<held, closing, odd, live>>
            BY <1>4 DEF CodeRefused, broker
        <3>2. /\ InExitsOnly \in BotStates /\ InExitsOnly.tracked = bot.tracked
              /\ Failing \in Memories /\ Leaves(InExitsOnly, Failing)
              /\ (held => Guarded(InExitsOnly))
            BY <1>2, <3>1, AtPoll DEF InExitsOnly, BotStates
        <3>3. /\ bot' = InExitsOnly /\ mem' = Failing /\ disk' = bot' /\ pc' = "sleep"
              /\ hist' = hist /\ live' /\ bot' \in BotStates
            BY <2>2, <3>1, <3>2, AtPoll
        <3>4. TypeOK'
            BY <3>1, <3>2, <3>3 DEF IInv, TypeOK
        <3>5. Known'
            BY <3>1, <3>2, <3>3 DEF Known, Guarded
        <3>6. Seen'
            BY <3>1, <3>2, <3>3 DEF Seen, Leaves
        <3> QED
            BY <3>4, <3>5, <3>6 DEF IInv
    <2> QED
        BY <1>4, <2>1, <2>2 DEF CodeRefused
<1>5. CASE ExitsTick
    <2>1. CASE Manage(bot, [mem EXCEPT !.why = "failed"])
        <3> DEFINE m == [mem EXCEPT !.why = "failed"]
        <3>1. /\ m \in Memories /\ m.failure = mem.failure /\ m.missing = mem.missing
              /\ mem.failure # "none"
            BY AtPoll, <1>5 DEF Memories, ExitsTick
        <3>2. Manage(bot, m)
            BY <2>1
        <3> HIDE DEF m
        <3>3. Leaves(bot, m)
            BY <1>5, <3>1, AtPoll DEF Leaves, ExitsTick, broker
        <3> QED
            BY <1>5, <3>1, <3>2, <3>3, AtPoll, ManageKeeps DEF ExitsTick
    <2>2. CASE disk' = bot /\ UNCHANGED <<bot, mem, pc, hist>>
        BY <1>5, <2>2, AtPoll DEF ExitsTick, broker, IInv, TypeOK, Known, Seen
    <2> QED
        BY <1>5, <2>1, <2>2 DEF ExitsTick
<1> QED
    BY <1>1, <1>3, <1>4, <1>5

LEMMA MainKeeps ==
    ASSUME IInv, MainTick \/ MainEnters \/ MainExits \/ MainFails PROVE IInv'
<1>1. CASE MainTick
    <2>1. mem' \in Memories /\ mem'.failure = mem.failure /\ mem'.missing = 0 /\ odd' \in BOOLEAN
        BY <1>1, AtPoll DEF MainTick, SeenRight, Memories, IInv, TypeOK
    <2>2. Evaluated(bot) \in BotStates /\ Evaluated(bot).paused = bot.paused
        BY <1>1, AtPoll, EvaluatedType DEF MainTick
    <2>3. bot' \in BotStates /\ bot'.paused = bot.paused /\ (held => bot'.tracked)
        <3>1. CASE held
            BY <1>1, <2>2, <3>1, Worked DEF MainTick, Kept
        <3>2. CASE ~held
            BY <1>1, <3>2, AtPoll, Clearing, Worked DEF MainTick, Kept
        <3> QED
            BY <3>1, <3>2
    <2>4. /\ disk' \in {disk, bot'} /\ (held => disk' = disk)
          /\ UNCHANGED <<held, closing, pc, live, hist>> /\ live /\ pc = "sleep"
        BY <1>1, AtPoll DEF MainTick
    <2> QED
        BY <1>1, <2>1, <2>3, <2>4, AtPoll DEF IInv, TypeOK, Known, Guarded, Seen
<1>2. CASE MainEnters
    <2>1. bot' \in BotStates /\ bot'.paused = bot.paused /\ bot'.tracked
        BY <1>2, AtPoll, Counted, Zero DEF MainEnters, Kept
    <2>2. mem.missing = 1 => odd
        BY <1>2, AtPoll DEF MainEnters
    <2> QED
        BY <1>2, <2>1, <2>2, AtPoll DEF MainEnters, IInv, TypeOK, Known, Guarded, Seen
<1>3. CASE MainExits
    <2>1. mem' \in Memories /\ mem'.failure = mem.failure /\ mem'.missing = 0 /\ odd' \in BOOLEAN
        BY <1>3, AtPoll DEF MainExits, SeenRight, Memories, IInv, TypeOK
    <2>2. Evaluated(bot) \in BotStates /\ Evaluated(bot).paused = bot.paused
        BY <1>3, AtPoll, EvaluatedType DEF MainExits
    <2>3. /\ bot' \in BotStates /\ bot'.paused = bot.paused /\ disk' = bot'
          /\ (held' => bot'.tracked) /\ held' \in BOOLEAN
          /\ closing' \in {"none", "working"}
        <3>1. CASE held' = FALSE /\ UNCHANGED closing /\ bot' = [Cleared(bot) EXCEPT !.done = TRUE]
            <4>1. Kept(Cleared(bot), bot)
                BY <1>3, AtPoll, Clearing DEF MainExits
            <4>2. Kept([Cleared(bot) EXCEPT !.done = TRUE], Cleared(bot))
                BY <4>1, Worked DEF Kept
            <4>3. closing' = "none" /\ disk' = bot'
                BY <1>3, <3>1 DEF MainExits
            <4> QED
                BY <3>1, <4>1, <4>2, <4>3 DEF Kept
        <3>2. CASE /\ closing' = "working" /\ UNCHANGED held
                   /\ bot' = [Evaluated(bot) EXCEPT !.tracked = TRUE, !.done = TRUE]
            BY <1>3, <2>2, <3>2, AtPoll, Worked DEF MainExits, Kept
        <3> QED
            BY <1>3, <3>1, <3>2 DEF MainExits
    <2> QED
        BY <1>3, <2>1, <2>3, AtPoll DEF MainExits, IInv, TypeOK, Known, Guarded, Seen
<1>4. CASE MainFails
    <2>1. /\ bot' \in BotStates /\ bot'.paused = bot.paused /\ bot'.tracked = bot.tracked
          /\ bot.tracked /\ disk' = bot'
        BY <1>4, AtPoll, EvaluatedType DEF MainFails
    <2>2. mem' \in Memories /\ mem'.failure = mem.failure /\ mem'.missing = mem.missing
        BY <1>4, AtPoll DEF MainFails, MayBeDue, Memories
    <2> QED
        BY <1>4, <2>1, <2>2, AtPoll DEF MainFails, broker, IInv, TypeOK, Known, Guarded, Seen
<1> QED
    BY <1>1, <1>2, <1>3, <1>4

\* What is known at an await.
LEMMA AtAwait ==
    ASSUME IInv, pc # "sleep"
    PROVE  /\ bot \in BotStates /\ mem \in Memories /\ live
           /\ (held => Guarded(bot))
           /\ (mem.failure = "flat" => ~held)
           /\ (mem.failure = "none" => mem.why = "reference")
           /\ (mem.missing = 1 => odd \/ (~held /\ (bot.tracked \/ mem.failure = "mayhold")))
BY DEF IInv, TypeOK, Known, Seen

\* A tick goes on to its next await.
LEMMA GoesOn ==
    ASSUME IInv, NEW b, NEW m, Leaves(b, m), held => Guarded(b), Same,
           m.failure = "none" => m.why = "reference",
           bot' = b, mem' = m, pc' = "verify", UNCHANGED <<disk, hist>>
    PROVE  IInv'
<1>1. TypeOK'
    BY DEF IInv, TypeOK, Leaves, Same
<1>2. Known'
    BY DEF IInv, Known, Same
<1>3. Seen'
    BY DEF Seen, Leaves, Same
<1> QED
    BY <1>1, <1>2, <1>3 DEF IInv

LEMMA Remembers ==
    ASSUME NEW m \in Memories, NEW x \in BOOLEAN, NEW c \in 0..1
    PROVE  /\ [m EXCEPT !.missing = c, !.ran = TRUE, !.due = x] \in Memories
           /\ [m EXCEPT !.missing = c, !.ran = TRUE, !.due = x].failure = m.failure
           /\ [m EXCEPT !.missing = c, !.ran = TRUE, !.due = x].why = m.why
           /\ [m EXCEPT !.missing = c, !.ran = TRUE, !.due = x].missing = c
           /\ [m EXCEPT !.problem = TRUE] \in Memories
           /\ [m EXCEPT !.problem = TRUE].failure = m.failure
           /\ [m EXCEPT !.problem = TRUE].why = m.why
           /\ [m EXCEPT !.problem = TRUE].missing = m.missing
           /\ [m EXCEPT !.ran = TRUE, !.due = x, !.blind = TRUE] \in Memories
           /\ [m EXCEPT !.ran = TRUE, !.due = x, !.blind = TRUE].failure = m.failure
           /\ [m EXCEPT !.ran = TRUE, !.due = x, !.blind = TRUE].why = m.why
           /\ [m EXCEPT !.ran = TRUE, !.due = x, !.blind = TRUE].missing = m.missing
BY DEF Memories

LEMMA Remembers2 ==
    ASSUME NEW m \in Memories, NEW x \in BOOLEAN, NEW c \in 0..1
    PROVE  /\ [m EXCEPT !.missing = c] \in Memories
           /\ [m EXCEPT !.missing = c].failure = m.failure
           /\ [m EXCEPT !.missing = c].why = m.why
           /\ [m EXCEPT !.missing = c].missing = c
           /\ [m EXCEPT !.missing = c, !.problem = TRUE] \in Memories
           /\ [m EXCEPT !.missing = c, !.problem = TRUE].failure = m.failure
           /\ [m EXCEPT !.missing = c, !.problem = TRUE].why = m.why
           /\ [m EXCEPT !.missing = c, !.problem = TRUE].missing = c
           /\ [m EXCEPT !.empty = x] \in Memories
           /\ [m EXCEPT !.empty = x].failure = m.failure
           /\ [m EXCEPT !.empty = x].why = m.why
           /\ [m EXCEPT !.empty = x].missing = m.missing
           /\ [m EXCEPT !.empty = x].empty = x
           /\ [m EXCEPT !.due = TRUE, !.problem = TRUE] \in Memories
           /\ [m EXCEPT !.due = TRUE, !.problem = TRUE].failure = m.failure
           /\ [m EXCEPT !.due = TRUE, !.problem = TRUE].why = m.why
           /\ [m EXCEPT !.due = TRUE, !.problem = TRUE].missing = m.missing
           /\ [m EXCEPT !.due = FALSE] \in Memories
           /\ [m EXCEPT !.due = FALSE].failure = m.failure
           /\ [m EXCEPT !.due = FALSE].why = m.why
           /\ [m EXCEPT !.due = FALSE].missing = m.missing
BY DEF Memories

LEMMA ZeroOne == 0 \in 0..1 /\ 1 \in 0..1
OBVIOUS

LEMMA Found ==
    ASSUME NEW m \in Memories, NEW x \in BOOLEAN
    PROVE  /\ [m EXCEPT !.missing = 0, !.ran = TRUE, !.due = x] \in Memories
           /\ [m EXCEPT !.missing = 0, !.ran = TRUE, !.due = x].failure = m.failure
           /\ [m EXCEPT !.missing = 0, !.ran = TRUE, !.due = x].why = m.why
           /\ [m EXCEPT !.missing = 0, !.ran = TRUE, !.due = x].missing = 0
BY ZeroOne DEF Memories

LEMMA Dues ==
    ASSUME mem \in Memories, NEW x \in MayBeDue PROVE x \in BOOLEAN
BY DEF MayBeDue, Memories

LEMMA CheckKeeps ==
    ASSUME IInv, CheckHeld \/ CheckFailed \/ CheckMissing PROVE IInv'
<1>1. CASE CheckHeld
    <2>1. PICK a \in Answers("check"), due \in MayBeDue :
              /\ a.sees = "held" /\ Checked(a)
              /\ LET b == Evaluated([bot EXCEPT !.tracked = TRUE])
                     m == [mem EXCEPT !.missing = 0, !.ran = TRUE, !.due = due] IN
                 IF due THEN bot' = b /\ mem' = m /\ pc' = "verify" /\ UNCHANGED <<disk, hist>>
                        ELSE Ends(b, m)
        BY <1>1 DEF CheckHeld
    <2> DEFINE b == Evaluated([bot EXCEPT !.tracked = TRUE])
               m == [mem EXCEPT !.missing = 0, !.ran = TRUE, !.due = due]
    <2>2. pc = "check" /\ UNCHANGED <<held, closing, live>> /\ odd' \in BOOLEAN
        BY <1>1, <2>1, Looked DEF CheckHeld, IInv
    <2>3. b \in BotStates /\ b.tracked /\ b.exitsOnly = bot.exitsOnly /\ b.paused = bot.paused
        BY <2>2, AtAwait, Worked, EvaluatedType DEF Kept
    <2>4. due \in BOOLEAN
        BY <2>2, AtAwait, Dues
    <2>5. m \in Memories /\ m.failure = mem.failure /\ m.why = mem.why /\ m.missing = 0
        BY <2>2, <2>4, AtAwait, Found
    <2>6. IF due THEN bot' = b /\ mem' = m /\ pc' = "verify" /\ UNCHANGED <<disk, hist>>
                 ELSE Ends(b, m)
        BY <2>1
    <2> HIDE DEF b, m
    <2>7. Leaves(b, m) /\ (held => Guarded(b)) /\ Same
        BY <2>2, <2>3, <2>5, AtAwait DEF Leaves, Guarded, Same
    <2> QED
        BY <2>2, <2>5, <2>6, <2>7, AtAwait, GoesOn, EndsKeeps
<1>2. CASE CheckFailed
    <2> DEFINE p == [mem EXCEPT !.problem = TRUE]
    <2>1. pc = "check" /\ UNCHANGED <<held, closing, odd, live>> /\ odd' \in BOOLEAN
        BY <1>2 DEF CheckFailed, broker, IInv, TypeOK
    <2>2. p \in Memories /\ p.failure = mem.failure /\ p.why = mem.why /\ p.missing = mem.missing
        BY <2>1, AtAwait, Remembers, ZeroOne
    <2>3. CASE Ends(bot, p)
        <3> HIDE DEF p
        <3>1. Leaves(bot, p) /\ Same
            BY <2>1, <2>2, AtAwait DEF Leaves, Same
        <3> QED
            BY <2>1, <2>3, <3>1, AtAwait, EndsKeeps
    <2>4. ASSUME NEW due \in MayBeDue,
                 LET b == Evaluated(bot)
                     m == [p EXCEPT !.ran = TRUE, !.due = due, !.blind = TRUE] IN
                 IF due THEN bot' = b /\ mem' = m /\ pc' = "verify" /\ UNCHANGED <<disk, hist>>
                        ELSE Ends(b, m)
          PROVE  IInv'
        <3> DEFINE b == Evaluated(bot)
                   m == [p EXCEPT !.ran = TRUE, !.due = due, !.blind = TRUE]
        <3>1. b \in BotStates /\ b.tracked = bot.tracked /\ b.exitsOnly = bot.exitsOnly
              /\ b.paused = bot.paused
            BY <2>1, AtAwait, EvaluatedType
        <3>2. due \in BOOLEAN
            BY <2>1, AtAwait, Dues
        <3> HIDE DEF p
        <3>3. m \in Memories /\ m.failure = p.failure /\ m.why = p.why /\ m.missing = p.missing
            BY <2>2, <3>2, Remembers, ZeroOne
        <3>4. IF due THEN bot' = b /\ mem' = m /\ pc' = "verify" /\ UNCHANGED <<disk, hist>>
                     ELSE Ends(b, m)
            BY <2>4
        <3> HIDE DEF b, m
        <3>5. Leaves(b, m) /\ (held => Guarded(b)) /\ Same
            BY <2>1, <2>2, <3>1, <3>3, AtAwait DEF Leaves, Guarded, Same
        <3> QED
            BY <2>1, <2>2, <3>3, <3>4, <3>5, AtAwait, GoesOn, EndsKeeps
    <2> QED
        BY <1>2, <2>3, <2>4 DEF CheckFailed
<1>3. CASE CheckMissing
    <2>1. PICK a \in Answers("check") :
              a.sees = "none" /\ Checked(a) /\ mem' = [mem EXCEPT !.empty = a.empty]
        BY <1>3 DEF CheckMissing
    <2>2. pc = "check" /\ bot.tracked /\ pc' = "confirm"
          /\ UNCHANGED <<held, closing, bot, disk, live, hist>>
        BY <1>3 DEF CheckMissing
    <2>3. /\ odd' \in BOOLEAN /\ a.empty \in BOOLEAN
          /\ (~a.empty /\ held => ~odd /\ odd') /\ (odd => odd')
        BY <2>1, Looked, AnyList DEF IInv
    <2>4. mem' \in Memories /\ mem'.failure = mem.failure /\ mem'.why = mem.why
          /\ mem'.missing = mem.missing /\ mem'.empty = a.empty
        BY <2>1, <2>2, <2>3, AtAwait, Remembers2, ZeroOne
    <2>5. mem.missing \in 0..1
        BY <2>2, AtAwait DEF Memories
    <2>6. TypeOK'
        BY <2>2, <2>3, <2>4 DEF IInv, TypeOK
    <2>7. Known'
        BY <2>2 DEF IInv, Known
    <2>8. Seen'
        BY <2>2, <2>3, <2>4, <2>5, AtAwait DEF Seen
    <2> QED
        BY <2>6, <2>7, <2>8 DEF IInv
<1> QED
    BY <1>1, <1>2, <1>3

LEMMA FlatKeeps ==
    ASSUME IInv, CheckFlat PROVE IInv'
<1>1. PICK a \in Answers("check") :
          /\ a.sees = "none" /\ Checked(a)
          /\ LET m == [mem EXCEPT !.empty = a.empty] IN
             IF mem.failure # "mayhold" THEN EndsFlat(bot, m)
             ELSE IF a.empty THEN Ends(bot, [m EXCEPT !.problem = TRUE])
             ELSE IF mem.missing = 1 THEN EndsFlat(bot, [m EXCEPT !.missing = 0])
             ELSE Ends(bot, [m EXCEPT !.missing = 1, !.problem = TRUE])
    BY DEF CheckFlat
<1> DEFINE m == [mem EXCEPT !.empty = a.empty]
<1>2. pc = "check" /\ ~bot.tracked /\ UNCHANGED <<held, closing, live>>
    BY DEF CheckFlat
<1>3. /\ odd' \in BOOLEAN /\ a.empty \in BOOLEAN
      /\ (~a.empty /\ held => ~odd /\ odd') /\ (odd => odd')
    BY <1>1, Looked, AnyList DEF IInv
<1>4. m \in Memories /\ m.failure = mem.failure /\ m.why = mem.why /\ m.missing = mem.missing
    <2>1. mem \in Memories
        BY <1>2, AtAwait
    <2> QED
        BY <1>3, <2>1 DEF Memories
<1>5. IF mem.failure # "mayhold" THEN EndsFlat(bot, m)
      ELSE IF a.empty THEN Ends(bot, [m EXCEPT !.problem = TRUE])
      ELSE IF mem.missing = 1 THEN EndsFlat(bot, [m EXCEPT !.missing = 0])
      ELSE Ends(bot, [m EXCEPT !.missing = 1, !.problem = TRUE])
    BY <1>1
<1>6. Same
    BY <1>2, <1>3, AtAwait DEF Same
<1> HIDE DEF m
<1>7. CASE mem.failure # "mayhold"
    <2>1. Leaves(bot, m)
        BY <1>2, <1>3, <1>4, AtAwait DEF Leaves
    <2>2. held => Guarded(bot) /\ m.why = "reference"
        BY <1>2, <1>4, <1>7, AtAwait DEF Memories
    <2> QED
        BY <1>2, <1>4, <1>5, <1>6, <1>7, <2>1, <2>2, AtAwait, EndsFlatKeeps
<1>8. CASE mem.failure = "mayhold" /\ a.empty
    <2> DEFINE q == [m EXCEPT !.problem = TRUE]
    <2>1. q \in Memories /\ q.failure = mem.failure /\ q.missing = mem.missing
        BY <1>3, <1>4, Remembers, ZeroOne
    <2>2. Ends(bot, q)
        BY <1>5, <1>8
    <2> HIDE DEF q
    <2>3. Leaves(bot, q)
        BY <1>2, <1>3, <2>1, AtAwait DEF Leaves
    <2> QED
        BY <1>2, <1>6, <2>2, <2>3, AtAwait, EndsKeeps
<1>9. CASE mem.failure = "mayhold" /\ ~a.empty /\ mem.missing = 1
    <2> DEFINE q == [m EXCEPT !.missing = 0]
    <2>1. q \in Memories /\ q.failure = mem.failure /\ q.missing = 0 /\ q.why = mem.why
        BY <1>3, <1>4, Remembers2, ZeroOne
    <2>2. EndsFlat(bot, q)
        BY <1>5, <1>9
    <2>3. ~held
        BY <1>2, <1>3, <1>9, AtAwait
    <2> HIDE DEF q
    <2>4. Leaves(bot, q)
        BY <1>2, <2>1, AtAwait DEF Leaves
    <2> QED
        BY <1>2, <1>6, <1>9, <2>1, <2>2, <2>3, <2>4, AtAwait, EndsFlatKeeps
<1>10. CASE mem.failure = "mayhold" /\ ~a.empty /\ mem.missing # 1
    <2> DEFINE q == [m EXCEPT !.missing = 1, !.problem = TRUE]
    <2>1. q \in Memories /\ q.failure = mem.failure /\ q.missing = 1
        BY <1>3, <1>4, Remembers2, ZeroOne
    <2>2. Ends(bot, q)
        BY <1>5, <1>10
    <2> HIDE DEF q
    <2>3. Leaves(bot, q)
        BY <1>2, <1>3, <1>10, <2>1, AtAwait DEF Leaves
    <2> QED
        BY <1>2, <1>6, <2>2, <2>3, AtAwait, EndsKeeps
<1> QED
    BY <1>3, <1>7, <1>8, <1>9, <1>10

LEMMA ConfirmKeeps ==
    ASSUME IInv, ConfirmGone \/ NotConfirmed PROVE IInv'
<1>1. pc = "confirm" /\ UNCHANGED <<held, closing, odd, live>> /\ odd' \in BOOLEAN
    BY DEF ConfirmGone, NotConfirmed, broker, IInv, TypeOK
<1>2. bot.tracked /\ (held /\ ~mem.empty => odd /\ mem.missing = 0) /\ Same
    BY <1>1, AtAwait DEF IInv, Seen, Same
<1>3. CASE ConfirmGone
    <2>1. ~held
        BY <1>2, <1>3 DEF ConfirmGone
    <2> DEFINE q == [mem EXCEPT !.missing = 0]
    <2>2. PICK drawdown \in BOOLEAN : EndsFlat([Cleared(bot) EXCEPT !.paused = drawdown], q)
        BY <1>3 DEF ConfirmGone
    <2> DEFINE b == [Cleared(bot) EXCEPT !.paused = drawdown]
    <2>3. b \in BotStates
        BY <1>1, AtAwait, Clearing DEF Kept, BotStates
    <2>4. q \in Memories /\ q.failure = mem.failure /\ q.missing = 0 /\ q.why = mem.why
        <3>1. mem \in Memories
            BY <1>1, AtAwait
        <3> QED
            BY <3>1 DEF Memories
    <2>5. EndsFlat(b, q)
        BY <2>2
    <2> HIDE DEF b, q
    <2>6. Leaves(b, q)
        BY <2>1, <2>3, <2>4 DEF Leaves
    <2> QED
        BY <1>1, <1>2, <2>1, <2>4, <2>5, <2>6, AtAwait, EndsFlatKeeps
<1>4. CASE NotConfirmed
    <2> DEFINE c == IF mem.empty THEN mem.missing ELSE 1
               q == [mem EXCEPT !.missing = c, !.problem = TRUE]
    <2>1. mem \in Memories /\ mem.missing \in 0..1
        BY <1>1, AtAwait DEF Memories
    <2>2. Ends(bot, q)
        BY <1>4, <2>1 DEF NotConfirmed
    <2>3. c \in 0..1 /\ (c = 1 => mem.missing = 1 \/ ~mem.empty)
        BY <2>1
    <2> HIDE DEF c
    <2>4. q \in Memories /\ q.failure = mem.failure /\ q.missing = c
        BY <2>1, <2>3, Remembers2
    <2> HIDE DEF q
    <2>5. Leaves(bot, q)
        BY <1>1, <1>2, <2>3, <2>4, AtAwait DEF Leaves
    <2> QED
        BY <1>1, <1>2, <2>2, <2>5, AtAwait, EndsKeeps
<1> QED
    BY <1>3, <1>4

\* The attempt that leaves the position tracked.
LEMMA BarDoneKeeps ==
    ASSUME IInv, pc # "sleep", BarDone, UNCHANGED <<broker, live>> PROVE IInv'
<1> DEFINE b == [bot EXCEPT !.done = TRUE]
           q == [mem EXCEPT !.due = FALSE]
<1>1. b \in BotStates /\ b.tracked = bot.tracked /\ b.exitsOnly = bot.exitsOnly
      /\ b.paused = bot.paused
    BY AtAwait, Worked DEF Kept
<1>2. q \in Memories /\ q.failure = mem.failure /\ q.missing = mem.missing
    BY AtAwait, Remembers2, ZeroOne
<1>3. Ends(b, q)
    BY DEF BarDone
<1> HIDE DEF b, q
<1>4. Leaves(b, q) /\ (held => Guarded(b)) /\ Same
    BY <1>1, <1>2, AtAwait DEF Leaves, Guarded, Same, broker, IInv, TypeOK
<1> QED
    BY <1>3, <1>4, EndsKeeps

LEMMA ExitKeeps ==
    ASSUME IInv, RightLists, ExitStep PROVE IInv'
<1>1. CASE NotSent
    <2> DEFINE q == [mem EXCEPT !.due = TRUE, !.problem = TRUE]
    <2>1. pc = "verify" /\ UNCHANGED <<held, closing, odd, live>>
        BY <1>1 DEF NotSent, broker
    <2>2. q \in Memories /\ q.failure = mem.failure /\ q.missing = mem.missing
        BY <2>1, AtAwait, Remembers2, ZeroOne
    <2>3. Ends(bot, q)
        BY <1>1 DEF NotSent
    <2> HIDE DEF q
    <2>4. Leaves(bot, q) /\ Same
        BY <2>1, <2>2, AtAwait DEF Leaves, Same, IInv, TypeOK
    <2> QED
        BY <2>1, <2>3, <2>4, AtAwait, EndsKeeps
<1>2. CASE VerifyOk
    <2>1. held
        BY <1>2, AnyList DEF VerifyOk, IInv
    <2>2. closing' \in {"none", "working", "cancelling"}
        BY <1>2 DEF VerifyOk, IInv, TypeOK
    <2> QED
        BY <1>2, <2>1, <2>2, AtAwait DEF VerifyOk, IInv, TypeOK, Known, Seen
<1>3. CASE CloseAccepted
    BY <1>3 DEF CloseAccepted, IInv, TypeOK, Known, Seen
<1>4. CASE CloseRefused
    BY <1>4, BarDoneKeeps DEF CloseRefused
<1>5. CASE PostCloseGivesUp
    BY <1>5, BarDoneKeeps DEF PostCloseGivesUp
<1>6. CASE PostCloseGone
    <2>1. ~held
        BY <1>6, RightList DEF PostCloseGone, RightLists
    <2>2. pc = "postclose" /\ UNCHANGED <<held, closing, odd, live>>
        BY <1>6 DEF PostCloseGone, broker
    <2> DEFINE q == [mem EXCEPT !.due = FALSE]
    <2>3. PICK drawdown \in BOOLEAN :
              LET b == [Cleared(bot) EXCEPT !.done = TRUE, !.paused = drawdown] IN
              IF mem.blind THEN Ends(b, q) /\ disk' = bot' ELSE EndsFlat(b, q)
        BY <1>6 DEF PostCloseGone
    <2> DEFINE b == [Cleared(bot) EXCEPT !.done = TRUE, !.paused = drawdown]
    <2>4. b \in BotStates
        BY <2>2, AtAwait, Clearing DEF Kept, BotStates
    <2>5. q \in Memories /\ q.failure = mem.failure /\ q.missing = mem.missing /\ q.why = mem.why
        BY <2>2, AtAwait, Remembers2, ZeroOne
    <2>6. Ends(b, q) \/ EndsFlat(b, q)
        BY <2>3
    <2> HIDE DEF b, q
    <2>7. mem.missing = 1 => odd
        BY <2>2 DEF IInv, Seen
    <2>8. Leaves(b, q) /\ Same
        BY <2>1, <2>2, <2>4, <2>5, <2>7, AtAwait DEF Leaves, Same, IInv, TypeOK
    <2> QED
        BY <2>1, <2>2, <2>5, <2>6, <2>8, AtAwait, EndsKeeps, EndsFlatKeeps
<1> QED
    BY <1>1, <1>2, <1>3, <1>4, <1>5, <1>6 DEF ExitStep

LEMMA StartsKeeps ==
    ASSUME IInv, NEW b \in BotStates, held => Guarded(b), NEW refused \in BOOLEAN,
           Starts(b, refused)
    PROVE  IInv'
<1>1. /\ bot' \in BotStates
      /\ (held => Guarded(bot'))
    BY DEF Starts, Guarded, BotStates
<1>2. /\ disk' = bot' /\ mem' = Fresh(bot') /\ pc' = "sleep" /\ live' = ~bot'.paused
      /\ UNCHANGED <<held, closing, odd, hist>>
    BY DEF Starts, broker
<1>3. bot'.exitsOnly \in BOOLEAN /\ bot'.done \in BOOLEAN /\ bot'.paused \in BOOLEAN
    BY <1>1 DEF BotStates
<1>4. Fresh(bot') \in Memories /\ Fresh(bot').failure # "flat" /\ Fresh(bot').missing = 0
    BY <1>3 DEF Fresh, Memories
<1>5. TypeOK'
    BY <1>1, <1>2, <1>3, <1>4 DEF IInv, TypeOK
<1>6. Known'
    BY <1>1, <1>2 DEF Known
<1>7. Seen'
    BY <1>2, <1>4 DEF Seen
<1> QED
    BY <1>5, <1>6, <1>7 DEF IInv

LEMMA UserKeeps ==
    ASSUME IInv, RightLists, StopsInExits, UserStep PROVE IInv'
<1>1. /\ bot \in BotStates /\ disk \in BotStates
      /\ (held => Guarded(bot) /\ Guarded(disk))
    BY DEF IInv, TypeOK, Known
<1>2. CASE Restart
    BY <1>1, <1>2, StartsKeeps DEF Restart
<1>3. CASE Crash
    BY <1>1, <1>3, StartsKeeps DEF Crash
<1>4. CASE Start
    <2>1. [bot EXCEPT !.paused = FALSE] \in BotStates
          /\ (held => Guarded([bot EXCEPT !.paused = FALSE]))
        BY <1>1 DEF BotStates, Guarded
    <2> QED
        BY <1>4, <2>1, StartsKeeps DEF Start
<1>5. CASE RunnerEnds
    BY <1>1, <1>5 DEF RunnerEnds, broker, IInv, TypeOK, Known, Seen
<1>6. CASE StopKeeps
    <2>1. bot.exitsOnly
        BY <1>6 DEF StopKeeps, StopsInExits
    <2>2. bot' \in BotStates /\ bot'.exitsOnly /\ bot'.paused = bot.paused
        BY <1>1, <1>6, <2>1 DEF StopKeeps, Stopped, BotStates
    <2> QED
        BY <1>1, <1>6, <2>2 DEF StopKeeps, Stopped, IInv, TypeOK, Known, Guarded, Seen
<1>7. CASE StopCloses
    BY <1>7 DEF StopCloses, StopsInExits
<1>8. CASE GraphUpdate
    <2>1. ~held
        BY <1>8, RightList DEF GraphUpdate, RightLists
    <2>2. bot' \in BotStates /\ bot'.tracked = bot.tracked
        BY <1>1, <1>8 DEF GraphUpdate, BotStates
    <2> QED
        BY <1>1, <1>8, <2>1, <2>2 DEF GraphUpdate, broker, IInv, TypeOK, Known, Seen
<1> QED
    BY <1>2, <1>3, <1>4, <1>5, <1>6, <1>7, <1>8 DEF UserStep

LEMMA IInvInit == Init => IInv
<1> SUFFICES ASSUME Init PROVE IInv
    OBVIOUS
<1>1. bot \in BotStates /\ bot.tracked = held /\ ~bot.paused /\ ~bot.exitsOnly
    BY Zero DEF Init, BotStates
<1>2. mem \in Memories /\ mem.failure = "none" /\ mem.missing = 0
    BY <1>1 DEF Init, Fresh, Memories, BotStates
<1>3. /\ disk = bot /\ held \in BOOLEAN /\ closing = "none" /\ odd = FALSE /\ pc = "sleep"
      /\ live = TRUE /\ hist = [finished |-> FALSE]
    BY DEF Init
<1>4. TypeOK
    BY <1>1, <1>2, <1>3 DEF TypeOK
<1> QED
    BY <1>1, <1>2, <1>3, <1>4 DEF IInv, Known, Guarded, Seen

LEMMA IInvNext ==
    ASSUME RightLists, StopsInExits, IInv, [Next]_vars PROVE IInv'
<1>1. CASE UNCHANGED vars
    BY <1>1 DEF vars, IInv, TypeOK, Known, Seen
<1>2. CASE Next
    BY <1>2, BrokerKeeps, FailureKeeps, MainKeeps, CheckKeeps, FlatKeeps, ConfirmKeeps,
       ExitKeeps, UserKeeps DEF Next, RunnerStep, PollStep, CheckStep
<1> QED
    BY <1>1, <1>2

LEMMA IInvHolds ==
    ASSUME RightLists, StopsInExits PROVE Spec => []IInv
BY IInvInit, IInvNext, PTL DEF Spec

\* No bot is paused for its code while the broker holds a position of it, whatever the
\* position checks leave out: two odd lists in a row never come (bot_runner.py
\* _manage_without_signals, _untracked_flat_problem, review MT-1).
THEOREM PausesFlat ==
    ASSUME RightLists, StopsInExits PROVE Spec => []PausedIsFlat
<1>1. IInv => PausedIsFlat
    BY DEF IInv, Known, Guarded, PausedIsFlat
<1> QED
    BY <1>1, IInvHolds, PTL

\* What memory, bots.json and the runner's locals hold has its type (bot_runner.py
\* BotState, BotRunner.__init__).
THEOREM TypeCorrect ==
    ASSUME RightLists, StopsInExits PROVE Spec => []TypeOK
<1>1. IInv => TypeOK
    BY DEF IInv
<1> QED
    BY <1>1, IInvHolds, PTL

----------------------------------------------------------------------------
(* No bar is counted twice.                                                     *)

\* A bar whose exits ran is done, and whoever may still hold a position on it is in the
\* exits-only state and remembers that the exits ran.
Finished ==
    hist.finished =>
        /\ bot.done
        /\ held \/ bot.tracked =>
             bot.exitsOnly /\ (live => mem.ran /\ mem.failure # "none")
        /\ pc # "sleep" => mem.why # "reference"

\* A runner whose code failed and a position are only together in the exits-only state.
Confined == live /\ mem.failure # "none" /\ (held \/ bot.tracked) => bot.exitsOnly

CInv == IInv /\ Finished /\ Confined

\* What a tick may leave behind in b and m.
Counts(b, m) ==
    /\ hist.finished => /\ b.done /\ m.why # "reference"
                        /\ held \/ b.tracked => b.exitsOnly /\ m.ran
    /\ m.failure # "none" /\ (held \/ b.tracked) => b.exitsOnly
    /\ m.failure = "none" => m.why = "reference"

\* The bar is not counted by this step.
NotCounted == hist.finished /\ hist'.finished => bot'.counted <= bot.counted

LEMMA MarkedCount ==
    ASSUME NEW b \in BotStates, NEW m \in Memories
    PROVE  /\ Marked(b, m).counted = b.counted
           /\ b.done => Marked(b, m).done
           /\ m.why # "reference" /\ m.ran /\ ~m.due => Marked(b, m).done
BY DEF Marked, BotStates

LEMMA EndsCounts ==
    ASSUME CInv, NEW b \in BotStates, NEW m \in Memories, Counts(b, m),
           UNCHANGED <<held, live>>, live, Ends(b, m)
    PROVE  Finished' /\ Confined' /\ bot'.counted = b.counted
<1> DEFINE e == Marked(b, m)
<1>1. /\ e.tracked = b.tracked /\ e.exitsOnly = b.exitsOnly /\ e.counted = b.counted
      /\ (b.done => e.done) /\ (m.why # "reference" /\ m.ran /\ ~m.due => e.done)
    BY MarkedType, MarkedCount
<1>2. /\ bot' = e /\ mem' = m /\ pc' = "sleep"
      /\ hist'.finished = (hist.finished \/ (m.why # "reference" /\ m.ran /\ ~m.due))
    BY DEF Ends
<1> HIDE DEF e
<1>3. hist'.finished => hist.finished \/ (m.why # "reference" /\ m.ran /\ ~m.due)
    BY <1>2
<1>4. Finished'
    BY <1>1, <1>2, <1>3 DEF Finished, Counts
<1>5. Confined'
    BY <1>1, <1>2 DEF Confined, Counts
<1> QED
    BY <1>1, <1>2, <1>4, <1>5

LEMMA EndsFlatCounts ==
    ASSUME NEW b, NEW m, EndsFlat(b, m), UNCHANGED <<held, live>>, live,
           m.failure # "none" /\ (held \/ b.tracked) => b.exitsOnly /\ m.why = "reference",
           b \in BotStates
    PROVE  Finished' /\ Confined' /\ ~hist'.finished
<1>1. ~hist'.finished
    BY DEF EndsFlat
<1>2. /\ bot'.tracked = b.tracked /\ (m.why = "reference" => bot'.exitsOnly = b.exitsOnly)
      /\ mem' = m
    BY DEF EndsFlat, BotStates
<1> QED
    BY <1>1, <1>2 DEF Finished, Confined

\* A tick goes on to an await.
LEMMA AwaitCounts ==
    ASSUME NEW b, NEW m, Counts(b, m), UNCHANGED <<held, live, hist>>, live,
           bot' = b, mem'.failure = m.failure, mem'.why = m.why, mem'.ran = m.ran
    PROVE  Finished' /\ Confined'
BY DEF Finished, Confined, Counts

LEMMA ManageCounts ==
    ASSUME CInv, NEW b \in BotStates, NEW m \in Memories, Counts(b, m),
           UNCHANGED <<held, live>>, live, Manage(b, m)
    PROVE  Finished' /\ Confined' /\ bot'.counted = b.counted
<1>1. CASE m.ran /\ ~m.due /\ ~m.problem
    BY <1>1, EndsCounts DEF Manage
<1>2. CASE ~(m.ran /\ ~m.due /\ ~m.problem)
    <2>1. /\ bot' = b /\ mem' = [m EXCEPT !.problem = FALSE, !.blind = FALSE]
          /\ UNCHANGED <<disk, hist>>
        BY <1>2 DEF Manage
    <2>2. mem'.failure = m.failure /\ mem'.why = m.why /\ mem'.ran = m.ran
        BY <2>1 DEF Memories
    <2> QED
        BY <2>1, <2>2, AwaitCounts
<1> QED
    BY <1>1, <1>2

LEMMA Types ==
    ASSUME CInv
    PROVE  /\ bot \in BotStates /\ mem \in Memories /\ bot.counted \in Int /\ 0 <= bot.counted
           /\ (pc # "sleep" => live)
BY DEF CInv, IInv, TypeOK, BotStates, Seen

\* What each step does to the counter and to the mark of a done bar.
LEMMA StatesCount ==
    ASSUME NEW b \in BotStates, NEW x \in BOOLEAN
    PROVE  /\ [b EXCEPT !.exitsOnly = TRUE].done = b.done
           /\ [b EXCEPT !.exitsOnly = TRUE].counted = b.counted
           /\ [b EXCEPT !.exitsOnly = TRUE].tracked = b.tracked
           /\ [b EXCEPT !.exitsOnly = TRUE].exitsOnly = TRUE
           /\ [b EXCEPT !.tracked = TRUE].done = b.done
           /\ [b EXCEPT !.tracked = TRUE].counted = b.counted
           /\ [b EXCEPT !.paused = x].done = b.done
           /\ [b EXCEPT !.paused = x].counted = b.counted
           /\ [b EXCEPT !.paused = x].tracked = b.tracked
           /\ [b EXCEPT !.paused = x].exitsOnly = b.exitsOnly
           /\ [b EXCEPT !.done = TRUE].counted = b.counted
           /\ [b EXCEPT !.done = TRUE].done = TRUE
           /\ Evaluated(b).done = b.done
           /\ mem.ran => Evaluated(b).counted = b.counted
BY DEF BotStates, Evaluated, CountBar

LEMMA RanKept ==
    ASSUME NEW m \in Memories, NEW x \in BOOLEAN, NEW c \in 0..1
    PROVE  /\ [m EXCEPT !.missing = c, !.ran = TRUE, !.due = x].ran
           /\ [m EXCEPT !.ran = TRUE, !.due = x, !.blind = TRUE].ran
           /\ [m EXCEPT !.problem = TRUE].ran = m.ran
           /\ [m EXCEPT !.missing = c].ran = m.ran
           /\ [m EXCEPT !.missing = c, !.problem = TRUE].ran = m.ran
           /\ [m EXCEPT !.empty = x].ran = m.ran
           /\ [m EXCEPT !.due = TRUE, !.problem = TRUE].ran = m.ran
           /\ [m EXCEPT !.due = FALSE].ran = m.ran
           /\ [m EXCEPT !.why = "reference"].ran = m.ran
           /\ [m EXCEPT !.why = "failed"].ran = m.ran
BY DEF Memories

LEMMA BrokerCounts ==
    ASSUME CInv, BrokerStep PROVE Finished' /\ Confined' /\ NotCounted
<1>1. CASE Fill
    BY <1>1, Types DEF Fill, CInv, Finished, Confined, NotCounted
<1>2. CASE CancelDone
    BY <1>2, Types DEF CancelDone, CInv, Finished, Confined, NotCounted
<1>3. CASE OutsideClose
    BY <1>3, Types DEF OutsideClose, CInv, Finished, Confined, NotCounted
<1>4. CASE NewBar
    <2>1. bot'.tracked = bot.tracked /\ bot'.exitsOnly = bot.exitsOnly /\ ~hist'.finished
        BY <1>4, Types DEF NewBar, BotStates
    <2>2. mem'.failure = mem.failure
        BY <1>4, Types DEF NewBar, Memories
    <2> QED
        BY <1>4, <2>1, <2>2 DEF NewBar, CInv, Finished, Confined, NotCounted
<1> QED
    BY <1>1, <1>2, <1>3, <1>4 DEF BrokerStep

LEMMA FailureCounts ==
    ASSUME CInv, ReferenceDown \/ CodeFails \/ CodeRefused \/ ExitsTick
    PROVE  Finished' /\ Confined' /\ NotCounted
<1>1. CASE ReferenceDown
    <2> DEFINE m == [mem EXCEPT !.why = "reference"]
    <2>1. /\ m \in Memories /\ m.failure = "none" /\ m.why = "reference"
          /\ live /\ UNCHANGED <<held, live>> /\ ~hist.finished
        BY <1>1, Types DEF Memories, ReferenceDown, Polls, broker, CInv, Finished
    <2>2. Manage(bot, m)
        BY <1>1 DEF ReferenceDown
    <2> HIDE DEF m
    <2>3. Counts(bot, m)
        BY <2>1 DEF Counts
    <2> QED
        BY <2>1, <2>2, <2>3, Types, ManageCounts DEF NotCounted
<1>2. ASSUME Polls, mem.failure = "none"
      PROVE  /\ Failing \in Memories /\ InExitsOnly \in BotStates /\ Counts(InExitsOnly, Failing)
             /\ InExitsOnly.counted = bot.counted /\ InExitsOnly.exitsOnly
             /\ InExitsOnly.done = bot.done
             /\ (hist.finished => ~(held \/ InExitsOnly.tracked))
    <2>1. /\ Failing \in Memories /\ Failing.why = "failing"
          /\ Failing.failure # "none"
        BY <1>2, Types DEF Failing, Memories
    <2>2. /\ InExitsOnly \in BotStates /\ InExitsOnly.tracked = bot.tracked
          /\ InExitsOnly.exitsOnly /\ InExitsOnly.done = bot.done
          /\ InExitsOnly.counted = bot.counted
        BY <1>2, Types, StatesCount DEF InExitsOnly, BotStates
    <2>3. live /\ (hist.finished => bot.done /\ ~(held \/ bot.tracked))
        BY <1>2 DEF Polls, CInv, Finished
    <2> QED
        BY <2>1, <2>2, <2>3 DEF Counts
<1>3. CASE CodeFails
    BY <1>2, <1>3, ManageCounts, Types DEF CodeFails, Polls, broker, NotCounted
<1>4. CASE CodeRefused
    <2>1. CASE Manage(InExitsOnly, Failing)
        BY <1>2, <1>4, <2>1, ManageCounts, Types DEF CodeRefused, Polls, broker, NotCounted
    <2>2. CASE /\ bot' = InExitsOnly /\ mem' = Failing /\ disk' = bot' /\ UNCHANGED <<pc, hist>>
        <3>1. Polls /\ mem.failure = "none" /\ UNCHANGED <<held, live>> /\ pc' = "sleep"
              /\ bot' = InExitsOnly /\ hist' = hist
            BY <1>4, <2>2 DEF CodeRefused, broker, Polls
        <3>2. Finished'
            BY <1>2, <3>1 DEF CInv, Finished
        <3>3. Confined'
            BY <1>2, <3>1 DEF Confined
        <3> QED
            BY <1>2, <3>1, <3>2, <3>3, Types DEF NotCounted
    <2> QED
        BY <1>4, <2>1, <2>2 DEF CodeRefused
<1>5. CASE ExitsTick
    <2>1. CASE Manage(bot, [mem EXCEPT !.why = "failed"])
        <3> DEFINE m == [mem EXCEPT !.why = "failed"]
        <3>1. /\ m \in Memories /\ m.failure = mem.failure /\ m.ran = mem.ran
              /\ mem.failure # "none" /\ m.why = "failed" /\ live /\ UNCHANGED <<held, live>>
            BY <1>5, Types, RanKept DEF Memories, ExitsTick, Polls, broker
        <3>2. Manage(bot, m)
            BY <2>1
        <3> HIDE DEF m
        <3>3. Counts(bot, m)
            BY <3>1 DEF Counts, CInv, Finished, Confined
        <3> QED
            BY <3>1, <3>2, <3>3, Types, ManageCounts DEF NotCounted
    <2>2. CASE disk' = bot /\ UNCHANGED <<bot, mem, pc, hist>>
        BY <1>5, <2>2, Types DEF ExitsTick, broker, CInv, Finished, Confined, NotCounted
    <2> QED
        BY <1>5, <2>1, <2>2 DEF ExitsTick
<1> QED
    BY <1>1, <1>3, <1>4, <1>5

LEMMA MainCounts ==
    ASSUME CInv, MainTick \/ MainEnters \/ MainExits \/ MainFails
    PROVE  Finished' /\ Confined' /\ NotCounted
<1>1. ~hist.finished /\ hist' = hist /\ mem.failure = "none"
    BY DEF MainTick, MainEnters, MainExits, MainFails, CInv, Finished
<1>2. mem'.failure = mem.failure
    <2>1. mem \in Memories
        BY Types
    <2>2. CASE MainTick \/ MainExits
        BY <2>1, <2>2 DEF MainTick, MainExits, SeenRight, Memories
    <2>3. CASE MainEnters
        BY <2>3 DEF MainEnters
    <2>4. CASE MainFails
        BY <2>1, <2>4 DEF MainFails, Memories
    <2> QED
        BY <2>2, <2>3, <2>4
<1> QED
    BY <1>1, <1>2 DEF Finished, Confined, NotCounted

\* What is known at an await, and of a tick that leaves what it found.
LEMMA CountsAtAwait ==
    ASSUME CInv, pc # "sleep"
    PROVE  /\ live /\ Counts(bot, mem)
           /\ hist.finished /\ (held \/ bot.tracked) => mem.ran
BY Types, AtAwait DEF CInv, Finished, Confined, Counts

LEMMA CheckCounts ==
    ASSUME CInv, CheckHeld \/ CheckFailed \/ CheckMissing
    PROVE  Finished' /\ Confined' /\ NotCounted
<1>1. CASE CheckHeld
    <2>1. PICK a \in Answers("check"), due \in MayBeDue :
              /\ a.sees = "held" /\ Checked(a)
              /\ LET b == Evaluated([bot EXCEPT !.tracked = TRUE])
                     m == [mem EXCEPT !.missing = 0, !.ran = TRUE, !.due = due] IN
                 IF due THEN bot' = b /\ mem' = m /\ pc' = "verify" /\ UNCHANGED <<disk, hist>>
                        ELSE Ends(b, m)
        BY <1>1 DEF CheckHeld
    <2> DEFINE s == [bot EXCEPT !.tracked = TRUE]
               b == Evaluated(s)
               m == [mem EXCEPT !.missing = 0, !.ran = TRUE, !.due = due]
    <2>2. pc = "check" /\ UNCHANGED <<held, live>> /\ held /\ live
        BY <1>1, <2>1, AnyList, Types DEF CheckHeld, CInv, IInv
    <2>3. /\ s \in BotStates /\ s.exitsOnly = bot.exitsOnly /\ s.done = bot.done
          /\ s.counted = bot.counted
        BY Types, Worked, StatesCount DEF Kept
    <2> HIDE DEF s
    <2>4. /\ b \in BotStates /\ b.exitsOnly = bot.exitsOnly /\ b.done = bot.done
          /\ (mem.ran => b.counted = bot.counted)
        BY <2>3, EvaluatedType, StatesCount
    <2>5. due \in BOOLEAN
        BY Types, Dues
    <2>6. /\ m \in Memories /\ m.failure = mem.failure /\ m.why = mem.why /\ m.ran
        BY <2>5, Types, Found, ZeroOne DEF Memories
    <2>7. IF due THEN bot' = b /\ mem' = m /\ pc' = "verify" /\ UNCHANGED <<disk, hist>>
                 ELSE Ends(b, m)
        BY <2>1 DEF s
    <2> HIDE DEF b, m
    <2>8. Counts(b, m)
        BY <2>2, <2>4, <2>6, CountsAtAwait DEF Counts
    <2>9. Finished' /\ Confined' /\ bot'.counted = b.counted
        BY <2>2, <2>4, <2>6, <2>7, <2>8, EndsCounts, AwaitCounts
    <2> QED
        BY <2>2, <2>4, <2>9, CountsAtAwait, Types DEF NotCounted
<1>2. CASE CheckFailed
    <2> DEFINE p == [mem EXCEPT !.problem = TRUE]
    <2>1. pc = "check" /\ UNCHANGED <<held, live>> /\ live
        BY <1>2, Types DEF CheckFailed, broker
    <2>2. p \in Memories /\ p.failure = mem.failure /\ p.why = mem.why /\ p.ran = mem.ran
        BY Types, Remembers, RanKept, ZeroOne
    <2>3. CASE Ends(bot, p)
        <3> HIDE DEF p
        <3>1. Counts(bot, p)
            BY <2>1, <2>2, CountsAtAwait DEF Counts
        <3> QED
            BY <2>1, <2>2, <2>3, <3>1, Types, EndsCounts DEF NotCounted
    <2>4. ASSUME bot.tracked, NEW due \in MayBeDue,
                 LET b == Evaluated(bot)
                     m == [p EXCEPT !.ran = TRUE, !.due = due, !.blind = TRUE] IN
                 IF due THEN bot' = b /\ mem' = m /\ pc' = "verify" /\ UNCHANGED <<disk, hist>>
                        ELSE Ends(b, m)
          PROVE  Finished' /\ Confined' /\ NotCounted
        <3> DEFINE b == Evaluated(bot)
                   m == [p EXCEPT !.ran = TRUE, !.due = due, !.blind = TRUE]
        <3>1. b \in BotStates /\ b.tracked = bot.tracked /\ b.exitsOnly = bot.exitsOnly
              /\ b.done = bot.done /\ (mem.ran => b.counted = bot.counted)
            BY Types, EvaluatedType, StatesCount
        <3>2. due \in BOOLEAN
            BY Types, Dues
        <3> HIDE DEF p
        <3>3. m \in Memories /\ m.failure = p.failure /\ m.why = p.why /\ m.ran
            <4>1. m \in Memories /\ m.failure = p.failure /\ m.why = p.why
                BY <2>2, <3>2, Remembers, ZeroOne
            <4>2. m.ran
                BY <2>2, <3>2, RanKept, ZeroOne
            <4> QED
                BY <4>1, <4>2
        <3>4. IF due THEN bot' = b /\ mem' = m /\ pc' = "verify" /\ UNCHANGED <<disk, hist>>
                     ELSE Ends(b, m)
            BY <2>4
        <3> HIDE DEF b, m
        <3>5. Counts(b, m)
            BY <2>1, <2>2, <3>1, <3>3, CountsAtAwait DEF Counts
        <3>6. Finished' /\ Confined' /\ bot'.counted = b.counted
            BY <2>1, <3>1, <3>3, <3>4, <3>5, EndsCounts, AwaitCounts
        <3> QED
            BY <2>1, <2>4, <3>1, <3>6, CountsAtAwait, Types DEF NotCounted
    <2> QED
        BY <1>2, <2>3, <2>4 DEF CheckFailed
<1>3. CASE CheckMissing
    <2>1. PICK a \in Answers("check") : a.sees = "none" /\ mem' = [mem EXCEPT !.empty = a.empty]
        BY <1>3 DEF CheckMissing
    <2>2. pc = "check" /\ UNCHANGED <<held, bot, live, hist>>
        BY <1>3 DEF CheckMissing
    <2>3. mem'.failure = mem.failure /\ mem'.why = mem.why /\ mem'.ran = mem.ran
        <3>1. mem \in Memories /\ a.empty \in BOOLEAN
            BY <2>1, Types, AnyList DEF CInv, IInv
        <3>2. mem'.failure = mem.failure /\ mem'.why = mem.why
            BY <2>1, <3>1, Remembers2, ZeroOne
        <3>3. mem'.ran = mem.ran
            BY <2>1, <3>1, RanKept, ZeroOne
        <3> QED
            BY <3>2, <3>3
    <2> QED
        BY <2>2, <2>3, CountsAtAwait, AwaitCounts, Types DEF NotCounted
<1> QED
    BY <1>1, <1>2, <1>3

LEMMA FlatCounts ==
    ASSUME CInv, CheckFlat PROVE Finished' /\ Confined' /\ NotCounted
<1>1. PICK a \in Answers("check") :
          /\ a.sees = "none" /\ Checked(a)
          /\ LET m == [mem EXCEPT !.empty = a.empty] IN
             IF mem.failure # "mayhold" THEN EndsFlat(bot, m)
             ELSE IF a.empty THEN Ends(bot, [m EXCEPT !.problem = TRUE])
             ELSE IF mem.missing = 1 THEN EndsFlat(bot, [m EXCEPT !.missing = 0])
             ELSE Ends(bot, [m EXCEPT !.missing = 1, !.problem = TRUE])
    BY DEF CheckFlat
<1> DEFINE m == [mem EXCEPT !.empty = a.empty]
<1>2. pc = "check" /\ ~bot.tracked /\ UNCHANGED <<held, live>>
    BY DEF CheckFlat
<1>3. a.empty \in BOOLEAN /\ (~a.empty /\ held => ~odd)
    BY <1>1, AnyList DEF CInv, IInv
<1>4. m \in Memories /\ m.failure = mem.failure /\ m.why = mem.why
    BY <1>3, Types, Remembers2, ZeroOne
<1>5. m.ran = mem.ran
    BY <1>3, Types, RanKept, ZeroOne
<1>6. IF mem.failure # "mayhold" THEN EndsFlat(bot, m)
      ELSE IF a.empty THEN Ends(bot, [m EXCEPT !.problem = TRUE])
      ELSE IF mem.missing = 1 THEN EndsFlat(bot, [m EXCEPT !.missing = 0])
      ELSE Ends(bot, [m EXCEPT !.missing = 1, !.problem = TRUE])
    BY <1>1
<1> HIDE DEF m
<1>7. CASE mem.failure # "mayhold"
    <2>1. mem.failure # "none" => ~held
        BY <1>2, <1>7, Types, AtAwait DEF CInv, Memories
    <2> QED
        BY <1>2, <1>4, <1>6, <1>7, <2>1, Types, EndsFlatCounts DEF NotCounted
<1>8. CASE mem.failure = "mayhold" /\ a.empty
    <2> DEFINE q == [m EXCEPT !.problem = TRUE]
    <2>1. q \in Memories /\ q.failure = mem.failure /\ q.why = mem.why
        BY <1>3, <1>4, Remembers, ZeroOne
    <2>2. q.ran = mem.ran
        BY <1>3, <1>4, <1>5, RanKept, ZeroOne
    <2>3. Ends(bot, q)
        BY <1>6, <1>8
    <2> HIDE DEF q
    <2>4. Counts(bot, q)
        BY <1>2, <2>1, <2>2, CountsAtAwait DEF Counts
    <2> QED
        BY <1>2, <2>1, <2>3, <2>4, Types, EndsCounts DEF NotCounted
<1>9. CASE mem.failure = "mayhold" /\ ~a.empty /\ mem.missing = 1
    <2>1. ~held
        BY <1>2, <1>3, <1>9, AtAwait DEF CInv
    <2>2. EndsFlat(bot, [m EXCEPT !.missing = 0])
        BY <1>6, <1>9
    <2> QED
        BY <1>2, <2>1, <2>2, Types, EndsFlatCounts DEF NotCounted
<1>10. CASE mem.failure = "mayhold" /\ ~a.empty /\ mem.missing # 1
    <2> DEFINE q == [m EXCEPT !.missing = 1, !.problem = TRUE]
    <2>1. q \in Memories /\ q.failure = mem.failure /\ q.why = mem.why
        BY <1>3, <1>4, Remembers2, ZeroOne
    <2>2. q.ran = mem.ran
        BY <1>3, <1>4, <1>5, RanKept, ZeroOne
    <2>3. Ends(bot, q)
        BY <1>6, <1>10
    <2> HIDE DEF q
    <2>4. Counts(bot, q)
        BY <1>2, <2>1, <2>2, CountsAtAwait DEF Counts
    <2> QED
        BY <1>2, <2>1, <2>3, <2>4, Types, EndsCounts DEF NotCounted
<1> QED
    BY <1>3, <1>7, <1>8, <1>9, <1>10

LEMMA ConfirmCounts ==
    ASSUME CInv, ConfirmGone \/ NotConfirmed PROVE Finished' /\ Confined' /\ NotCounted
<1>1. pc = "confirm" /\ UNCHANGED <<held, live>>
    BY DEF ConfirmGone, NotConfirmed, broker
<1>2. live /\ (held /\ ~mem.empty => mem.missing = 0)
    BY <1>1, Types DEF CInv, IInv, Seen
<1>3. CASE ConfirmGone
    <2>1. ~held
        BY <1>2, <1>3 DEF ConfirmGone
    <2>2. PICK drawdown \in BOOLEAN :
              EndsFlat([Cleared(bot) EXCEPT !.paused = drawdown], [mem EXCEPT !.missing = 0])
        BY <1>3 DEF ConfirmGone
    <2>3. /\ [Cleared(bot) EXCEPT !.paused = drawdown] \in BotStates
          /\ ~[Cleared(bot) EXCEPT !.paused = drawdown].tracked
        <3>1. Cleared(bot) \in BotStates /\ ~Cleared(bot).tracked
            BY Types, Clearing DEF Kept
        <3> QED
            BY <3>1 DEF BotStates
    <2> QED
        BY <1>1, <1>2, <2>1, <2>2, <2>3, EndsFlatCounts DEF NotCounted
<1>4. CASE NotConfirmed
    <2> DEFINE c == IF mem.empty THEN mem.missing ELSE 1
               q == [mem EXCEPT !.missing = c, !.problem = TRUE]
    <2>1. mem \in Memories /\ mem.missing \in 0..1
        BY Types DEF Memories
    <2>2. Ends(bot, q)
        BY <1>4, <2>1 DEF NotConfirmed
    <2>3. c \in 0..1
        BY <2>1
    <2> HIDE DEF c
    <2>4. q \in Memories /\ q.failure = mem.failure /\ q.why = mem.why
        BY <2>1, <2>3, Remembers2
    <2>5. q.ran = mem.ran
        BY <2>1, <2>3, RanKept
    <2> HIDE DEF q
    <2>6. Counts(bot, q)
        BY <1>1, <2>4, <2>5, CountsAtAwait DEF Counts
    <2> QED
        BY <1>1, <1>2, <2>2, <2>4, <2>6, Types, EndsCounts DEF NotCounted
<1> QED
    BY <1>3, <1>4

LEMMA BarDoneCounts ==
    ASSUME CInv, pc # "sleep", BarDone, UNCHANGED <<broker, live>>
    PROVE  Finished' /\ Confined' /\ NotCounted
<1> DEFINE b == [bot EXCEPT !.done = TRUE]
           q == [mem EXCEPT !.due = FALSE]
<1>1. /\ b \in BotStates /\ b.tracked = bot.tracked /\ b.exitsOnly = bot.exitsOnly
      /\ b.done /\ b.counted = bot.counted
    BY Types, Worked, StatesCount DEF Kept
<1>2. q \in Memories /\ q.failure = mem.failure /\ q.why = mem.why
    BY Types, Remembers2, ZeroOne
<1>3. q.ran = mem.ran
    BY Types, RanKept, ZeroOne
<1>4. Ends(b, q)
    BY DEF BarDone
<1> HIDE DEF b, q
<1>5. Counts(b, q)
    BY <1>1, <1>2, <1>3, CountsAtAwait DEF Counts
<1> QED
    BY <1>1, <1>2, <1>4, <1>5, Types, EndsCounts DEF NotCounted, broker

LEMMA ExitCounts ==
    ASSUME CInv, RightLists, ExitStep PROVE Finished' /\ Confined' /\ NotCounted
<1>1. CASE NotSent
    <2> DEFINE q == [mem EXCEPT !.due = TRUE, !.problem = TRUE]
    <2>1. pc = "verify" /\ UNCHANGED <<held, live>> /\ live
        BY <1>1, Types DEF NotSent, broker
    <2>2. q \in Memories /\ q.failure = mem.failure /\ q.why = mem.why
        BY Types, Remembers2, ZeroOne
    <2>3. q.ran = mem.ran
        BY Types, RanKept, ZeroOne
    <2>4. Ends(bot, q)
        BY <1>1 DEF NotSent
    <2> HIDE DEF q
    <2>5. Counts(bot, q)
        BY <2>1, <2>2, <2>3, CountsAtAwait DEF Counts
    <2> QED
        BY <2>1, <2>2, <2>4, <2>5, Types, EndsCounts DEF NotCounted
<1>2. CASE VerifyOk
    BY <1>2, Types DEF VerifyOk, CInv, Finished, Confined, NotCounted
<1>3. CASE CloseAccepted
    BY <1>3, Types DEF CloseAccepted, CInv, Finished, Confined, NotCounted
<1>4. CASE CloseRefused
    BY <1>4, BarDoneCounts DEF CloseRefused
<1>5. CASE PostCloseGivesUp
    BY <1>5, BarDoneCounts DEF PostCloseGivesUp
<1>6. CASE PostCloseGone
    <2>1. ~held
        BY <1>6, RightList DEF PostCloseGone, RightLists
    <2>2. pc = "postclose" /\ UNCHANGED <<held, live>> /\ live
        BY <1>6, Types DEF PostCloseGone, broker
    <2> DEFINE q == [mem EXCEPT !.due = FALSE]
    <2>3. PICK drawdown \in BOOLEAN :
              LET b == [Cleared(bot) EXCEPT !.done = TRUE, !.paused = drawdown] IN
              IF mem.blind THEN Ends(b, q) /\ disk' = bot' ELSE EndsFlat(b, q)
        BY <1>6 DEF PostCloseGone
    <2> DEFINE b == [Cleared(bot) EXCEPT !.done = TRUE, !.paused = drawdown]
    <2>4. b \in BotStates /\ b.tracked = FALSE /\ b.counted = 0 /\ b.done
        BY Types, Clearing DEF Kept, Cleared, BotStates
    <2>5. q \in Memories /\ q.failure = mem.failure /\ q.why = mem.why
        BY Types, Remembers2, ZeroOne
    <2>6. Ends(b, q) \/ EndsFlat(b, q)
        BY <2>3
    <2> HIDE DEF b, q
    <2>7. Counts(b, q)
        BY <2>1, <2>2, <2>4, <2>5, CountsAtAwait DEF Counts
    <2> QED
        BY <2>1, <2>2, <2>4, <2>5, <2>6, <2>7, Types, EndsCounts, EndsFlatCounts DEF NotCounted
<1> QED
    BY <1>1, <1>2, <1>3, <1>4, <1>5, <1>6 DEF ExitStep

LEMMA StartsCounts ==
    ASSUME CInv, NEW b \in BotStates, b.tracked = bot.tracked, b.exitsOnly = bot.exitsOnly,
           b.done = bot.done, b.counted = bot.counted, NEW refused \in BOOLEAN, Starts(b, refused)
    PROVE  Finished' /\ Confined' /\ NotCounted
<1>1. /\ bot' \in BotStates /\ bot'.tracked = bot.tracked /\ bot'.done = bot.done
      /\ bot'.counted = bot.counted /\ (bot.exitsOnly => bot'.exitsOnly)
      /\ mem' = Fresh(bot') /\ pc' = "sleep" /\ UNCHANGED <<held, hist>>
    BY DEF Starts, BotStates, broker
<1>2. bot'.exitsOnly \in BOOLEAN /\ bot'.done \in BOOLEAN
    BY <1>1 DEF BotStates
<1>3. /\ (bot'.exitsOnly /\ bot'.done => mem'.ran)
      /\ (mem'.failure # "none") = bot'.exitsOnly
    BY <1>1, <1>2 DEF Fresh
<1> QED
    BY <1>1, <1>2, <1>3, Types DEF CInv, Finished, Confined, NotCounted

LEMMA UserCounts ==
    ASSUME CInv, RightLists, StopsInExits, ~MayCrash, UserStep
    PROVE  Finished' /\ Confined' /\ NotCounted
<1>1. CASE Restart
    BY <1>1, Types, StartsCounts DEF Restart
<1>2. CASE Crash
    BY <1>2 DEF Crash
<1>3. CASE Start
    <2>1. [bot EXCEPT !.paused = FALSE] \in BotStates
        BY Types DEF BotStates
    <2> QED
        BY <1>3, <2>1, Types, StatesCount, StartsCounts DEF Start
<1>4. CASE RunnerEnds
    BY <1>4, Types DEF RunnerEnds, broker, CInv, Finished, Confined, NotCounted
<1>5. CASE StopKeeps
    <2>1. /\ bot.exitsOnly /\ bot' = [bot EXCEPT !.tracked = FALSE]
          /\ pc' = "sleep" /\ ~live' /\ UNCHANGED <<held, hist>>
        BY <1>5 DEF StopKeeps, Stopped, StopsInExits
    <2>2. bot'.exitsOnly /\ bot'.done = bot.done /\ bot'.counted = bot.counted
        BY <2>1, Types DEF BotStates
    <2> QED
        BY <2>1, <2>2, Types DEF CInv, Finished, Confined, NotCounted
<1>6. CASE StopCloses
    BY <1>6 DEF StopCloses, StopsInExits
<1>7. CASE GraphUpdate
    <2>1. ~held
        BY <1>7, RightList DEF GraphUpdate, RightLists
    <2>2. ~bot'.tracked /\ bot'.done = bot.done /\ bot'.counted = bot.counted
        BY <1>7, Types DEF GraphUpdate, BotStates
    <2> QED
        BY <1>7, <2>1, <2>2, Types DEF GraphUpdate, broker, CInv, Finished, Confined, NotCounted
<1> QED
    BY <1>1, <1>2, <1>3, <1>4, <1>5, <1>6, <1>7 DEF UserStep

LEMMA StepCounts ==
    ASSUME CInv, RightLists, StopsInExits, ~MayCrash, Next
    PROVE  Finished' /\ Confined' /\ NotCounted
BY BrokerCounts, FailureCounts, MainCounts, CheckCounts, FlatCounts, ConfirmCounts, ExitCounts,
   UserCounts DEF Next, RunnerStep, PollStep, CheckStep

LEMMA CountsInit == Init => Finished /\ Confined
<1> SUFFICES ASSUME Init PROVE Finished /\ Confined
    OBVIOUS
<1>1. ~hist.finished /\ mem.failure = "none"
    BY DEF Init, Fresh
<1> QED
    BY <1>1 DEF Finished, Confined

LEMMA CountsNext ==
    ASSUME RightLists, StopsInExits, ~MayCrash, CInv, [Next]_vars
    PROVE  Finished' /\ Confined' /\ [CountsOnce]_vars
<1>1. CASE UNCHANGED vars
    BY <1>1 DEF vars, CInv, Finished, Confined
<1>2. CASE Next
    <2>1. Finished' /\ Confined' /\ NotCounted
        BY <1>2, StepCounts
    <2>2. IInv'
        BY IInvNext DEF CInv
    <2>3. bot.counted \in 0..2 /\ bot'.counted \in 0..2
        BY <2>2 DEF CInv, IInv, TypeOK, BotStates
    <2> QED
        BY <2>1, <2>3 DEF CountsOnce, NotCounted
<1> QED
    BY <1>1, <1>2

\* However often the program restarts, a bar whose exits ran with nothing left to do is not
\* counted toward the time stop again (bot_runner.py _mark_exits_ran, _exits_bar, review
\* MT-3).  A process that dies may not have saved the mark.
THEOREM CountedOnce ==
    ASSUME RightLists, StopsInExits, ~MayCrash PROVE Spec => BarCountsOnce
BY CountsInit, CountsNext, IInvHolds, PTL DEF Spec, CInv, BarCountsOnce

----------------------------------------------------------------------------
(* The same in the setups of MCRecovery, in which a bot whose code failed is     *)
(* beside the other parts.                                                     *)

\* The bot whose code failed is at work.
AtWork == setup \in {"exits", "alone"}

LEMMA SetupSteps ==
    ASSUME [MCNext]_mcvars
    PROVE  setup' = setup /\ (AtWork => [Next]_vars)
<1>1. CASE UNCHANGED mcvars
    BY <1>1 DEF mcvars
<1>2. CASE MCNext
    BY <1>2 DEF MCNext, AtWork, OnWatch, OnLink, OnExits, Alone, OnCrashing, OnRegime, OnPool,
                Next, AloneNext
<1> QED
    BY <1>1, <1>2

\* In the setups in which a bot's code fails, whatever the other parts do in theirs: the
\* bot is not paused while the broker holds a position of it (bot_runner.py
\* _manage_without_signals, review MT-1).
THEOREM SetupPausesFlat ==
    ASSUME RightLists, StopsInExits PROVE SafeSpec => []PausedBotIsFlat
<1>1. MCInit => (AtWork => IInv)
    BY IInvInit DEF MCInit, AtWork
<1>2. (AtWork => IInv) /\ [MCNext]_mcvars => (AtWork => IInv)'
    BY SetupSteps, IInvNext DEF AtWork
<1>3. (AtWork => IInv) => PausedBotIsFlat
    BY DEF AtWork, IInv, Known, Guarded, PausedIsFlat, PausedBotIsFlat
<1> QED
    BY <1>1, <1>2, <1>3, PTL DEF SafeSpec

\* And no bar whose exits ran is counted again (bot_runner.py _mark_exits_ran, review MT-3).
THEOREM SetupCountsOnce ==
    ASSUME RightLists, StopsInExits, ~MayCrash PROVE SafeSpec => BarCountedOnce
<1>1. MCInit => (AtWork => CInv)
    BY IInvInit, CountsInit DEF MCInit, AtWork, CInv
<1>2. (AtWork => CInv) /\ [MCNext]_mcvars => (AtWork => CInv)'
    BY SetupSteps, IInvNext, CountsNext DEF AtWork, CInv
<1>3. (AtWork => CInv) /\ [MCNext]_mcvars => [(AtWork => CountsOnce)]_vars
    BY SetupSteps, CountsNext DEF AtWork
<1> QED
    BY <1>1, <1>2, <1>3, PTL DEF SafeSpec, BarCountedOnce, AtWork

----------------------------------------------------------------------------
(* Flips of a regime bot.                                                      *)

\* A close is open only against a position.  While a flip is pending, bots.json says the
\* same, and a position that is held is on the side that the bot tracks.
OnItsSide ==
    /\ closing # "none" => held # "none"
    /\ bot.pending = disk.pending
    /\ bot.pending => bot.side # "none" /\ disk.side = bot.side /\ held \in {bot.side, "none"}
    /\ pc \in {"route", "flip", "close", "postclose"} =>
          bot.side # "none" /\ held \in {bot.side, "none"}

\* A check that waits for its second list has seen one that leaves out the position; when
\* that was wrong, the next list is right.
SecondListRight ==
    mem.missing = 1 =>
        /\ live => pc \in {"sleep", "check", "confirm"} /\ bot.side # "none"
        /\ live /\ pc \in {"sleep", "check"} /\ held = bot.side => odd
        /\ pc = "confirm" => held # bot.side

\* The list in hand at the confirmation leaves out the side the bot tracks.
FlipMissed ==
    /\ pc = "confirm" => bot.side # "none" /\ (held = bot.side => odd)
    /\ pc \in {"entry", "submit", "fill"} => bot.side = "none" /\ ~bot.pending
    /\ pc \in {"submit", "fill"} => mem.dir # "flat"
    /\ ~live => pc = "sleep"

FlatAtSubmit == pc = "submit" => held = "none"

FlipInv == Flip!TypeOK /\ OnItsSide /\ SecondListRight /\ FlipMissed /\ FlatAtSubmit

\* A bot that nobody stops and that does not crash tracks what is held, or is about to when
\* its entry has filled.
Tracks == held \in {IF pc = "fill" THEN mem.dir ELSE bot.side, "none"}

\* What a right list says.
LEMMA FlipRightList ==
    ASSUME NEW site, site \notin FlipOdd, NEW a \in Flip!Answers(site)
    PROVE  a.sees \in {held, "error"}
BY DEF Flip!Answers

\* What any list says; one that leaves out the position follows a right one and is marked.
LEMMA FlipAnyList ==
    ASSUME NEW site, NEW a \in Flip!Answers(site), Flip!Listed(a),
           held \in Flip!Sides \cup {"none"}, odd \in BOOLEAN
    PROVE  /\ odd' \in BOOLEAN
           /\ a.sees \in {held, "none", "error"} /\ a.empty \in BOOLEAN
           /\ a.sees \notin {held, "error"} => ~odd /\ odd'
<1>1. \/ a = [sees |-> held, empty |-> FALSE]
      \/ a = [sees |-> "error", empty |-> FALSE]
      \/ ~odd /\ \E e \in BOOLEAN : a = [sees |-> "none", empty |-> e]
    BY DEF Flip!Answers
<1>2. CASE a = [sees |-> held, empty |-> FALSE]
    BY <1>2 DEF Flip!Listed
<1>3. CASE a = [sees |-> "error", empty |-> FALSE]
    BY <1>3 DEF Flip!Listed
<1>4. CASE ~odd /\ \E e \in BOOLEAN : a = [sees |-> "none", empty |-> e]
    <2>1. a.sees = "none" /\ a.empty \in BOOLEAN
        BY <1>4
    <2>2. odd' = ("none" # held)
        BY <2>1 DEF Flip!Listed
    <2> QED
        BY <1>4, <2>1, <2>2
<1> QED
    BY <1>1, <1>2, <1>3, <1>4

LEMMA FlipBrokerKeeps ==
    ASSUME FlipInv, Flip!BrokerStep PROVE FlipInv'
<1>1. CASE Flip!Fill
    BY <1>1 DEF Flip!Fill, FlipInv, Flip!TypeOK, OnItsSide, SecondListRight, FlipMissed,
       FlatAtSubmit
<1>2. CASE Flip!CancelDone
    BY <1>2 DEF Flip!CancelDone, FlipInv, Flip!TypeOK, OnItsSide, SecondListRight, FlipMissed,
       FlatAtSubmit
<1>3. CASE Flip!OutsideClose
    BY <1>3 DEF Flip!OutsideClose, FlipInv, Flip!TypeOK, OnItsSide, SecondListRight,
       FlipMissed, FlatAtSubmit
<1>4. CASE Flip!NewBar
    BY <1>4 DEF Flip!NewBar, FlipInv, Flip!TypeOK, Flip!BotStates, OnItsSide,
       SecondListRight, FlipMissed, FlatAtSubmit
<1> QED
    BY <1>1, <1>2, <1>3, <1>4 DEF Flip!BrokerStep

LEMMA FlipTickKeeps ==
    ASSUME FlipInv, Flip!Tick PROVE FlipInv'
BY DEF Flip!Tick, Flip!Goes, FlipInv, Flip!TypeOK, Flip!BotStates, Flip!Memories,
   OnItsSide, SecondListRight, FlipMissed, FlatAtSubmit

LEMMA FlipCheckKeeps ==
    ASSUME FlipInv, Flip!CheckStep PROVE FlipInv'
<1>1. CASE Flip!CheckFailed
    BY <1>1 DEF Flip!CheckFailed, Flip!PutsBack, Flip!Goes, FlipInv, Flip!TypeOK,
       Flip!BotStates, Flip!Memories, OnItsSide, SecondListRight, FlipMissed, FlatAtSubmit
<1>2. CASE Flip!CheckHeld
    <2>1. PICK a \in Flip!Answers("check") :
            /\ a.sees \in Flip!Sides /\ bot.side \in {a.sees, "none"}
            /\ Flip!Listed(a)
            /\ bot' = [bot EXCEPT !.side = a.sees]
        BY <1>2 DEF Flip!CheckHeld
    <2>2. odd' \in BOOLEAN /\ a.sees = held
        BY <2>1, FlipAnyList DEF FlipInv, Flip!TypeOK, Flip!Sides
    <2>3. bot' \in Flip!BotStates /\ bot'.side = held /\ bot'.pending = bot.pending
        BY <2>1, <2>2 DEF FlipInv, Flip!TypeOK, Flip!BotStates
    <2>4. mem' \in Flip!Memories /\ mem'.missing = 0
        BY <1>2 DEF Flip!CheckHeld, FlipInv, Flip!TypeOK, Flip!Memories
    <2>5. Flip!TypeOK'
        BY <1>2, <2>2, <2>3, <2>4 DEF Flip!CheckHeld, Flip!Goes, FlipInv, Flip!TypeOK
    <2>6. OnItsSide'
        BY <1>2, <2>1, <2>2, <2>3 DEF Flip!CheckHeld, Flip!Goes, FlipInv, OnItsSide,
           Flip!Sides
    <2> QED
        BY <1>2, <2>4, <2>5, <2>6 DEF Flip!CheckHeld, Flip!Goes, FlipInv, SecondListRight,
           FlipMissed, FlatAtSubmit
<1>3. CASE Flip!CheckMissing
    <2>1. PICK a \in Flip!Answers("check") :
            /\ a.sees \in (Flip!Sides \ {bot.side}) \cup {"none"}
            /\ Flip!Listed(a)
            /\ mem' = [mem EXCEPT !.empty = a.empty]
        BY <1>3 DEF Flip!CheckMissing
    <2>2. /\ odd' \in BOOLEAN /\ a.empty \in BOOLEAN
          /\ held = bot.side => ~odd /\ odd'
        BY <1>3, <2>1, FlipAnyList DEF Flip!CheckMissing, FlipInv, Flip!TypeOK, Flip!Sides
    <2> QED
        BY <1>3, <2>1, <2>2 DEF Flip!CheckMissing, Flip!Goes, FlipInv, Flip!TypeOK,
           Flip!BotStates, Flip!Memories, OnItsSide, SecondListRight, FlipMissed, FlatAtSubmit
<1>4. CASE Flip!CheckFlat
    <2>1. odd' \in BOOLEAN
        BY <1>4, FlipAnyList DEF Flip!CheckFlat, FlipInv, Flip!TypeOK
    <2> QED
        BY <1>4, <2>1 DEF Flip!CheckFlat, Flip!Goes, FlipInv, Flip!TypeOK, Flip!BotStates,
           Flip!Memories, OnItsSide, SecondListRight, FlipMissed, FlatAtSubmit
<1>5. CASE Flip!NotConfirmed
    <2>1. bot' \in Flip!BotStates /\ bot'.side = bot.side /\ bot'.pending = bot.pending /\ disk' = bot'
        BY <1>5 DEF Flip!NotConfirmed, Flip!PutsBack, FlipInv, Flip!TypeOK, Flip!BotStates
    <2>2. mem' \in Flip!Memories
        BY <1>5 DEF Flip!NotConfirmed, Flip!PutsBack, FlipInv, Flip!TypeOK, Flip!Memories
    <2>3. mem'.missing = 1 /\ held = bot.side => odd
        BY <1>5 DEF Flip!NotConfirmed, FlipInv, FlipMissed
    <2>4. pc' = "sleep" /\ pc = "confirm" /\ UNCHANGED <<held, closing, live, odd>>
        BY <1>5 DEF Flip!NotConfirmed, Flip!PutsBack, Flip!Goes
    <2>5. Flip!TypeOK'
        BY <2>1, <2>2, <2>4 DEF FlipInv, Flip!TypeOK
    <2> QED
        BY <2>1, <2>3, <2>4, <2>5 DEF FlipInv, OnItsSide, SecondListRight, FlipMissed,
           FlatAtSubmit
<1>6. CASE Flip!ConfirmGone
    <2>1. bot.pending => held = "none"
        BY <1>6 DEF Flip!ConfirmGone, FlipInv, Flip!TypeOK, Flip!Memories, OnItsSide,
           SecondListRight, FlipMissed
    <2>2. mem' \in Flip!Memories /\ mem'.missing = 0 /\ mem'.dir = mem.dir
        BY <1>6 DEF Flip!ConfirmGone, FlipInv, Flip!TypeOK, Flip!Memories
    <2>3. bot' \in Flip!BotStates /\ bot'.side = "none" /\ bot'.pending = FALSE
        BY <1>6 DEF Flip!ConfirmGone, Flip!AfterFlip, Flip!Cleared, FlipInv, Flip!TypeOK,
           Flip!BotStates
    <2>4. /\ pc = "confirm" /\ UNCHANGED <<held, closing, live, odd>>
          /\ pc' \in {"sleep", "submit", "entry"}
          /\ pc' = "submit" => held = "none" /\ mem.dir # "flat"
        BY <1>6, <2>1 DEF Flip!ConfirmGone, Flip!AfterFlip, Flip!Reverses, Flip!Goes
    <2>5. disk' \in Flip!BotStates /\ disk'.pending = FALSE
        <3>1. CASE disk' = bot'
            BY <2>3, <3>1
        <3>2. CASE disk' = disk /\ ~bot.pending
            BY <3>2 DEF FlipInv, Flip!TypeOK, Flip!BotStates, OnItsSide
        <3> QED
            BY <1>6, <3>1, <3>2 DEF Flip!ConfirmGone, Flip!AfterFlip
    <2>6. Flip!TypeOK'
        BY <2>2, <2>3, <2>4, <2>5 DEF FlipInv, Flip!TypeOK
    <2>7. OnItsSide'
        BY <2>3, <2>4, <2>5 DEF FlipInv, OnItsSide
    <2>8. SecondListRight'
        BY <2>2 DEF SecondListRight
    <2>9. FlipMissed' /\ FlatAtSubmit'
        BY <2>2, <2>3, <2>4 DEF FlipInv, FlipMissed, FlatAtSubmit
    <2> QED
        BY <2>6, <2>7, <2>8, <2>9 DEF FlipInv
<1> QED
    BY <1>1, <1>2, <1>3, <1>4, <1>5, <1>6 DEF Flip!CheckStep

LEMMA FlipRouteKeeps ==
    ASSUME FlipInv, Flip!RouteStep PROVE FlipInv'
<1>1. CASE Flip!ToFlip
    BY <1>1 DEF Flip!ToFlip, Flip!Goes, FlipInv, Flip!TypeOK, OnItsSide, SecondListRight,
       FlipMissed, FlatAtSubmit
<1>2. CASE Flip!Holds
    BY <1>2 DEF Flip!Holds, Flip!Goes, FlipInv, Flip!TypeOK, OnItsSide, SecondListRight,
       FlipMissed, FlatAtSubmit
<1>3. CASE Flip!Exits
    BY <1>3 DEF Flip!Exits, Flip!FlipDue, FlipInv, Flip!TypeOK, Flip!BotStates,
       Flip!Memories, OnItsSide, SecondListRight, FlipMissed, FlatAtSubmit
<1> QED
    BY <1>1, <1>2, <1>3 DEF Flip!RouteStep

LEMMA FlipStepKeeps ==
    ASSUME "postclose" \notin FlipOdd, FlipInv, Flip!FlipStep PROVE FlipInv'
<1>1. CASE Flip!FlipCancels
    BY <1>1 DEF Flip!FlipCancels, FlipInv, Flip!TypeOK, OnItsSide, SecondListRight,
       FlipMissed, FlatAtSubmit
<1>2. CASE Flip!CloseAccepted
    BY <1>2 DEF Flip!CloseAccepted, FlipInv, Flip!TypeOK, OnItsSide, SecondListRight,
       FlipMissed, FlatAtSubmit
<1>3. CASE Flip!CloseFailed
    BY <1>3 DEF Flip!CloseFailed, Flip!Pending, FlipInv, Flip!TypeOK, Flip!BotStates,
       OnItsSide, SecondListRight, FlipMissed, FlatAtSubmit
<1>4. CASE Flip!StillOpen
    BY <1>4 DEF Flip!StillOpen, Flip!Pending, FlipInv, Flip!TypeOK, Flip!BotStates,
       OnItsSide, SecondListRight, FlipMissed, FlatAtSubmit
<1>5. CASE Flip!FlipClosed
    <2>1. PICK a \in Flip!Answers("postclose") : a.sees \notin {bot.side, "error"} /\ Flip!Listed(a)
        BY <1>5 DEF Flip!FlipClosed
    <2>2. odd' \in BOOLEAN /\ held = "none"
        BY <1>5, <2>1, FlipAnyList, FlipRightList DEF Flip!FlipClosed, FlipInv, Flip!TypeOK,
           OnItsSide
    <2> QED
        BY <1>5, <2>2 DEF Flip!FlipClosed, Flip!AfterFlip, Flip!Cleared, Flip!Reverses,
           Flip!Goes, FlipInv, Flip!TypeOK, Flip!BotStates, Flip!Memories, OnItsSide,
           SecondListRight, FlipMissed, FlatAtSubmit
<1> QED
    BY <1>1, <1>2, <1>3, <1>4, <1>5 DEF Flip!FlipStep

LEMMA FlipEntryKeeps ==
    ASSUME "entry" \notin FlipOdd \/ Tracks \/ RightAtEntry, FlipInv, Flip!EntryStep
    PROVE  FlipInv'
<1>1. CASE Flip!EntrySkipped
    BY <1>1 DEF Flip!EntrySkipped, Flip!Goes, FlipInv, Flip!TypeOK, OnItsSide,
       SecondListRight, FlipMissed, FlatAtSubmit
<1>2. CASE Flip!EntryGo
    <2>1. odd' \in BOOLEAN
        BY <1>2, FlipAnyList DEF Flip!EntryGo, FlipInv, Flip!TypeOK
    <2>2. held = "none"
        <3>1. CASE "entry" \notin FlipOdd
            BY <1>2, <3>1, FlipRightList DEF Flip!EntryGo
        <3>2. CASE Tracks
            BY <1>2, <3>2 DEF Tracks, Flip!EntryGo, FlipInv, FlipMissed
        <3>3. CASE RightAtEntry
            <4>1. PICK a \in Flip!Answers("entry") : a.sees = "none" /\ Flip!Listed(a)
                BY <1>2 DEF Flip!EntryGo
            <4>2. ~odd'
                BY <1>2, <3>3 DEF RightAtEntry, Flip!EntryGo, Flip!Goes
            <4> QED
                BY <4>1, <4>2 DEF Flip!Listed
        <3> QED
            BY <3>1, <3>2, <3>3
    <2> QED
        BY <1>2, <2>1, <2>2 DEF Flip!EntryGo, Flip!Goes, FlipInv, Flip!TypeOK, OnItsSide,
           SecondListRight, FlipMissed, FlatAtSubmit
<1>3. CASE Flip!Submit
    BY <1>3 DEF Flip!Submit, FlipInv, Flip!TypeOK, Flip!Memories, OnItsSide,
       SecondListRight, FlipMissed, FlatAtSubmit
<1>4. CASE Flip!SubmitFailed
    BY <1>4 DEF Flip!SubmitFailed, Flip!Goes, FlipInv, Flip!TypeOK, OnItsSide,
       SecondListRight, FlipMissed, FlatAtSubmit
<1>5. CASE Flip!EntryTracked
    BY <1>5 DEF Flip!EntryTracked, Flip!Goes, FlipInv, Flip!TypeOK, Flip!BotStates,
       Flip!Memories, OnItsSide, SecondListRight, FlipMissed, FlatAtSubmit
<1> QED
    BY <1>1, <1>2, <1>3, <1>4, <1>5 DEF Flip!EntryStep

LEMMA FlipDisturbKeeps ==
    ASSUME FlipInv, Flip!StopBot \/ Flip!StartBot \/ Flip!Crash PROVE FlipInv'
<1>1. CASE Flip!StopBot
    BY <1>1 DEF Flip!StopBot, Flip!Cleared, FlipInv, Flip!TypeOK, Flip!BotStates,
       OnItsSide, SecondListRight, FlipMissed, FlatAtSubmit
<1>2. CASE Flip!StartBot
    BY <1>2 DEF Flip!StartBot, Flip!Fresh, FlipInv, Flip!TypeOK, Flip!Memories, OnItsSide,
       SecondListRight, FlipMissed, FlatAtSubmit
<1>3. CASE Flip!Crash
    BY <1>3 DEF Flip!Crash, Flip!Fresh, FlipInv, Flip!TypeOK, Flip!Memories, OnItsSide,
       SecondListRight, FlipMissed, FlatAtSubmit
<1> QED
    BY <1>1, <1>2, <1>3

\* No step but a Stop, a start or a crash ends that.
LEMMA TracksKept ==
    ASSUME "postclose" \notin FlipOdd, FlipInv, Tracks,
           Flip!BrokerStep \/ Flip!Tick \/ Flip!AwaitStep
    PROVE  Tracks'
<1>1. CASE Flip!BrokerStep
    BY <1>1 DEF Flip!BrokerStep, Flip!Fill, Flip!CancelDone, Flip!OutsideClose,
       Flip!NewBar, Tracks, FlipInv, Flip!TypeOK, Flip!BotStates
<1>2. CASE Flip!Tick
    BY <1>2 DEF Flip!Tick, Flip!Goes, Tracks, FlipInv, Flip!TypeOK, Flip!BotStates
<1>3. CASE Flip!CheckStep
    <2>1. CASE Flip!CheckFailed
        BY <1>3, <2>1 DEF Flip!CheckFailed, Flip!PutsBack, Flip!Goes, Tracks, FlipInv,
           Flip!TypeOK, Flip!BotStates
    <2>2. CASE Flip!CheckHeld
        <3>1. PICK a \in Flip!Answers("check") :
                /\ a.sees \in Flip!Sides /\ Flip!Listed(a)
                /\ bot' = [bot EXCEPT !.side = a.sees]
            BY <2>2 DEF Flip!CheckHeld
        <3>2. a.sees = held
            BY <3>1, FlipAnyList DEF FlipInv, Flip!TypeOK, Flip!Sides
        <3> QED
            BY <2>2, <3>1, <3>2 DEF Flip!CheckHeld, Flip!Goes, Tracks, FlipInv, Flip!TypeOK,
               Flip!BotStates
    <2>3. CASE Flip!CheckMissing
        BY <2>3 DEF Flip!CheckMissing, Flip!Goes, Tracks
    <2>4. CASE Flip!CheckFlat
        BY <2>4 DEF Flip!CheckFlat, Flip!Goes, Tracks
    <2>5. CASE Flip!NotConfirmed
        BY <2>5 DEF Flip!NotConfirmed, Flip!PutsBack, Flip!Goes, Tracks, FlipInv,
           Flip!TypeOK, Flip!BotStates
    <2>6. CASE Flip!ConfirmGone
        <3>1. held = "none"
            BY <2>6 DEF Flip!ConfirmGone, Tracks, FlipInv, SecondListRight
        <3>2. held' = held
            BY <2>6 DEF Flip!ConfirmGone, Flip!AfterFlip, Flip!Goes
        <3> QED
            BY <3>1, <3>2 DEF Tracks
    <2> QED
        BY <1>3, <2>1, <2>2, <2>3, <2>4, <2>5, <2>6 DEF Flip!CheckStep
<1>4. CASE Flip!RouteStep
    BY <1>4 DEF Flip!RouteStep, Flip!ToFlip, Flip!Holds, Flip!Exits, Flip!Goes, Tracks
<1>5. CASE Flip!FlipStep
    <2>1. CASE Flip!FlipCancels \/ Flip!CloseAccepted
        BY <2>1 DEF Flip!FlipCancels, Flip!CloseAccepted, Tracks
    <2>2. CASE Flip!CloseFailed \/ Flip!StillOpen
        BY <2>2 DEF Flip!CloseFailed, Flip!StillOpen, Flip!Pending, Tracks, FlipInv,
           Flip!TypeOK, Flip!BotStates
    <2>3. CASE Flip!FlipClosed
        <3>1. held = "none"
            BY <2>3, FlipRightList DEF Flip!FlipClosed, FlipInv, OnItsSide
        <3> QED
            BY <2>3, <3>1 DEF Flip!FlipClosed, Flip!AfterFlip, Flip!Goes, Tracks
    <2> QED
        BY <1>5, <2>1, <2>2, <2>3 DEF Flip!FlipStep
<1>6. CASE Flip!EntryStep
    <2>1. CASE Flip!EntrySkipped \/ Flip!EntryGo \/ Flip!SubmitFailed
        BY <2>1 DEF Flip!EntrySkipped, Flip!EntryGo, Flip!SubmitFailed, Flip!Goes, Tracks
    <2>2. CASE Flip!Submit
        BY <2>2 DEF Flip!Submit, Tracks, FlipInv, FlatAtSubmit
    <2>3. CASE Flip!EntryTracked
        BY <2>3 DEF Flip!EntryTracked, Flip!Goes, Tracks, FlipInv, Flip!TypeOK,
           Flip!BotStates
    <2> QED
        BY <1>6, <2>1, <2>2, <2>3 DEF Flip!EntryStep
<1> QED
    BY <1>1, <1>2, <1>3, <1>4, <1>5, <1>6 DEF Flip!AwaitStep

LEMMA FlipInitHolds == ASSUME Flip!Init PROVE FlipInv /\ Tracks
<1>1. bot \in Flip!BotStates /\ disk = bot /\ bot.pending = FALSE
    BY DEF Flip!Init, Flip!BotStates
<1>2. mem \in Flip!Memories /\ mem.missing = 0
    BY DEF Flip!Init, Flip!Fresh, Flip!Memories
<1>3. Flip!TypeOK
    BY <1>1, <1>2 DEF Flip!Init, Flip!TypeOK
<1>4. OnItsSide
    BY <1>1 DEF Flip!Init, OnItsSide
<1>5. SecondListRight /\ FlipMissed /\ FlatAtSubmit
    BY <1>2 DEF Flip!Init, SecondListRight, FlipMissed, FlatAtSubmit
<1>6. Tracks
    BY DEF Flip!Init, Tracks
<1> QED
    BY <1>3, <1>4, <1>5, <1>6 DEF FlipInv

LEMMA FlipStays == UNCHANGED Flip!vars => (FlipInv => FlipInv') /\ (Tracks => Tracks')
BY DEF Flip!vars, FlipInv, Flip!TypeOK, OnItsSide, SecondListRight, FlipMissed, FlatAtSubmit, Tracks

LEMMA FlipNextKeeps ==
    ASSUME "postclose" \notin FlipOdd, "entry" \notin FlipOdd \/ Tracks \/ RightAtEntry,
           FlipInv, Flip!Next
    PROVE  FlipInv'
BY FlipBrokerKeeps, FlipTickKeeps, FlipCheckKeeps, FlipRouteKeeps, FlipStepKeeps, FlipEntryKeeps,
   FlipDisturbKeeps DEF Flip!Next, Flip!AwaitStep

TracksAlone == MayDisturb \/ Tracks

\* No entry goes out on a held position or an open close (EntersOnlyFlat), whatever closes
\* fail or fill late, and over Stops and crashes at every await, as long as the lists at the
\* entry and after a close are right; or the list after a close alone, when nobody stops the
\* bot and it does not crash.  The list at the check may be wrong.
THEOREM FlatEntries ==
    ASSUME "postclose" \notin FlipOdd, "entry" \notin FlipOdd \/ ~MayDisturb
    PROVE  Flip!Spec => Flip!EntersOnlyFlat
<1>1. Flip!Init => FlipInv /\ TracksAlone
    BY FlipInitHolds DEF TracksAlone
<1>2. FlipInv /\ TracksAlone /\ [Flip!Next]_(Flip!vars) => (FlipInv /\ TracksAlone)'
    <2> SUFFICES ASSUME FlipInv, TracksAlone, [Flip!Next]_(Flip!vars)
                 PROVE  FlipInv' /\ TracksAlone'
        OBVIOUS
    <2>1. CASE UNCHANGED Flip!vars
        BY <2>1, FlipStays DEF TracksAlone
    <2>2. CASE Flip!Next
        BY <2>2, FlipNextKeeps, TracksKept DEF Flip!Next, TracksAlone
    <2> QED
        BY <2>1, <2>2
<1>3. FlipInv /\ [Flip!Next]_(Flip!vars) => [Flip!OnlyFromFlat]_(Flip!vars)
    <2>1. FlipInv => Flip!OnlyFromFlat
        BY DEF FlipInv, OnItsSide, FlatAtSubmit, Flip!OnlyFromFlat
    <2> QED
        BY <2>1
<1> QED
    BY <1>1, <1>2, <1>3, PTL DEF Flip!Spec, Flip!EntersOnlyFlat

\* The same of the composed specification the run checks: one bot is stopped and crashes while
\* the lists at its entries are right, the other is left alone.
FlipsAtWork == setup \in {"crashing", "flip"}
FlipsInv == (FlipsAtWork => FlipInv) /\ (setup = "flip" => Tracks)

THEOREM SetupFlatEntries ==
    ASSUME "postclose" \notin FlipOdd PROVE SafeSpec => EntersOnlyFlat
<1>1. MCInit => FlipsInv
    BY FlipInitHolds DEF MCInit, FlipsInv, FlipsAtWork
<1>2. FlipsInv /\ [MCNext]_mcvars => FlipsInv'
    <2> SUFFICES ASSUME FlipsInv, [MCNext]_mcvars PROVE FlipsInv'
        OBVIOUS
    <2>1. CASE UNCHANGED mcvars
        BY <2>1, FlipStays DEF mcvars, vars, Flip!vars, FlipsInv, FlipsAtWork
    <2>2. CASE OnCrashing(Flip!Next /\ RightAtEntry)
        BY <2>2, FlipNextKeeps DEF OnCrashing, FlipsInv, FlipsAtWork
    <2>3. CASE OnRegime(LeftAlone)
        BY <2>3, FlipNextKeeps, TracksKept DEF OnRegime, LeftAlone, Flip!Next, FlipsInv, FlipsAtWork
    <2>4. CASE setup \notin {"crashing", "flip"} /\ MCNext
        BY <2>4 DEF MCNext, OnWatch, OnLink, OnExits, Alone, OnCrashing, OnRegime, OnPool, FlipsInv,
           FlipsAtWork
    <2> QED
        BY <2>1, <2>2, <2>3, <2>4 DEF MCNext, OnWatch, OnLink, OnExits, Alone, OnPool
<1>3. FlipsInv /\ [MCNext]_mcvars => [(FlipsAtWork => Flip!OnlyFromFlat)]_vars
    BY DEF FlipsInv, FlipInv, OnItsSide, FlatAtSubmit, Flip!OnlyFromFlat
<1> QED
    BY <1>1, <1>2, <1>3, PTL DEF SafeSpec, EntersOnlyFlat, FlipsAtWork
=============================================================================
