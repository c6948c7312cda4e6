------------------------------- MODULE IbkrLink -------------------------------
(* The one socket to IB Gateway that every bot, route and data call shares      *)
(* (IBKRTradingProvider in broker.py): its reconnect under an asyncio lock, the *)
(* blocking _run with its retries, and the HeartbeatMonitor that pings it.      *)
(* A link is "up", "dead" (isConnected() still says yes but nothing answers:    *)
(* a silent TCP drop or a frozen Gateway) or "off".                             *)
EXTENDS Naturals

CONSTANTS
  Callers,     \* the threads that call the provider through _run
  Retries,     \* attempts of one _run (3)
  MaxDrops     \* bound: how often the network or the Gateway takes the link away

\* A reconnect task: the heartbeat's, or the one a caller started before its
\* first attempt (0, _ensure_connected) or after attempt a.
Tasks == {<<"beat", 0>>} \cup (Callers \X (0 .. Retries - 1))
Beat == <<"beat", 0>>
NoOne == <<"none", 0>>

VARIABLES
  link,        \* "up", "dead" or "off"
  reachable,   \* does IB Gateway accept a new connection?
  lock,        \* _reconnect_lock: the task that holds it
  task,        \* per reconnect task: "none", "wait", "probe", "dial", "ok", "err"
  beat,        \* HeartbeatMonitor._tick: "sleep" or "reconnect"
  healthy,     \* what is_healthy("ibkr") answers
  call,        \* per caller, its _run (below)
  drops

linkVars == <<link, reachable, lock, task, beat, healthy, call, drops>>

\* One _run: the coroutine object is made once and handed to the loop at every
\* attempt. queued: loop tasks made for it that the loop has not run yet; co:
\* "new" (its body never began), "hung" (it waits on the link) or "over"; out:
\* what the present attempt's future holds; ran: attempts whose body really ran.
Idle == [pc |-> "idle", op |-> "read", attempt |-> 0, queued |-> 0,
         co |-> "over", out |-> "none", ran |-> 0, sent |-> 0]

Init ==
  /\ link = "up" /\ reachable = TRUE
  /\ lock = NoOne /\ task = [t \in Tasks |-> "none"]
  /\ beat = "sleep" /\ healthy = TRUE
  /\ call = [c \in Callers |-> Idle]
  /\ drops = 0

Connected == link # "off"
Ended(t) == task[t] \in {"none", "ok", "err"}

----------------------------------------------------------------------------
(* _reconnect_async: one at a time under the lock; a connection that answers   *)
(* the probe is kept, anything else is disconnected and dialled again. The     *)
(* probe has no timeout: on a dead link it waits until the socket is closed.   *)
\* Mutant: whoever gets the lock disconnects, without another look.
AcquireBlind(t) ==
  /\ task[t] = "wait" /\ lock = NoOne
  /\ lock' = t /\ link' = "off"
  /\ task' = [task EXCEPT ![t] = "dial"]
  /\ UNCHANGED <<reachable, beat, healthy, call, drops>>

Acquire(t) ==
  /\ task[t] = "wait" /\ lock = NoOne
  /\ lock' = t
  /\ task' = [task EXCEPT ![t] = IF Connected THEN "probe" ELSE "dial"]
  /\ UNCHANGED <<link, reachable, beat, healthy, call, drops>>

ProbeAnswers(t) ==
  /\ task[t] = "probe" /\ link = "up"
  /\ task' = [task EXCEPT ![t] = "ok"]
  /\ lock' = NoOne
  /\ UNCHANGED <<link, reachable, beat, healthy, call, drops>>

ProbeFails(t) ==
  /\ task[t] = "probe" /\ link = "off"
  /\ task' = [task EXCEPT ![t] = "dial"]
  /\ UNCHANGED <<link, reachable, lock, beat, healthy, call, drops>>

\* Mutant: a dial that fails keeps the lock.
DialKeepsLock(t) ==
  /\ task[t] = "dial"
  /\ link' = IF reachable THEN "up" ELSE "off"
  /\ task' = [task EXCEPT ![t] = IF reachable THEN "ok" ELSE "err"]
  /\ lock' = IF reachable THEN NoOne ELSE lock
  /\ UNCHANGED <<reachable, beat, healthy, call, drops>>

\* connectAsync: its own timeout of 4 s ends a dial nobody answers.
Dial(t) ==
  /\ task[t] = "dial"
  /\ link' = IF reachable THEN "up" ELSE "off"
  /\ task' = [task EXCEPT ![t] = IF reachable THEN "ok" ELSE "err"]
  /\ lock' = NoOne
  /\ UNCHANGED <<reachable, beat, healthy, call, drops>>

Reconnect(t) == Acquire(t) \/ ProbeAnswers(t) \/ ProbeFails(t) \/ Dial(t)

\* A task waits on a dead link itself, or on the lock of one that does.
Stuck(t) ==
  /\ link = "dead"
  /\ \/ task[t] = "probe"
     \/ task[t] = "wait" /\ lock # NoOne

----------------------------------------------------------------------------
(* HeartbeatMonitor._tick, every 30 s.                                         *)
Ping ==
  /\ beat = "sleep"
  /\ IF link = "up"
     THEN healthy' = TRUE /\ UNCHANGED <<task, beat>>
     ELSE /\ beat' = "reconnect"
          /\ task' = [task EXCEPT ![Beat] = "wait"]
          /\ UNCHANGED healthy
  /\ UNCHANGED <<link, reachable, lock, call, drops>>

\* The reconnect came back: the second ping decides.
BeatOver ==
  /\ beat = "reconnect" /\ task[Beat] \in {"ok", "err"}
  /\ beat' = "sleep"
  /\ healthy' = (task[Beat] = "ok" /\ link = "up")
  /\ task' = [task EXCEPT ![Beat] = "none"]
  /\ UNCHANGED <<link, reachable, lock, call, drops>>

\* wait_for gives the reconnect 15 s and then cancels it. The CancelledError
\* leaves _reconnect_async past its "except Exception": nothing is disconnected.
BeatGivesUp ==
  /\ beat = "reconnect" /\ Stuck(Beat)
  /\ beat' = "sleep" /\ healthy' = FALSE
  /\ lock' = IF lock = Beat THEN NoOne ELSE lock
  /\ task' = [task EXCEPT ![Beat] = "none"]
  /\ UNCHANGED <<link, reachable, call, drops>>

Heartbeat == Ping \/ BeatOver \/ BeatGivesUp

----------------------------------------------------------------------------
(* A blocking call: _ensure_connected, then _run.                              *)
\* Mutant: every attempt makes a coroutine of its own.
AttemptFresh(r) ==
  [r EXCEPT !.pc = "try", !.attempt = @ + 1, !.queued = @ + 1, !.out = "none", !.co = "new"]

\* run_coroutine_threadsafe: one more loop task around the same coroutine.
Attempt(r) == [r EXCEPT !.pc = "try", !.attempt = @ + 1, !.queued = @ + 1, !.out = "none"]

\* A caller's next call begins when the loop is through with its last one.
Begin(c) ==
  /\ call[c].pc \in {"idle", "failed"} /\ call[c].queued = 0 /\ call[c].co = "over"
  /\ \A a \in 0 .. Retries - 1 : Ended(<<c, a>>)
  /\ \E op \in {"read", "order"} :
       LET fresh == [Idle EXCEPT !.op = op, !.co = "new"] IN
       IF Connected
       THEN call' = [call EXCEPT ![c] = Attempt(fresh)] /\ UNCHANGED task
       ELSE /\ call' = [call EXCEPT ![c] = [fresh EXCEPT !.pc = "ensure"]]
            /\ task' = [task EXCEPT ![<<c, 0>>] = "wait"]
  /\ UNCHANGED <<link, reachable, lock, beat, healthy, drops>>

\* _run(_reconnect_async(), retries=1): its failure or 30 s timeout is raised.
Ensured(c) ==
  /\ call[c].pc = "ensure"
  /\ \/ /\ task[<<c, 0>>] = "ok"
        /\ call' = [call EXCEPT ![c] = Attempt(@)]
     \/ /\ task[<<c, 0>>] = "err" \/ Stuck(<<c, 0>>)
        /\ call' = [call EXCEPT ![c].pc = "failed", ![c].co = "over"]
  /\ UNCHANGED <<link, reachable, lock, task, beat, healthy, drops>>

\* The body against the link as it is now: a read needs an answer, an order is
\* put on the socket and does not wait.
Body(r) ==
  CASE link = "off"                     -> [r EXCEPT !.co = "over", !.out = "err"]
    [] link = "dead" /\ r.op = "read"   -> [r EXCEPT !.co = "hung"]
    [] link = "dead" /\ r.op = "order"  -> [r EXCEPT !.co = "over", !.out = "ok", !.sent = @ + 1]
    [] link = "up"                      -> [r EXCEPT !.co = "over", !.out = "ok",
                                              !.sent = IF r.op = "order" THEN @ + 1 ELSE @]

\* The loop runs one of the tasks made for the coroutine: the first runs its
\* body, one that finds it waiting waits too, one that finds it over raises
\* RuntimeError. Only the last task made is the attempt the caller looks at.
Step(r) ==
  LET after == CASE r.co = "new"  -> [Body(r) EXCEPT !.ran = @ + 1]
                 [] r.co = "hung" -> r
                 [] r.co = "over" -> [r EXCEPT !.out = "err"]
  IN  [after EXCEPT !.queued = @ - 1, !.out = IF r.queued = 1 THEN @ ELSE r.out]

LoopRuns(c) ==
  /\ call[c].queued > 0
  /\ call' = [call EXCEPT ![c] = Step(@)]
  /\ UNCHANGED <<link, reachable, lock, task, beat, healthy, drops>>

\* The socket is closed under a waiting read, which raises ConnectionError.
ReadBreaks(c) ==
  /\ call[c].co = "hung" /\ link # "dead"
  /\ call' = [call EXCEPT ![c].co = "over", ![c].out = "err"]
  /\ UNCHANGED <<link, reachable, lock, task, beat, healthy, drops>>

Returns(c) ==
  /\ call[c].pc = "try" /\ call[c].out = "ok"
  /\ call' = [call EXCEPT ![c].pc = "idle"]
  /\ UNCHANGED <<link, reachable, lock, task, beat, healthy, drops>>

\* An attempt failed, or its 30 s are up (the link is silent, or the loop has
\* not come to it): back off and reconnect, or raise the last error.
AttemptFails(c) ==
  /\ call[c].pc = "try" /\ call[c].out # "ok"
  /\ call[c].out = "err" \/ call[c].queued > 0 \/ (call[c].co = "hung" /\ link = "dead")
  /\ IF call[c].attempt < Retries
     THEN /\ call' = [call EXCEPT ![c].pc = "backoff"]
          /\ task' = [task EXCEPT ![<<c, call[c].attempt>>] = "wait"]
     ELSE call' = [call EXCEPT ![c].pc = "failed"] /\ UNCHANGED task
  /\ UNCHANGED <<link, reachable, lock, beat, healthy, drops>>

\* The reconnect ended, or 15 s are up: it goes on without the caller, which
\* only stops waiting for it. Either way the next attempt follows.
Retry(c) ==
  /\ call[c].pc = "backoff"
  /\ LET t == <<c, call[c].attempt>> IN Ended(t) \/ Stuck(t)
  /\ call' = [call EXCEPT ![c] = Attempt(@)]
  /\ UNCHANGED <<link, reachable, lock, task, beat, healthy, drops>>

Runs(c) ==
  \/ Ensured(c) \/ LoopRuns(c) \/ ReadBreaks(c)
  \/ Returns(c) \/ AttemptFails(c) \/ Retry(c)

----------------------------------------------------------------------------
(* The network and the Gateway.                                                *)
GoesSilent ==
  /\ link = "up" /\ drops < MaxDrops
  /\ link' = "dead" /\ drops' = drops + 1
  /\ UNCHANGED <<reachable, lock, task, beat, healthy, call>>

GatewayStops ==
  /\ reachable /\ drops < MaxDrops
  /\ reachable' = FALSE /\ drops' = drops + 1
  /\ link' = "off"
  /\ UNCHANGED <<lock, task, beat, healthy, call>>

GatewayStarts ==
  /\ ~reachable /\ reachable' = TRUE
  /\ UNCHANGED <<link, lock, task, beat, healthy, call, drops>>

\* The operating system gives up on the dead socket, or the Gateway resets it.
SocketCloses ==
  /\ link = "dead" /\ link' = "off"
  /\ UNCHANGED <<reachable, lock, task, beat, healthy, call, drops>>

Outside == GoesSilent \/ GatewayStops \/ GatewayStarts \/ SocketCloses

Next ==
  \/ \E t \in Tasks : Reconnect(t)
  \/ Heartbeat
  \/ \E c \in Callers : Begin(c) \/ Runs(c)
  \/ Outside

Spec == Init /\ [][Next]_linkVars

\* The monitor goes on ticking, the event loop runs what is ready, and an
\* asyncio.Lock is handed on in the order the tasks asked for it: strong fairness.
HolderMoves == \E t \in Tasks : lock = t /\ Reconnect(t)
AloneSpec ==
  /\ Spec
  /\ WF_linkVars(Heartbeat) /\ WF_linkVars(HolderMoves)
  /\ SF_linkVars(Acquire(Beat))

\* ... and a dead socket is closed from outside in the end.
FairSpec == AloneSpec /\ WF_linkVars(SocketCloses)

----------------------------------------------------------------------------
TypeOK ==
  /\ link \in {"up", "dead", "off"} /\ reachable \in BOOLEAN
  /\ lock \in Tasks \cup {NoOne}
  /\ task \in [Tasks -> {"none", "wait", "probe", "dial", "ok", "err"}]
  /\ beat \in {"sleep", "reconnect"} /\ healthy \in BOOLEAN
  /\ call \in [Callers -> [pc : {"idle", "ensure", "try", "backoff", "failed"},
                           op : {"read", "order"}, attempt : 0 .. Retries, queued : 0 .. Retries,
                           co : {"new", "hung", "over"}, out : {"none", "ok", "err"},
                           ran : 0 .. Retries, sent : Nat]]
  /\ drops \in 0 .. MaxDrops

(* One call of submit_order puts at most one order on the socket, however often *)
(* _run times out and tries again and however late the loop comes to the        *)
(* attempts it was handed.                                                      *)
SentOnce == \A c \in Callers : call[c].sent <= 1

(* No reconnect takes down a link that answers: whoever gets the lock after     *)
(* another one reconnected finds the new link and leaves it.                    *)
KeepsGood == [][(\E t \in Tasks : Reconnect(t)) \/ Heartbeat => ~(link = "up" /\ link' # "up")]_linkVars

(* Once the Gateway stays reachable (and dead sockets are closed from outside)  *)
(* the link comes back and the monitor says so, with no caller's help.          *)
Reconnects == <>[]reachable => <>[](link = "up" /\ healthy)

(* _run's docstring, broker.py:483: "Retries transient failures (timeouts,      *)
(* connection resets) with exponential backoff." Once the loop is through with  *)
(* it, the body of a call that failed has run in every one of its attempts.     *)
FailedWasRetried ==
  \A c \in Callers :
    call[c].pc = "failed" /\ call[c].attempt = Retries /\ call[c].queued = 0
      => call[c].ran = Retries

(* _ensure_connected's docstring, broker.py:548: "HeartbeatMonitor (30s         *)
(* interval) handles liveness probing and reconnect for silent TCP drops."      *)
DeadIsReplaced == (link = "dead") ~> (link # "dead")
=============================================================================
