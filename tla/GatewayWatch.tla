---------------------------- MODULE GatewayWatch ----------------------------
(***************************************************************************)
(* The alert loop over the IB Gateway: gateway.py alert_loop,                *)
(* check_and_alert, _try_self_heal and register_ibkr.  Once a minute it reads *)
(* the Gateway's state, restarts a Gateway that is stuck, and tells somebody   *)
(* when the restarts do not help.  Its memory goes with the backend.          *)
(*                                                                         *)
(* Times are ages in polls, kept up to the largest value that a comparison    *)
(* tells apart; the largest also stands for "never".  The shortest intervals *)
(* are one poll; MinInterval is at most MaxInterval, Realert at most           *)
(* HealRealert.                                                              *)
(***************************************************************************)
EXTENDS Integers

CONSTANTS
    HealAfter,      \* HEAL_AFTER_SECS
    MinInterval,    \* HEAL_MIN_INTERVAL
    MaxInterval,    \* HEAL_MAX_INTERVAL
    FastAttempts,   \* HEAL_FAST_ATTEMPTS
    HealRealert,    \* HEAL_REALERT_SECS
    Realert,        \* REALERT_SECS
    RegisterEvery   \* REGISTER_MIN_INTERVAL

VARIABLES
    gw,     \* what the Gateway's log says, and whether the API is connected
    al,     \* AlertState
    out,    \* what the last poll set going: alerts, a restart, a registration
    hist    \* history, for the properties only

vars == <<gw, al, out, hist>>

HealStates == {"relogin_required", "bad_credentials", "down"}
NeedsHuman == HealStates \cup {"awaiting_2fa", "locked_out"}
States == NeedsHuman \cup {"logged_in", "restarting", "unknown"}

AttemptCap == FastAttempts + 8

Outs == {"restart", "register", "heal_alert", "alert", "clear"}

TypeOK ==
    /\ gw \in [state: States, api: BOOLEAN]
    /\ al \in [last: States \cup {"none"}, ever: BOOLEAN, stuck: {-1} \cup 0..HealAfter,
               attempts: 0..AttemptCap, heal: 0..MaxInterval, alert: 0..HealRealert,
               register: 0..RegisterEvery, alerted: BOOLEAN]
    /\ out \subseteq Outs
    /\ hist \in [restart: 0..MinInterval, away: 0..HealAfter, told: BOOLEAN,
                 stuck: Nat]

Capped(n, cap) == IF n < cap THEN n ELSE cap

\* A new AlertState.
Fresh == [last |-> "none", ever |-> FALSE, stuck |-> -1, attempts |-> 0,
          heal |-> MaxInterval, alert |-> HealRealert, register |-> RegisterEvery,
          alerted |-> FALSE]

NoHist == [restart |-> MinInterval, away |-> 0, told |-> FALSE, stuck |-> 0]

Init ==
    /\ gw \in [state: States, api: BOOLEAN] /\ (gw.state = "down" => ~gw.api)
    /\ al = Fresh /\ out = {} /\ hist = NoHist

-----------------------------------------------------------------------------

\* The ages one poll later.
Aged(a) == [a EXCEPT !.stuck = IF @ = -1 THEN -1 ELSE Capped(@ + 1, HealAfter),
                     !.heal = Capped(@ + 1, MaxInterval),
                     !.alert = Capped(@ + 1, HealRealert),
                     !.register = Capped(@ + 1, RegisterEvery)]

\* _heal_interval
Interval(attempts) ==
    IF attempts < FastAttempts THEN MinInterval
    ELSE LET n == Capped(attempts - FastAttempts + 1, 8) IN
         Capped(MinInterval * 2^n, MaxInterval)

\* _try_self_heal: the episode opens, and a restart goes out when one is due.
Stuck(a) == IF a.stuck = -1 THEN [a EXCEPT !.stuck = 0, !.attempts = 0] ELSE a
\* Mutant: the restarts end with the fast ones.
RestartDueFast(a) ==
    a.stuck >= HealAfter /\ a.heal >= Interval(a.attempts) /\ a.attempts < FastAttempts
RestartDue(a) == a.stuck >= HealAfter /\ a.heal >= Interval(a.attempts)
Healed(a) == IF RestartDue(a)
             THEN [a EXCEPT !.attempts = Capped(@ + 1, AttemptCap), !.heal = 0] ELSE a
\* Mutant: quiet as long as the restarts go on.
SuppressedLong(a) == a.attempts < FastAttempts \/ a.heal < MaxInterval
Suppressed(a) == a.attempts < FastAttempts \/ a.heal < MinInterval

Alerted(a) == [a EXCEPT !.alert = 0, !.alerted = TRUE]

\* check_and_alert when the Gateway is logged in: the episode is over.
LoggedIn(a) ==
    LET due == ~gw.api /\ a.register >= RegisterEvery IN
    /\ out' = (IF a.last \notin {"none", "logged_in"} /\ a.alerted THEN {"clear"} ELSE {})
              \cup (IF due THEN {"register"} ELSE {})
    /\ al' = [a EXCEPT !.last = "logged_in", !.ever = TRUE, !.stuck = -1, !.attempts = 0,
                       !.alerted = FALSE, !.register = IF due THEN 0 ELSE @]

\* In a state a restart cures: the restarts first, then one alert, then reminders.  "down"
\* before the first login is left alone.
Healing(a) ==
    LET b == Healed(Stuck(a))
        fire == ~Suppressed(b) /\ (~b.alerted \/ b.alert >= HealRealert)
        c == IF fire THEN Alerted(b) ELSE b
    IN  IF gw.state = "down" /\ ~a.ever
        THEN out' = {} /\ al' = [a EXCEPT !.last = gw.state]
        ELSE /\ out' = (IF RestartDue(Stuck(a)) THEN {"restart"} ELSE {})
                       \cup (IF fire THEN {"heal_alert"} ELSE {})
             /\ al' = [c EXCEPT !.last = gw.state]

\* In the other states that need somebody: at once, then at intervals.
Asking(a) ==
    LET fire == a.last # gw.state \/ a.alert >= Realert
        b == IF fire THEN Alerted(a) ELSE a
    IN  /\ out' = IF fire THEN {"alert"} ELSE {}
        /\ al' = [b EXCEPT !.last = gw.state]

Recorded ==
    hist' = [restart |-> IF "restart" \in out' THEN 0 ELSE Capped(hist.restart + 1, MinInterval),
             away |-> IF gw.state = "logged_in" THEN 0 ELSE Capped(hist.away + 1, HealAfter),
             told |-> gw.state # "logged_in"
                        /\ (hist.told \/ out' \cap {"alert", "heal_alert"} # {}),
             stuck |-> IF gw.state \in HealStates /\ (al.ever \/ gw.state # "down")
                       THEN Capped(hist.stuck + 1, HealAfter + (FastAttempts + 1) * MinInterval + 1)
                       ELSE 0]

Poll ==
    /\ LET a == Aged(al) IN
       CASE gw.state = "logged_in" -> LoggedIn(a)
         [] gw.state \in HealStates -> Healing(a)
         [] gw.state \in {"awaiting_2fa", "locked_out"} -> Asking(a)
         [] OTHER -> out' = {} /\ al' = [a EXCEPT !.last = gw.state]
    /\ Recorded
    /\ UNCHANGED gw

-----------------------------------------------------------------------------
(* Outside the loop.                                                       *)

\* The Gateway goes on by itself, or is helped; "down" is only read while the API is not
\* connected.
GatewayMoves ==
    /\ gw' \in [state: States, api: BOOLEAN] /\ gw' # gw
    /\ gw'.state = "down" => ~gw'.api
    /\ UNCHANGED <<al, out, hist>>

\* The backend starts again, with nothing in memory and no API connection yet.
BackendRestarts ==
    /\ al' = Fresh /\ out' = {} /\ hist' = NoHist
    /\ gw' = [gw EXCEPT !.api = FALSE]

Next == Poll \/ GatewayMoves \/ BackendRestarts

Spec == Init /\ [][Next]_vars
FairSpec == Spec /\ WF_vars(Poll)

-----------------------------------------------------------------------------
(* Properties.                                                             *)

\* In one life of the backend two restarts are never closer than HEAL_MIN_INTERVAL, not
\* even across two outages: IBKR counts failed logins (gateway.py:254).
RestartsApart == [][Poll /\ "restart" \in out' => hist.restart + 1 >= MinInterval]_vars

\* A Gateway that was logged in within HEAL_AFTER_SECS is never restarted, nor one that is
\* logged in ("be sure it is stuck, not a transient").
NotTransient ==
    [][Poll /\ "restart" \in out' => gw.state # "logged_in" /\ hist.away >= HealAfter]_vars

\* "All clear" goes out when the Gateway is back exactly if somebody had been told.
ClearIfTold ==
    [][Poll /\ al'.last = "logged_in" => (("clear" \in out') <=> hist.told)]_vars

\* A Gateway that stays in a state a restart should cure is reported after the fast
\* restarts have had their time, and one more interval if an outage before it used one.
ToldInTime == hist.stuck > HealAfter + (FastAttempts + 1) * MinInterval => hist.told

\* "Restarts never stop while the state lasts", however the states in between change.
RestartsGoOn ==
    (<>[](al.ever /\ al.last # "logged_in") /\ []<>(al.last \in HealStates))
        => []<>("restart" \in out)
=============================================================================
