----------------------------- MODULE CookCache ------------------------------
(***************************************************************************)
(* The editor's cook cache: CookCache in nodebuilder/cook_cache.py.  Request *)
(* threads look a cook up, the first to miss it cooks it and the others wait  *)
(* for its event; entries go by idle time, by age, by count and by bytes.     *)
(* A cook may fail, may be too big to keep, and may take longer than the      *)
(* others wait.  A cook id stands for its key.                                *)
(***************************************************************************)
EXTENDS Naturals, Sequences, FiniteSets, SequencesExt, Functions

CONSTANTS
    Requests,    \* request threads
    Keys,
    None,
    MaxEntries,  \* max_entries
    MaxBytes,    \* max_bytes
    Ttl,         \* ttl_seconds, in ticks
    MaxAge,      \* max_age_seconds, in ticks
    Sizes,       \* what a cook may hold, in bytes
    MaxTime,     \* bound: ticks
    MaxAsk       \* bound: requests of one thread


VARIABLES
    entries,   \* _entries, least recently used first
    inflight,  \* _inflight: the request whose event it is
    req,       \* the requests
    now        \* the clock

vars == <<entries, inflight, req, now>>

Entry == [key: Keys, created: 0..MaxTime, used: 0..MaxTime, bytes: Nat]
Steps == {"idle", "look", "join", "wait", "again", "cook", "solo", "end", "set", "done"}

\* leads: the leader whose event the request waits on; set: that event is set; answer:
\* the entry it returns.
Idle(n) == [at |-> "idle", key |-> None, leads |-> None, set |-> FALSE,
            answer |-> "none", asked |-> n]

TypeOK ==
    /\ entries \in Seq(Entry)
    /\ inflight \in [Keys -> Requests \cup {None}]
    /\ now \in 0..MaxTime
    /\ req \in [Requests -> [at: Steps, key: Keys \cup {None}, leads: Requests \cup {None},
                             set: BOOLEAN, answer: {"none", "hit", "miss", "failed"},
                             asked: 0..MaxAsk]]

Init ==
    /\ entries = <<>> /\ inflight = [k \in Keys |-> None] /\ now = 0
    /\ req = [r \in Requests |-> Idle(0)]

-----------------------------------------------------------------------------
(* The table, under its lock.                                              *)

Purged(es) == SelectSeq(es, LAMBDA e : now - e.used <= Ttl /\ now - e.created <= MaxAge)
Without(es, k) == SelectSeq(es, LAMBDA e : e.key # k)
Has(es, k) == \E i \in DOMAIN es : es[i].key = k
Find(es, k) == es[CHOOSE i \in DOMAIN es : es[i].key = k]
Bytes(es) == FoldLeft(LAMBDA n, e : n + e.bytes, 0, es)
Over(es) == Len(es) > MaxEntries \/ Bytes(es) > MaxBytes

\* _enforce_limits(keep): the oldest entries go, the newest (the one in use) stays.
Enforced(es) ==
    LET cut == CHOOSE n \in 0..Len(es) :
                  /\ n = Len(es) - 1 \/ ~Over(SubSeq(es, n + 1, Len(es)))
                  /\ \A m \in 0..(n - 1) : Over(SubSeq(es, m + 1, Len(es)))
    IN  SubSeq(es, cut + 1, Len(es))

\* get: a found entry becomes the newest and is measured again; columns built since the
\* last look have made it bigger.
Got(k, bytes) ==
    LET es == Purged(entries) IN
    IF Has(es, k)
    THEN Enforced(Append(Without(es, k), [Find(es, k) EXCEPT !.used = now, !.bytes = bytes]))
    ELSE es

Grown(k) ==
    LET es == Purged(entries) IN
    IF Has(es, k) THEN {n \in Sizes : n >= Find(es, k).bytes} ELSE {0}

\* put: an entry bigger than the whole cache is not kept.
Stored(k, bytes) ==
    LET es == Without(Purged(entries), k) IN
    IF bytes > MaxBytes THEN es
    ELSE Enforced(Append(es, [key |-> k, created |-> now, used |-> now, bytes |-> bytes]))

-----------------------------------------------------------------------------
(* get_or_cook.                                                            *)

Goes(r, at) == req' = [req EXCEPT ![r].at = at]

Ask(r) ==
    /\ req[r].at = "idle" /\ req[r].asked < MaxAsk
    /\ \E k \in Keys : req' = [req EXCEPT ![r].at = "look", ![r].key = k, ![r].asked = @ + 1]
    /\ UNCHANGED <<entries, inflight, now>>

Look(r) ==
    /\ req[r].at = "look"
    /\ LET k == req[r].key IN
       /\ \E bytes \in Grown(k) : entries' = Got(k, bytes)
       /\ IF Has(Purged(entries), k)
          THEN req' = [req EXCEPT ![r].at = "done", ![r].answer = "hit"]
          ELSE Goes(r, "join")
    /\ UNCHANGED <<inflight, now>>

\* Mutant: everybody leads.
JoinNobody(r) ==
    /\ req[r].at = "join"
    /\ inflight' = [inflight EXCEPT ![req[r].key] = r] /\ Goes(r, "again")
    /\ UNCHANGED <<entries, now>>

\* The first to come leads; the others wait for its event.
Join(r) ==
    /\ req[r].at = "join"
    /\ LET k == req[r].key IN
       IF inflight[k] = None
       THEN inflight' = [inflight EXCEPT ![k] = r] /\ Goes(r, "again")
       ELSE /\ req' = [req EXCEPT ![r].at = "wait", ![r].leads = inflight[k], ![r].set = FALSE]
            /\ UNCHANGED inflight
    /\ UNCHANGED <<entries, now>>

Wake(r) ==
    /\ req[r].at = "wait" /\ req[r].set
    /\ req' = [req EXCEPT ![r].at = "look", ![r].leads = None, ![r].set = FALSE]
    /\ UNCHANGED <<entries, inflight, now>>

\* wait_seconds are over: it cooks for itself, unregistered.
GiveUp(r) ==
    /\ req[r].at = "wait" /\ ~req[r].set
    /\ req' = [req EXCEPT ![r].at = "solo", ![r].leads = None]
    /\ UNCHANGED <<entries, inflight, now>>

\* Another request may have put the cook between the miss and the lock.
LookAgain(r) ==
    /\ req[r].at = "again"
    /\ LET k == req[r].key IN
       /\ \E bytes \in Grown(k) : entries' = Got(k, bytes)
       /\ req' = IF Has(Purged(entries), k)
                 THEN [req EXCEPT ![r].at = "end", ![r].answer = "hit"]
                 ELSE [req EXCEPT ![r].at = "cook"]
    /\ UNCHANGED <<inflight, now>>

After(r) == IF req[r].at = "cook" THEN "end" ELSE "done"

Cooked(r) ==
    /\ req[r].at \in {"cook", "solo"}
    /\ \E bytes \in Sizes : entries' = Stored(req[r].key, bytes)
    /\ req' = [req EXCEPT ![r].at = After(r), ![r].answer = "miss"]
    /\ UNCHANGED <<inflight, now>>

\* Mutant: a cook that fails leaves without the finally.
CookFailsRaises(r) ==
    /\ req[r].at \in {"cook", "solo"}
    /\ req' = [req EXCEPT ![r].at = "done", ![r].answer = "failed"]
    /\ UNCHANGED <<entries, inflight, now>>

CookFails(r) ==
    /\ req[r].at \in {"cook", "solo"}
    /\ req' = [req EXCEPT ![r].at = After(r), ![r].answer = "failed"]
    /\ UNCHANGED <<entries, inflight, now>>

\* The leader's finally: its own registration goes, then its event is set.
Unregister(r) ==
    /\ req[r].at = "end"
    /\ inflight' = [inflight EXCEPT ![req[r].key] = IF @ = r THEN None ELSE @]
    /\ Goes(r, "set")
    /\ UNCHANGED <<entries, now>>

SetEvent(r) ==
    /\ req[r].at = "set"
    /\ req' = [u \in Requests |->
                 IF u = r THEN [req[r] EXCEPT !.at = "done"]
                 ELSE IF req[u].leads = r THEN [req[u] EXCEPT !.set = TRUE] ELSE req[u]]
    /\ UNCHANGED <<entries, inflight, now>>

Return(r) ==
    /\ req[r].at = "done" /\ req' = [req EXCEPT ![r] = Idle(req[r].asked)]
    /\ UNCHANGED <<entries, inflight, now>>

\* A request that carries a cook id only (inspect, find_live).
Read(k) ==
    /\ \E bytes \in Grown(k) : entries' = Got(k, bytes)
    /\ UNCHANGED <<inflight, req, now>>

Tick == now < MaxTime /\ now' = now + 1 /\ UNCHANGED <<entries, inflight, req>>

Moves(r) ==
    \/ Look(r) \/ Join(r) \/ Wake(r) \/ LookAgain(r) \/ Cooked(r) \/ CookFails(r)
    \/ Unregister(r) \/ SetEvent(r) \/ Return(r)

Next == (\E r \in Requests : Ask(r) \/ Moves(r) \/ GiveUp(r)) \/ (\E k \in Keys : Read(k)) \/ Tick

Spec == Init /\ [][Next]_vars

-----------------------------------------------------------------------------
(* Properties.                                                             *)

\* Of the requests that cook one key at once, at most one is not there because it would
\* wait no longer ("Single flight").
SingleFlight ==
    \A r, u \in Requests :
        req[r].at = "cook" /\ req[u].at = "cook" /\ req[r].key = req[u].key => r = u

\* A registered key is being cooked, and who waits waits for such a cook or has been
\* woken: no failure leaves an event nobody sets.
Leads(r) == req[r].at \in {"again", "cook", "end", "set"}
WaitsForACook ==
    /\ \A k \in Keys : inflight[k] # None
          => req[inflight[k]].key = k /\ Leads(inflight[k])
    /\ \A r \in Requests : req[r].at = "wait" /\ ~req[r].set
          => req[req[r].leads].key = req[r].key /\ Leads(req[r].leads)
=============================================================================
