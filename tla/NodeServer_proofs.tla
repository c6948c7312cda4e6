-------------------------- MODULE NodeServer_proofs --------------------------
(***************************************************************************)
(* What is proved about the cook cache and the asset library, each alone:    *)
(* who cooks what and whom the others wait for, and that no version number is *)
(* given out twice.                                                         *)
(***************************************************************************)
EXTENDS MCGraphs, Sequences, WellFoundedInduction, TLAPS

-----------------------------------------------------------------------------
(* The cook cache: a key is registered for the request that leads its cook,   *)
(* and for nobody else, from the registration to the leader's finally.        *)

CookJob == [at: Cook!Steps, key: CookKeys \cup {None}, leads: CookThreads \cup {None},
            set: BOOLEAN, answer: {"none", "hit", "miss", "failed"}, asked: Nat]

CTyped == inflight \in [CookKeys -> CookThreads \cup {None}] /\ req \in [CookThreads -> CookJob]

Cooking == {"again", "cook", "end"}

\* r has what it needs: its key, its registration, its leader.
Registered(r) ==
    /\ req[r].at # "idle" => req[r].key \in CookKeys
    /\ req[r].at \in Cooking => inflight[req[r].key] = r
    /\ req[r].at = "wait" /\ ~req[r].set
         => /\ req[r].leads \in CookThreads
            /\ req[req[r].leads].key = req[r].key
            /\ req[req[r].leads].at \in Cooking \cup {"set"}

Led(k) ==
    inflight[k] # None => req[inflight[k]].key = k /\ req[inflight[k]].at \in Cooking

CInv == CTyped /\ (\A r \in CookThreads : Registered(r)) /\ (\A k \in CookKeys : Led(k))

LEMMA CInvInit == Cook!Init => CInv
<1> SUFFICES ASSUME Cook!Init PROVE CInv
  OBVIOUS
<1>1. \A r \in CookThreads :
        req[r] = [at |-> "idle", key |-> None, leads |-> None, set |-> FALSE,
                  answer |-> "none", asked |-> 0]
  BY DEF Cook!Init, Cook!Idle
<1>2. CTyped
  BY DEF Cook!Init, Cook!Idle, CTyped, CookJob, Cook!Steps
<1> QED
  BY <1>1, <1>2 DEF Cook!Init, CInv, Registered, Led, Cooking

-----------------------------------------------------------------------------
(* Steps of one request.                                                   *)

Only(r) == \A u \in CookThreads \ {r} : req'[u] = req[u]

\* A request that registers and unregisters nothing: it leads or it does not, as before.
LEMMA OneMoves ==
    ASSUME CInv, NEW r \in CookThreads, req' \in [CookThreads -> CookJob], Only(r),
           inflight' = inflight,
           req'[r].at # "idle" => req'[r].key \in CookKeys,
           req[r].at \in Cooking <=> req'[r].at \in Cooking,
           req[r].at # "set",
           req[r].at \in Cooking => req'[r].key = req[r].key,
           req'[r].at = "wait" /\ ~req'[r].set
             => /\ req'[r].leads \in CookThreads \ {r}
                /\ req[req'[r].leads].key = req'[r].key
                /\ req[req'[r].leads].at \in Cooking \cup {"set"}
    PROVE  CInv'
<1>1. CTyped'
  BY DEF CInv, CTyped
<1>2. Registered(r)'
  BY DEF CInv, Registered, Only, Cooking
<1>3. ASSUME NEW u \in CookThreads \ {r} PROVE Registered(u)'
  <2>1. req'[u] = req[u] /\ Registered(u)
    BY <1>3 DEF CInv, Only
  <2>2. CASE req[u].leads = r
    BY <2>1, <2>2, <1>3 DEF Registered, Only, Cooking
  <2>3. CASE req[u].leads # r
    BY <2>1, <2>3, <1>3 DEF Registered, Only, Cooking
  <2> QED
    BY <2>2, <2>3
<1>4. ASSUME NEW k \in CookKeys PROVE Led(k)'
  <2>1. inflight'[k] = inflight[k] /\ inflight[k] \in CookThreads \cup {None} /\ Led(k)
    BY <1>4 DEF CInv, CTyped
  <2> QED
    BY <2>1, <1>4 DEF Led, Only, Cooking
<1> QED
  BY <1>1, <1>2, <1>3, <1>4 DEF CInv

\* The steps that keep every registration.
LEMMA Moving ==
    ASSUME CInv, NEW r \in CookThreads,
           \/ Cook!Ask(r) \/ Cook!Look(r) \/ Cook!Wake(r) \/ Cook!GiveUp(r)
           \/ Cook!LookAgain(r) \/ Cook!Cooked(r) \/ Cook!CookFails(r) \/ Cook!Return(r)
    PROVE  CInv'
<1>1. req \in [CookThreads -> CookJob] /\ req[r] \in CookJob /\ Registered(r)
  BY DEF CInv, CTyped
<1>2. ASSUME NEW w \in CookJob, req' = [req EXCEPT ![r] = w], inflight' = inflight,
             w.at # "wait", w.at # "idle" => w.key \in CookKeys,
             req[r].at # "set", req[r].at \in Cooking <=> w.at \in Cooking,
             req[r].at \in Cooking => w.key = req[r].key
      PROVE  CInv'
  <2>1. req' \in [CookThreads -> CookJob] /\ req'[r] = w /\ Only(r)
    BY <1>1, <1>2 DEF Only
  <2> QED
    BY <1>2, <2>1, OneMoves
<1>3. CASE Cook!Ask(r)
  <2>1. PICK k \in CookKeys : req' = [req EXCEPT ![r].at = "look", ![r].key = k, ![r].asked = @ + 1]
    BY <1>3 DEF Cook!Ask
  <2> DEFINE w == [req[r] EXCEPT !.at = "look", !.key = k, !.asked = @ + 1]
  <2>2. req[r].at = "idle" /\ inflight' = inflight /\ req' = [req EXCEPT ![r] = w]
    BY <1>1, <1>3, <2>1 DEF Cook!Ask
  <2>3. w \in CookJob /\ w.at = "look" /\ w.key = k
    BY <1>1, <2>1 DEF CookJob, Cook!Steps
  <2> HIDE DEF w
  <2> QED
    BY <1>2, <2>1, <2>2, <2>3 DEF Cooking
<1>4. CASE Cook!Look(r)
  <2>1. /\ req[r].at = "look" /\ inflight' = inflight
        /\ \/ req' = [req EXCEPT ![r] = [req[r] EXCEPT !.at = "done", !.answer = "hit"]]
           \/ req' = [req EXCEPT ![r] = [req[r] EXCEPT !.at = "join"]]
    BY <1>1, <1>4 DEF Cook!Look, Cook!Goes
  <2>2. \A w \in {[req[r] EXCEPT !.at = "done", !.answer = "hit"], [req[r] EXCEPT !.at = "join"]} :
          w \in CookJob /\ w.at \in {"done", "join"} /\ w.key = req[r].key
    BY <1>1, <2>1 DEF CookJob, Cook!Steps
  <2> QED
    BY <1>1, <1>2, <2>1, <2>2 DEF Registered, Cooking
<1>5. CASE Cook!Wake(r)
  <2> DEFINE w == [req[r] EXCEPT !.at = "look", !.leads = None, !.set = FALSE]
  <2>1. req[r].at = "wait" /\ inflight' = inflight /\ req' = [req EXCEPT ![r] = w]
    BY <1>1, <1>5 DEF Cook!Wake, Cook!Goes, Cook!After, Cook!Idle
  <2>2. w \in CookJob /\ w.at = "look" /\ w.key = req[r].key
    BY <1>1, <2>1 DEF CookJob, Cook!Steps, Cook!After
  <2> HIDE DEF w
  <2> QED
    BY <1>1, <1>2, <2>1, <2>2 DEF Registered, Cooking
<1>6. CASE Cook!GiveUp(r)
  <2> DEFINE w == [req[r] EXCEPT !.at = "solo", !.leads = None]
  <2>1. req[r].at = "wait" /\ inflight' = inflight /\ req' = [req EXCEPT ![r] = w]
    BY <1>1, <1>6 DEF Cook!GiveUp, Cook!Goes, Cook!After, Cook!Idle
  <2>2. w \in CookJob /\ w.at = "solo" /\ w.key = req[r].key
    BY <1>1, <2>1 DEF CookJob, Cook!Steps, Cook!After
  <2> HIDE DEF w
  <2> QED
    BY <1>1, <1>2, <2>1, <2>2 DEF Registered, Cooking
<1>7. CASE Cook!LookAgain(r)
  <2> DEFINE w == IF Cook!Has(Cook!Purged(entries), req[r].key)
                THEN [req[r] EXCEPT !.at = "end", !.answer = "hit"] ELSE [req[r] EXCEPT !.at = "cook"]
  <2>1. req[r].at = "again" /\ inflight' = inflight /\ req' = [req EXCEPT ![r] = w]
    BY <1>1, <1>7 DEF Cook!LookAgain, Cook!Goes, Cook!After, Cook!Idle
  <2>2. w \in CookJob /\ w.at \in {"end", "cook"} /\ w.key = req[r].key
    BY <1>1, <2>1 DEF CookJob, Cook!Steps, Cook!After
  <2> HIDE DEF w
  <2> QED
    BY <1>1, <1>2, <2>1, <2>2 DEF Registered, Cooking
<1>8. CASE Cook!Cooked(r)
  <2> DEFINE w == [req[r] EXCEPT !.at = Cook!After(r), !.answer = "miss"]
  <2>1. req[r].at \in {"cook", "solo"} /\ inflight' = inflight /\ req' = [req EXCEPT ![r] = w]
    BY <1>1, <1>8 DEF Cook!Cooked, Cook!Goes, Cook!After, Cook!Idle
  <2>2. w \in CookJob /\ w.at = Cook!After(r) /\ w.key = req[r].key
    BY <1>1, <2>1 DEF CookJob, Cook!Steps, Cook!After
  <2> HIDE DEF w
  <2> QED
    BY <1>1, <1>2, <2>1, <2>2 DEF Registered, Cooking, Cook!After
<1>9. CASE Cook!CookFails(r)
  <2> DEFINE w == [req[r] EXCEPT !.at = Cook!After(r), !.answer = "failed"]
  <2>1. req[r].at \in {"cook", "solo"} /\ inflight' = inflight /\ req' = [req EXCEPT ![r] = w]
    BY <1>1, <1>9 DEF Cook!CookFails, Cook!Goes, Cook!After, Cook!Idle
  <2>2. w \in CookJob /\ w.at = Cook!After(r) /\ w.key = req[r].key
    BY <1>1, <2>1 DEF CookJob, Cook!Steps, Cook!After
  <2> HIDE DEF w
  <2> QED
    BY <1>1, <1>2, <2>1, <2>2 DEF Registered, Cooking, Cook!After
<1>10. CASE Cook!Return(r)
  <2> DEFINE w == Cook!Idle(req[r].asked)
  <2>1. req[r].at = "done" /\ inflight' = inflight /\ req' = [req EXCEPT ![r] = w]
    BY <1>10 DEF Cook!Return
  <2>2. w \in CookJob /\ w.at = "idle"
    BY <1>1 DEF CookJob, Cook!Steps, Cook!Idle
  <2> HIDE DEF w
  <2> QED
    BY <1>1, <1>2, <2>1, <2>2 DEF Registered, Cooking
<1> QED
  BY <1>3, <1>4, <1>5, <1>6, <1>7, <1>8, <1>9, <1>10

\* The first to come registers; who comes later waits for whom it finds.
LEMMA Joining ==
    ASSUME CInv, None \notin CookThreads, NEW r \in CookThreads, Cook!Join(r)
    PROVE  CInv'
<1> DEFINE k == req[r].key
<1>1. req \in [CookThreads -> CookJob] /\ req[r] \in CookJob /\ Registered(r) /\ req[r].at = "join"
  BY DEF CInv, CTyped, Cook!Join
<1>2. k \in CookKeys /\ Led(k) /\ inflight \in [CookKeys -> CookThreads \cup {None}]
  BY <1>1 DEF CInv, CTyped, Registered
<1>3. CASE inflight[k] # None
  <2> DEFINE w == [req[r] EXCEPT !.at = "wait", !.leads = inflight[k], !.set = FALSE]
  <2>1. req' = [req EXCEPT ![r] = w] /\ inflight' = inflight
    BY <1>1, <1>3 DEF Cook!Join
  <2>2. w \in CookJob /\ w.at = "wait" /\ w.key = k /\ w.leads = inflight[k]
    BY <1>1, <1>2 DEF CookJob, Cook!Steps
  <2> HIDE DEF w
  <2>3. req' \in [CookThreads -> CookJob] /\ req'[r] = w /\ Only(r)
    BY <1>1, <2>1, <2>2 DEF Only
  <2>4. inflight[k] \in CookThreads \ {r} /\ req[inflight[k]].key = k /\ req[inflight[k]].at \in Cooking
    BY <1>1, <1>2, <1>3 DEF Led, Cooking
  <2> HIDE DEF k
  <2> QED
    BY <1>1, <1>2, <2>1, <2>2, <2>3, <2>4, OneMoves DEF Cooking
<1>4. CASE inflight[k] = None
  <2> DEFINE w == [req[r] EXCEPT !.at = "again"]
  <2>1. req' = [req EXCEPT ![r] = w] /\ inflight' = [inflight EXCEPT ![k] = r]
    BY <1>1, <1>4 DEF Cook!Join, Cook!Goes
  <2>2. w \in CookJob /\ w.at = "again" /\ w.key = k
    BY <1>1, <1>2 DEF CookJob, Cook!Steps
  <2> HIDE DEF w
  <2>3. /\ req' \in [CookThreads -> CookJob] /\ req'[r] = w /\ Only(r)
        /\ inflight' \in [CookKeys -> CookThreads \cup {None}] /\ inflight'[k] = r
        /\ \A j \in CookKeys \ {k} : inflight'[j] = inflight[j]
    BY <1>1, <1>2, <2>1, <2>2 DEF Only
  <2>4. \A u \in CookThreads \ {r} : req[u].at \in Cooking => req[u].key \in CookKeys \ {k}
    BY <1>4 DEF CInv, Registered, Cooking
  <2> HIDE DEF k
  <2>5. Registered(r)'
    BY <1>2, <2>2, <2>3 DEF Registered, Cooking
  <2>6. ASSUME NEW u \in CookThreads \ {r} PROVE Registered(u)'
    <3>1. req'[u] = req[u] /\ Registered(u)
      BY <2>3 DEF CInv, Only
    <3>2. CASE req[u].leads = r
      BY <3>1, <3>2, <1>1, <2>3, <2>4 DEF Registered, Only, Cooking
    <3>3. CASE req[u].leads # r
      BY <3>1, <3>3, <2>3, <2>4 DEF Registered, Only, Cooking
    <3> QED
      BY <3>2, <3>3
  <2>7. ASSUME NEW j \in CookKeys PROVE Led(j)'
    <3>1. CASE j = k
      BY <3>1, <2>2, <2>3 DEF Led, Cooking
    <3>2. CASE j # k
      <4>1. inflight'[j] = inflight[j] /\ inflight[j] \in CookThreads \cup {None} /\ Led(j)
        BY <3>2, <1>2, <2>3 DEF CInv
      <4>2. inflight[j] # None => inflight[j] # r
        BY <1>1, <4>1 DEF Led, Cooking
      <4> QED
        BY <4>1, <4>2, <2>3 DEF Led, Only
    <3> QED
      BY <3>1, <3>2
  <2> QED
    BY <2>3, <2>5, <2>6, <2>7 DEF CInv, CTyped
<1> QED
  BY <1>3, <1>4

\* The leader's finally takes down its own registration and no other.
LEMMA Unregistering ==
    ASSUME CInv, None \notin CookThreads, NEW r \in CookThreads, Cook!Unregister(r)
    PROVE  CInv'
<1> DEFINE k == req[r].key
           w == [req[r] EXCEPT !.at = "set"]
<1>1. req \in [CookThreads -> CookJob] /\ req[r] \in CookJob /\ Registered(r) /\ req[r].at = "end"
  BY DEF CInv, CTyped, Cook!Unregister
<1>2. k \in CookKeys /\ inflight \in [CookKeys -> CookThreads \cup {None}] /\ inflight[k] = r
  BY <1>1 DEF CInv, CTyped, Registered, Cooking
<1>3. req' = [req EXCEPT ![r] = w] /\ inflight' = [inflight EXCEPT ![k] = None]
  BY <1>1, <1>2 DEF Cook!Unregister, Cook!Goes
<1>4. w \in CookJob /\ w.at = "set" /\ w.key = k
  BY <1>1 DEF CookJob, Cook!Steps
<1> HIDE DEF w
<1>5. /\ req' \in [CookThreads -> CookJob] /\ req'[r] = w /\ Only(r)
      /\ inflight' \in [CookKeys -> CookThreads \cup {None}] /\ inflight'[k] = None
      /\ \A j \in CookKeys \ {k} : inflight'[j] = inflight[j]
  BY <1>1, <1>2, <1>3, <1>4 DEF Only
<1>6. \A u \in CookThreads \ {r} : req[u].at \in Cooking => req[u].key \in CookKeys \ {k}
  BY <1>2 DEF CInv, Registered, Cooking
<1> HIDE DEF k
<1>7. Registered(r)'
  BY <1>2, <1>4, <1>5 DEF Registered, Cooking
<1>8. ASSUME NEW u \in CookThreads \ {r} PROVE Registered(u)'
  <2>1. req'[u] = req[u] /\ Registered(u)
    BY <1>5 DEF CInv, Only
  <2>2. CASE req[u].leads = r
    BY <2>1, <2>2, <1>1, <1>4, <1>5, <1>6 DEF Registered, Only, Cooking, k
  <2>3. CASE req[u].leads # r
    BY <2>1, <2>3, <1>5, <1>6 DEF Registered, Only, Cooking
  <2> QED
    BY <2>2, <2>3
<1>9. ASSUME NEW j \in CookKeys PROVE Led(j)'
  <2>1. CASE j = k
    BY <2>1, <1>5 DEF Led
  <2>2. CASE j # k
    <3>1. inflight'[j] = inflight[j] /\ inflight[j] \in CookThreads \cup {None} /\ Led(j)
      BY <2>2, <1>2, <1>5 DEF CInv
    <3>2. inflight[j] # None => inflight[j] # r
      BY <2>2, <3>1 DEF Led, k
    <3> QED
      BY <3>1, <3>2, <1>5 DEF Led, Only
  <2> QED
    BY <2>1, <2>2
<1> QED
  BY <1>5, <1>7, <1>8, <1>9 DEF CInv, CTyped

\* Who waits for r is woken, and r leads nobody any more.
LEMMA Waking ==
    ASSUME CInv, NEW r \in CookThreads, Cook!SetEvent(r)
    PROVE  CInv'
<1>1. req \in [CookThreads -> CookJob] /\ req[r].at = "set" /\ inflight' = inflight
  BY DEF CInv, CTyped, Cook!SetEvent
<1> DEFINE w(u) == IF u = r THEN [req[r] EXCEPT !.at = "done"]
                   ELSE IF req[u].leads = r THEN [req[u] EXCEPT !.set = TRUE] ELSE req[u]
<1>2. req' = [u \in CookThreads |-> w(u)]
  BY DEF Cook!SetEvent
<1>3. ASSUME NEW u \in CookThreads
      PROVE  /\ w(u) \in CookJob /\ w(u).key = req[u].key /\ w(u).leads = req[u].leads
             /\ w(u).at = (IF u = r THEN "done" ELSE req[u].at)
             /\ w(u).set = (IF u # r /\ req[u].leads = r THEN TRUE ELSE req[u].set)
  <2>1. CASE u = r
    BY <1>1, <2>1 DEF CookJob, Cook!Steps
  <2>2. CASE u # r /\ req[u].leads = r
    BY <1>1, <2>2 DEF CookJob, Cook!Steps
  <2>3. CASE u # r /\ req[u].leads # r
    BY <1>1, <2>3 DEF CookJob, Cook!Steps
  <2> QED
    BY <2>1, <2>2, <2>3
<1> HIDE DEF w
<1>4. /\ req' \in [CookThreads -> CookJob]
      /\ \A u \in CookThreads :
            /\ req'[u].key = req[u].key /\ req'[u].leads = req[u].leads
            /\ req'[u].at = (IF u = r THEN "done" ELSE req[u].at)
            /\ req'[u].set = (IF u # r /\ req[u].leads = r THEN TRUE ELSE req[u].set)
  BY <1>2, <1>3
<1>5. ASSUME NEW u \in CookThreads PROVE Registered(u)'
  <2>1. Registered(u) /\ (req'[u].at \in Cooking => inflight'[req'[u].key] = u)
    BY <1>1, <1>4 DEF CInv, Registered, Cooking
  <2>2. CASE u = r
    BY <2>1, <2>2, <1>1, <1>4 DEF Registered
  <2>3. CASE u # r /\ req[u].leads = r
    BY <2>1, <2>3, <1>4 DEF Registered
  <2>4. CASE u # r /\ req[u].leads # r
    BY <2>1, <2>4, <1>4 DEF Registered, Cooking
  <2> QED
    BY <2>2, <2>3, <2>4
<1>6. ASSUME NEW k \in CookKeys PROVE Led(k)'
  <2>1. inflight[k] \in CookThreads \cup {None} /\ Led(k)
    BY DEF CInv, CTyped
  <2> QED
    BY <2>1, <1>1, <1>4 DEF Led, Cooking
<1> QED
  BY <1>1, <1>4, <1>5, <1>6 DEF CInv, CTyped

LEMMA CInvNext ==
    ASSUME CInv, None \notin CookThreads, [Cook!Next]_(Cook!vars)
    PROVE  CInv'
<1>1. CASE UNCHANGED <<inflight, req>>
  BY <1>1 DEF CInv, CTyped, Registered, Led
<1>2. CASE \E r \in CookThreads : Cook!Ask(r) \/ Cook!Moves(r) \/ Cook!GiveUp(r)
  BY <1>2, Moving, Joining, Unregistering, Waking DEF Cook!Moves
<1> QED
  BY <1>1, <1>2 DEF Cook!Next, Cook!vars, Cook!Read, Cook!Tick

\* However many requests ask for however many keys, and however cooks fail and waits run
\* out: of the requests that cook one key, at most one is there as its leader
\* (CookCache!SingleFlight; cook_cache.py get_or_cook).
THEOREM CooksOnce ==
    ASSUME None \notin CookThreads
    PROVE  Cook!Spec => []SingleFlight
<1>1. CInv => SingleFlight
  BY DEF CInv, Registered, Cooking, SingleFlight, Cook!SingleFlight
<1> QED
  BY <1>1, CInvInit, CInvNext, PTL DEF Cook!Spec

\* Nobody waits for an event that no one is going to set: a registered key has a leader
\* at work, and so has every wait (CookCache!WaitsForACook; the finally of get_or_cook).
THEOREM WaitsAreServed ==
    ASSUME None \notin CookThreads
    PROVE  Cook!Spec => []WaitsForACook
<1>1. CInv => WaitsForACook
  BY DEF CInv, CTyped, Registered, Led, Cooking, WaitsForACook, Cook!WaitsForACook, Cook!Leads
<1> QED
  BY <1>1, CInvInit, CInvNext, PTL DEF Cook!Spec

-----------------------------------------------------------------------------
(* Numbers, and the sequence that stands for the library's ordered dict.    *)

\* A set of numbers has its least, and a bounded one its greatest.
LEMMA LeastNat ==
    ASSUME NEW T \in SUBSET Nat, T # {}
    PROVE  Library!Min(T) \in T /\ \A y \in T : Library!Min(T) <= y
<1> DEFINE R == {ss \in Nat \X Nat : ss[1] < ss[2]}
<1>1. IsWellFoundedOn(R, Nat)
  BY NatLessThanWellFounded DEF OpToRel
<1> HIDE DEF R
<1>2. PICK x \in T : \A y \in T : ~(<<y, x>> \in R)
  BY <1>1, WFMin
<1>3. ASSUME NEW y \in T PROVE x =< y
  <2>1. <<y, x>> \in Nat \X Nat /\ ~(<<y, x>>[1] < <<y, x>>[2])
    BY <1>2 DEF R
  <2> QED
    BY <2>1
<1> QED
  BY <1>3 DEF Library!Min

LEMMA MostNat ==
    ASSUME NEW n \in Nat, NEW T \in SUBSET (0..n), T # {}
    PROVE  Library!Max(T) \in T /\ \A y \in T : Library!Max(T) >= y
<1> DEFINE U == {n - x : x \in T}
<1>1. U \in SUBSET Nat /\ U # {}
  <2>1. \A x \in T : n - x \in Nat
    OBVIOUS
  <2>2. U \subseteq Nat
    BY <2>1
  <2>3. U # {}
    OBVIOUS
  <2> QED
    BY <2>2, <2>3
<1>2. PICK u \in U : \A v \in U : u <= v
  BY <1>1, LeastNat
<1>3. PICK x \in T : u = n - x
  BY <1>2
<1>4. ASSUME NEW y \in T PROVE x >= y
  <2>1. n - y \in U
    OBVIOUS
  <2> QED
    BY <2>1, <1>2, <1>3
<1> QED
  BY <1>4 DEF Library!Max

Once(s) == \A i, j \in DOMAIN s : s[i] = s[j] => i = j

\* Taking a member out of a sequence that holds it once, and putting one at the end.
LEMMA Removed ==
    ASSUME NEW S, NEW s \in Seq(S), Once(s), NEW e
    PROVE  /\ Library!RemoveFirst(s, e) \in Seq(S) /\ Once(Library!RemoveFirst(s, e))
           /\ \A i \in DOMAIN Library!RemoveFirst(s, e) :
                 Library!RemoveFirst(s, e)[i] # e /\ \E j \in DOMAIN s : Library!RemoveFirst(s, e)[i] = s[j]
<1>1. CASE \E i \in 1..Len(s) : s[i] = e
  <2> DEFINE I == {i \in 1..Len(s) : s[i] = e}
             m == Library!Min(I)
  <2>1. m \in 1..Len(s) /\ s[m] = e
    <3>1. I \in SUBSET Nat /\ I # {}
      BY <1>1
    <3>2. m \in I
      BY <3>1, LeastNat
    <3> QED
      BY <3>2
  <2> HIDE DEF m
  <2>2. Library!RemoveFirst(s, e) = SubSeq(s, 1, m - 1) \o SubSeq(s, m + 1, Len(s))
    BY <1>1 DEF Library!RemoveFirst, Library!RemoveAt, Library!SelectInSeq, m
  <2> DEFINE q == SubSeq(s, 1, m - 1) \o SubSeq(s, m + 1, Len(s))
  <2>3. /\ q \in Seq(S) /\ Len(q) = Len(s) - 1
        /\ \A i \in 1..(Len(s) - 1) : q[i] = IF i < m THEN s[i] ELSE s[i + 1]
    <3> DEFINE a == SubSeq(s, 1, m - 1)
               b == SubSeq(s, m + 1, Len(s))
    <3>1. a \in Seq(S) /\ Len(a) = m - 1 /\ \A i \in 1..(m - 1) : a[i] = s[i]
      BY <2>1
    <3>2. b \in Seq(S) /\ Len(b) = Len(s) - m /\ \A i \in 1..(Len(s) - m) : b[i] = s[m + i]
      BY <2>1
    <3> HIDE DEF a, b
    <3>3. a \o b \in Seq(S) /\ Len(a \o b) = Len(s) - 1
      <4>1. a \o b \in Seq(S)
        BY <3>1, <3>2
      <4>2. Len(a \o b) = Len(a) + Len(b)
        BY <3>1, <3>2
      <4>3. Len(s) \in Nat
        OBVIOUS
      <4> QED
        BY <2>1, <3>1, <3>2, <4>1, <4>2, <4>3
    <3>4. ASSUME NEW i \in 1..(Len(s) - 1)
          PROVE  (a \o b)[i] = IF i < m THEN s[i] ELSE s[i + 1]
      <4>1. CASE i < m
        BY <2>1, <3>1, <3>2, <4>1
      <4>2. CASE ~(i < m)
        <5>1. (a \o b)[i] = b[i - (m - 1)] /\ i - (m - 1) \in 1..(Len(s) - m)
          BY <2>1, <3>1, <3>2, <4>2
        <5> QED
          BY <2>1, <3>2, <4>2, <5>1
      <4> QED
        BY <4>1, <4>2
    <3> QED
      BY <3>3, <3>4 DEF a, b
  <2> HIDE DEF q
  <2>4. DOMAIN q = 1..(Len(s) - 1) /\ DOMAIN s = 1..Len(s)
    BY <2>3
  <2>5. \A i \in DOMAIN q : q[i] # e /\ \E j \in DOMAIN s : q[i] = s[j]
    BY <2>1, <2>3, <2>4 DEF Once
  <2>6. ASSUME NEW i \in DOMAIN q, NEW j \in DOMAIN q, q[i] = q[j]
        PROVE  i = j
    <3> DEFINE at(n) == IF n < m THEN n ELSE n + 1
    <3>1. at(i) \in DOMAIN s /\ at(j) \in DOMAIN s /\ q[i] = s[at(i)] /\ q[j] = s[at(j)]
      BY <2>1, <2>3, <2>4
    <3>2. at(i) = at(j)
      BY <2>6, <3>1 DEF Once
    <3> QED
      BY <2>1, <2>4, <3>2
  <2>7. Once(q)
    BY <2>6 DEF Once
  <2>8. Library!RemoveFirst(s, e) = q
    BY <2>2 DEF q
  <2>9. q \in Seq(S)
    BY <2>3
  <2> QED
    BY <2>5, <2>7, <2>8, <2>9
<1>2. CASE ~\E i \in 1..Len(s) : s[i] = e
  <2>1. Library!RemoveFirst(s, e) = s /\ DOMAIN s = 1..Len(s)
    BY <1>2 DEF Library!RemoveFirst
  <2> QED
    BY <1>2, <2>1
<1> QED
  BY <1>1, <1>2

LEMMA Appended ==
    ASSUME NEW S, NEW s \in Seq(S), Once(s), NEW e \in S, \A i \in DOMAIN s : s[i] # e
    PROVE  /\ Append(s, e) \in Seq(S) /\ Once(Append(s, e)) /\ Append(s, e) # <<>>
           /\ \A i \in DOMAIN Append(s, e) :
                 Append(s, e)[i] = e \/ \E j \in DOMAIN s : Append(s, e)[i] = s[j]
  BY DEF Once

LEMMA Shortened ==
    ASSUME NEW S, NEW s \in Seq(S), Once(s), s # <<>>
    PROVE  /\ Tail(s) \in Seq(S) /\ Once(Tail(s))
           /\ \A i \in DOMAIN Tail(s) : \E j \in DOMAIN s : Tail(s)[i] = s[j]
<1>1. Tail(s) \in Seq(S) /\ Len(Tail(s)) = Len(s) - 1 /\ \A i \in 1..(Len(s) - 1) : Tail(s)[i] = s[i + 1]
  OBVIOUS
<1> QED
  BY <1>1 DEF Once

-----------------------------------------------------------------------------
(* The asset library.  A number that was given out has its file or a marker;   *)
(* who holds the lock has a key that nobody else adds or marks meanwhile.      *)

Numbers == None \notin Threads /\ MaxVersion \in Nat

Job == [at: Library!Steps, op: {"none", "create", "delete", "get"},
        key: Library!Keys \cup {None} \cup (Assets \X {0}), gen: Nat, late: BOOLEAN]

LTyped ==
    /\ files \subseteq Library!Keys /\ markers \subseteq Library!Keys
    /\ cache \in Seq(Library!Keys) /\ gen \in Nat /\ lock \in Threads \cup {None}
    /\ th \in [Threads -> Job]
    /\ past \in [given: SUBSET Library!Keys, deleted: SUBSET Library!Keys, restarts: Nat]

\* What is on disk and in memory; a deleted version is in neither.
Kept ==
    /\ past.given \subseteq files \cup markers
    /\ past.deleted \subseteq markers \ files
    /\ Once(cache) /\ \A i \in DOMAIN cache : cache[i] \notin past.deleted

Locked == {"pick", "link", "keep", "look", "mark", "unlink", "forget"}

\* A request, at each of its steps.
Fine(j) ==
    /\ j.at = "lock" => \/ j.op = "create" /\ j.key \in Assets \X {0}
                        \/ j.op = "delete" /\ j.key \in Library!Keys
    /\ j.at = "pick" => j.key \in Assets \X {0}
    /\ j.at \in (Locked \ {"pick"}) \cup {"read", "open", "fill"} => j.key \in Library!Keys
    /\ j.at = "link" => j.key \notin markers
    /\ j.at = "keep" => j.key \notin past.deleted
    /\ j.at \in {"unlink", "forget"} => j.key \in markers
    /\ j.at = "forget" => j.key \notin files
    /\ j.at \in {"open", "fill"} => j.gen <= gen
    /\ j.at = "fill" /\ j.gen = gen => j.key \notin past.deleted
    /\ j.late => j.key \in past.deleted /\ j.at \in {"read", "open", "refused"}

Sound(t) == (th[t].at \in Locked => lock = t) /\ Fine(th[t])

LInv == LTyped /\ Kept /\ \A t \in Threads : Sound(t)

LEMMA LInvInit == Library!Init => LInv
<1> SUFFICES ASSUME Library!Init PROVE LInv
  OBVIOUS
<1>1. \A t \in Threads :
        th[t] = [at |-> "idle", op |-> "none", key |-> None, gen |-> 0, late |-> FALSE]
  BY DEF Library!Init, Library!Idle
<1>2. LTyped
  BY <1>1 DEF Library!Init, Library!Idle, LTyped, Job, Library!Steps
<1>3. Kept
  BY DEF Library!Init, Kept, Once
<1> QED
  BY <1>1, <1>2, <1>3 DEF LInv, Sound, Fine, Locked

\* The next number is above every number that has a file or a marker.
LEMMA Higher ==
    ASSUME LTyped, Numbers, NEW a \in Assets
    PROVE  /\ Library!HighWater(a) \in 0..MaxVersion
           /\ <<a, Library!HighWater(a) + 1>> \notin files \cup markers
           /\ Library!HighWater(a) < MaxVersion => <<a, Library!HighWater(a) + 1>> \in Library!Keys
<1> DEFINE K == {j \in files \cup markers : j[1] = a}
           T == {0} \cup {k[2] : k \in K}
<1>1. T \in SUBSET (0..MaxVersion) /\ T # {}
  BY DEF LTyped, Numbers, Library!Keys, Library!Versions
<1>2. Library!HighWater(a) = Library!Max(T)
  BY DEF Library!HighWater
<1>3. Library!Max(T) \in T /\ \A n \in T : Library!Max(T) >= n
  BY <1>1, MostNat DEF Numbers
<1> DEFINE k == <<a, Library!HighWater(a) + 1>>
<1>4. ASSUME k \in files \cup markers PROVE FALSE
  <2>1. k[1] = a /\ k[2] = Library!HighWater(a) + 1
    OBVIOUS
  <2>2. k[2] \in T
    BY <1>4, <2>1
  <2> QED
    BY <1>1, <1>2, <1>3, <2>1, <2>2
<1>5. Library!HighWater(a) < MaxVersion => k \in Library!Keys
  BY <1>1, <1>2, <1>3 DEF Library!Keys, Library!Versions, Numbers
<1> QED
  BY <1>1, <1>2, <1>3, <1>4, <1>5

\* What a step of t does to the others.
LEMMA Bystander ==
    ASSUME LInv, Numbers, NEW t \in Threads, NEW u \in Threads \ {t}, th'[u] = th[u],
           lock' = lock \/ lock \in {t, None},
           markers \subseteq markers', markers' = markers \/ lock = t,
           past.deleted \subseteq past'.deleted, (files' \ files) \cap markers = {},
           (past'.deleted = past.deleted /\ gen' = gen) \/ (lock = t /\ gen' = gen + 1)
    PROVE  Sound(u)'
<1>1. Sound(u) /\ th[u] \in Job /\ gen \in Nat
  BY DEF LInv, LTyped
<1>2. th[u].gen \in Nat
  BY <1>1 DEF Job
<1> QED
  BY <1>1, <1>2 DEF Sound, Fine, Locked, Numbers

LEMMA Changeless ==
    ASSUME LInv, Numbers, NEW t \in Threads, NEW u \in Threads \ {t}, th'[u] = th[u],
           lock' = lock \/ lock \in {t, None},
           markers' = markers, past'.deleted = past.deleted, files' = files, gen' = gen
    PROVE  Sound(u)'
<1>1. (files' \ files) \cap markers = {}
  OBVIOUS
<1>2. markers \subseteq markers' /\ past.deleted \subseteq past'.deleted
  OBVIOUS
<1> QED
  BY <1>1, <1>2, Bystander

\* The cache after _remember.
LEMMA Remembering ==
    ASSUME LTyped, Kept, NEW k \in Library!Keys, k \notin past.deleted
    PROVE  /\ Library!Remembered(k) \in Seq(Library!Keys) /\ Once(Library!Remembered(k))
           /\ \A i \in DOMAIN Library!Remembered(k) :
                 Library!Remembered(k)[i] \notin past.deleted
<1> DEFINE q == Library!RemoveFirst(cache, k)
           s == Append(q, k)
<1>1. /\ q \in Seq(Library!Keys) /\ Once(q)
      /\ \A i \in DOMAIN q : q[i] # k /\ \E j \in DOMAIN cache : q[i] = cache[j]
  BY Removed DEF LTyped, Kept
<1> HIDE DEF q
<1>2. /\ s \in Seq(Library!Keys) /\ Once(s) /\ s # <<>>
      /\ \A i \in DOMAIN s : s[i] = k \/ \E j \in DOMAIN q : s[i] = q[j]
  BY <1>1, Appended
<1>3. \A i \in DOMAIN s : s[i] \notin past.deleted
  BY <1>1, <1>2 DEF Kept
<1>4. Library!Remembered(k) = IF Len(s) > CacheMax THEN Tail(s) ELSE s
  BY DEF Library!Remembered, q
<1> HIDE DEF s
<1>5. /\ Tail(s) \in Seq(Library!Keys) /\ Once(Tail(s))
      /\ \A i \in DOMAIN Tail(s) : \E j \in DOMAIN s : Tail(s)[i] = s[j]
  BY <1>2, Shortened
<1> QED
  BY <1>2, <1>3, <1>4, <1>5

\* Steps that leave the disk and the memory as they are.
LEMMA Turns ==
    ASSUME LInv, Numbers, NEW t \in Threads, NEW w \in Job, th' = [th EXCEPT ![t] = w],
           UNCHANGED <<files, markers, cache, gen, past>>,
           lock' = lock \/ lock \in {t, None}, lock' \in Threads \cup {None},
           w.at \in Locked => lock' = t, Fine(w)
    PROVE  LInv'
<1>1. th' \in [Threads -> Job] /\ th'[t] = w /\ \A u \in Threads \ {t} : th'[u] = th[u]
  BY DEF LInv, LTyped
<1>2. LTyped' /\ Kept'
  BY <1>1 DEF LInv, LTyped, Kept, Once
<1>3. Sound(t)'
  BY <1>1 DEF Sound, Fine
<1>4. past'.deleted = past.deleted /\ markers' = markers /\ files' = files /\ gen' = gen
  OBVIOUS
<1>5. \A u \in Threads \ {t} : Sound(u)'
  BY <1>1, <1>4, Changeless
<1> QED
  BY <1>2, <1>3, <1>5 DEF LInv

\* Steps that change them.
LEMMA Changes ==
    ASSUME LInv, Numbers, NEW t \in Threads, \A u \in Threads \ {t} : th'[u] = th[u],
           LTyped', Kept', Sound(t)', lock' = lock \/ lock \in {t, None},
           markers \subseteq markers', markers' = markers \/ lock = t,
           past.deleted \subseteq past'.deleted, (files' \ files) \cap markers = {},
           (past'.deleted = past.deleted /\ gen' = gen) \/ (lock = t /\ gen' = gen + 1)
    PROVE  LInv'
<1>1. \A u \in Threads \ {t} : Sound(u)'
  BY Bystander
<1> QED
  BY <1>1 DEF LInv

-----------------------------------------------------------------------------
(* The steps of a request.                                                 *)

LEMMA Asking ==
    ASSUME LInv, Numbers, NEW t \in Threads, Library!Ask(t)
    PROVE  LInv'
<1>1. UNCHANGED <<files, markers, cache, gen, lock, past>> /\ lock \in Threads \cup {None}
  BY DEF Library!Ask, LInv, LTyped
<1>2. /\ Library!Idle \in Job /\ Library!Idle.gen = 0 /\ Library!Idle.late = FALSE
      /\ past.given \subseteq Library!Keys
  BY DEF Library!Idle, Library!Steps, Job, LInv, LTyped
<1>3. ASSUME NEW a \in Assets,
             th' = [th EXCEPT ![t] = [Library!Idle EXCEPT !.at = "lock", !.op = "create",
                                                          !.key = <<a, 0>>]]
      PROVE  LInv'
  <2> DEFINE w == [Library!Idle EXCEPT !.at = "lock", !.op = "create", !.key = <<a, 0>>]
  <2>1. w \in Job /\ w.at = "lock" /\ w.op = "create" /\ w.key = <<a, 0>> /\ w.late = FALSE
    BY <1>2 DEF Job, Library!Steps
  <2>2. th' = [th EXCEPT ![t] = w]
    BY <1>3
  <2> HIDE DEF w
  <2>3. Fine(w)
    BY <2>1 DEF Fine, Locked
  <2> QED
    BY <1>1, <2>1, <2>2, <2>3, Turns DEF Locked
<1>4. ASSUME NEW k \in past.given,
             th' = [th EXCEPT ![t] = [Library!Idle EXCEPT !.at = "lock", !.op = "delete", !.key = k]]
      PROVE  LInv'
  <2> DEFINE w == [Library!Idle EXCEPT !.at = "lock", !.op = "delete", !.key = k]
  <2>1. w \in Job /\ w.at = "lock" /\ w.op = "delete" /\ w.key = k /\ w.late = FALSE
    BY <1>2 DEF Job, Library!Steps
  <2>2. th' = [th EXCEPT ![t] = w]
    BY <1>4
  <2> HIDE DEF w
  <2>3. Fine(w)
    BY <1>2, <2>1 DEF Fine, Locked
  <2> QED
    BY <1>1, <2>1, <2>2, <2>3, Turns DEF Locked
<1>5. ASSUME NEW k \in past.given, NEW late \in BOOLEAN, late => k \in past.deleted,
             th' = [th EXCEPT ![t] = [Library!Idle EXCEPT !.at = "read", !.op = "get", !.key = k,
                                                          !.late = late]]
      PROVE  LInv'
  <2> DEFINE w == [Library!Idle EXCEPT !.at = "read", !.op = "get", !.key = k, !.late = late]
  <2>1. w \in Job /\ w.at = "read" /\ w.key = k /\ w.late = late
    BY <1>2 DEF Job, Library!Steps
  <2>2. th' = [th EXCEPT ![t] = w]
    BY <1>5
  <2> HIDE DEF w
  <2>3. Fine(w)
    BY <1>2, <1>5, <2>1 DEF Fine, Locked
  <2> QED
    BY <1>1, <2>1, <2>2, <2>3, Turns DEF Locked
<1>6. ASSUME NEW k \in past.given,
             th' = [th EXCEPT ![t] = [Library!Idle EXCEPT !.at = "read", !.op = "get", !.key = k,
                                                          !.late = k \in past.deleted]]
      PROVE  LInv'
  <2>1. CASE k \in past.deleted
    <3>1. (k \in past.deleted) = TRUE
      BY <2>1
    <3>2. th' = [th EXCEPT ![t] = [Library!Idle EXCEPT !.at = "read", !.op = "get", !.key = k,
                                                       !.late = TRUE]]
      BY <1>6, <3>1, Zenon
    <3> QED
      BY <1>5, <2>1, <3>2
  <2>2. CASE k \notin past.deleted
    <3>1. (k \in past.deleted) = FALSE
      BY <2>2
    <3>2. th' = [th EXCEPT ![t] = [Library!Idle EXCEPT !.at = "read", !.op = "get", !.key = k,
                                                       !.late = FALSE]]
      BY <1>6, <3>1, Zenon
    <3> QED
      BY <1>5, <2>2, <3>2
  <2> QED
    BY <2>1, <2>2
<1> QED
  BY <1>3, <1>4, <1>6, Zenon DEF Library!Ask

LEMMA Locking ==
    ASSUME LInv, Numbers, NEW t \in Threads, Library!TakeLock(t)
    PROVE  LInv'
<1>1. /\ th \in [Threads -> Job] /\ th[t] \in Job /\ Sound(t) /\ th[t].at = "lock"
      /\ lock \in Threads \cup {None}
  BY DEF LInv, LTyped, Library!TakeLock
<1> DEFINE w == [th[t] EXCEPT !.at = IF th[t].op = "create" THEN "pick" ELSE "look"]
<1>2. th' = [th EXCEPT ![t] = w] /\ lock = None /\ lock' = t /\ UNCHANGED <<files, markers, cache, gen, past>>
  BY <1>1 DEF Library!TakeLock, Library!Goes
<1>3. w \in Job /\ w.at = (IF th[t].op = "create" THEN "pick" ELSE "look") /\ w.key = th[t].key /\ w.late = th[t].late
  BY <1>1, <1>2 DEF Job, Library!Steps
<1> HIDE DEF w
<1>4. Fine(w)
  BY <1>1, <1>3 DEF Sound, Fine, Locked
<1> QED
  BY <1>2, <1>3, <1>4, Turns

LEMMA Picking ==
    ASSUME LInv, Numbers, NEW t \in Threads, Library!Pick(t)
    PROVE  LInv'
<1>1. /\ th \in [Threads -> Job] /\ th[t] \in Job /\ Sound(t) /\ th[t].at = "pick"
      /\ lock \in Threads \cup {None}
  BY DEF LInv, LTyped, Library!Pick
<1> DEFINE a == th[t].key[1]
           k == <<a, Library!HighWater(a) + 1>>
           w == [th[t] EXCEPT !.at = "link", !.key = k]
<1>2. a \in Assets
  BY <1>1 DEF Sound, Fine
<1>3. /\ th' = [th EXCEPT ![t] = w] /\ lock' = lock /\ Library!HighWater(a) < MaxVersion
      /\ UNCHANGED <<files, markers, cache, gen, past>>
  BY <1>1 DEF Library!Pick
<1>4. k \in Library!Keys /\ k \notin files \cup markers
  BY <1>2, <1>3, Higher DEF LInv
<1> HIDE DEF k
<1>5. w \in Job /\ w.at = "link" /\ w.key = k /\ w.late = th[t].late
  BY <1>1, <1>4 DEF Job, Library!Steps
<1> HIDE DEF w
<1>6. Fine(w) /\ lock = t
  BY <1>1, <1>4, <1>5 DEF Sound, Fine, Locked
<1> QED
  BY <1>1, <1>3, <1>5, <1>6, Turns

LEMMA Reading ==
    ASSUME LInv, Numbers, NEW t \in Threads, Library!ReadFile(t)
    PROVE  LInv'
<1>1. /\ th \in [Threads -> Job] /\ th[t] \in Job /\ Sound(t) /\ th[t].at = "open"
      /\ lock \in Threads \cup {None}
  BY DEF LInv, LTyped, Sound, Library!ReadFile
<1> DEFINE w == [th[t] EXCEPT !.at = (IF th[t].key \in files THEN "fill" ELSE "refused")]
<1>2. th' = [th EXCEPT ![t] = w] /\ lock' = lock /\ UNCHANGED <<files, markers, cache, gen, past>>
  BY <1>1 DEF Library!ReadFile, Library!Goes, Library!Frees
<1>3. w \in Job /\ w.at = (IF th[t].key \in files THEN "fill" ELSE "refused") /\ w.key = th[t].key /\ w.gen = th[t].gen /\ w.late = th[t].late
  BY <1>1 DEF Job, Library!Steps
<1> HIDE DEF w
<1>4. Fine(w) /\ (w.at \in Locked => lock = t)
  BY <1>1, <1>3 DEF LInv, Kept, Sound, Fine, Locked
<1> QED
  BY <1>1, <1>2, <1>3, <1>4, Turns DEF Locked

LEMMA Looking ==
    ASSUME LInv, Numbers, NEW t \in Threads, Library!Look(t)
    PROVE  LInv'
<1>1. /\ th \in [Threads -> Job] /\ th[t] \in Job /\ Sound(t) /\ th[t].at = "look"
      /\ lock \in Threads \cup {None}
  BY DEF LInv, LTyped, Sound, Library!Look
<1> DEFINE w == [th[t] EXCEPT !.at = (IF th[t].key \in files THEN "mark" ELSE "refused")]
<1>2. th' = [th EXCEPT ![t] = w] /\ lock' = (IF th[t].key \in files THEN lock ELSE None) /\ UNCHANGED <<files, markers, cache, gen, past>>
  BY <1>1 DEF Library!Look, Library!Goes, Library!Frees, Sound, Locked
<1>3. w \in Job /\ w.at = (IF th[t].key \in files THEN "mark" ELSE "refused") /\ w.key = th[t].key /\ w.gen = th[t].gen /\ w.late = th[t].late
  BY <1>1 DEF Job, Library!Steps
<1> HIDE DEF w
<1>4. Fine(w) /\ (w.at \in Locked => lock' = t)
  BY <1>1, <1>2, <1>3 DEF LInv, Kept, Sound, Fine, Locked
<1>5. lock = t /\ lock' \in Threads \cup {None}
  BY <1>1, <1>2 DEF Sound, Locked
<1> QED
  BY <1>2, <1>3, <1>4, <1>5, Turns

LEMMA Returning ==
    ASSUME LInv, Numbers, NEW t \in Threads, Library!Return(t)
    PROVE  LInv'
<1>1. /\ th \in [Threads -> Job] /\ th[t] \in Job /\ Sound(t) /\ th[t].at \in {"served", "refused"}
      /\ lock \in Threads \cup {None}
  BY DEF LInv, LTyped, Sound, Library!Return
<1>2. th' = [th EXCEPT ![t] = Library!Idle] /\ lock' = lock /\ UNCHANGED <<files, markers, cache, gen, past>>
  BY DEF Library!Return
<1>3. Library!Idle \in Job /\ Fine(Library!Idle) /\ Library!Idle.at \notin Locked
  BY DEF Library!Idle, Library!Steps, Job, Fine, Locked
<1> QED
  BY <1>1, <1>2, <1>3, Turns

LEMMA Keeping ==
    ASSUME LInv, Numbers, NEW t \in Threads, Library!Keep(t)
    PROVE  LInv'
<1>1. /\ th \in [Threads -> Job] /\ th[t] \in Job /\ Sound(t) /\ th[t].at = "keep"
      /\ lock \in Threads \cup {None}
  BY DEF LInv, LTyped, Sound, Library!Keep
<1> DEFINE w == [th[t] EXCEPT !.at = "served"]
           k == th[t].key
<1>2. k \in Library!Keys /\ lock = t
  BY <1>1 DEF Sound, Fine, Locked
<1>3. th' = [th EXCEPT ![t] = w] /\ cache' = Library!Remembered(k) /\ lock' = None
      /\ UNCHANGED <<files, markers, gen, past>>
  BY <1>1 DEF Library!Keep, Library!Goes, Library!Frees, Sound, Locked
<1>4. w \in Job /\ w.at = "served" /\ w.key = k /\ w.gen = th[t].gen /\ w.late = th[t].late
  BY <1>1 DEF Job, Library!Steps
<1> HIDE DEF w
<1>5. th' \in [Threads -> Job] /\ th'[t] = w /\ \A u \in Threads \ {t} : th'[u] = th[u]
  BY <1>1, <1>3, <1>4
<1>6. LTyped'
  BY <1>1, <1>2, <1>3, <1>5, Remembering DEF LInv, LTyped, Sound, Fine
<1>7. Kept'
  BY <1>1, <1>2, <1>3, Remembering DEF LInv, Kept, Once, Sound, Fine
<1>8. Sound(t)'
  BY <1>1, <1>2, <1>3, <1>4, <1>5 DEF Sound, Fine, Locked
<1>9. /\ markers \subseteq markers' /\ past.deleted \subseteq past'.deleted
      /\ (files' \ files) \cap markers = {}
  BY <1>3
<1> QED
  BY <1>2, <1>3, <1>5, <1>6, <1>7, <1>8, <1>9, Changes

LEMMA Marking ==
    ASSUME LInv, Numbers, NEW t \in Threads, Library!Mark(t)
    PROVE  LInv'
<1>1. /\ th \in [Threads -> Job] /\ th[t] \in Job /\ Sound(t) /\ th[t].at = "mark"
      /\ lock \in Threads \cup {None}
  BY DEF LInv, LTyped, Sound, Library!Mark
<1> DEFINE w == [th[t] EXCEPT !.at = "unlink"]
           k == th[t].key
<1>2. k \in Library!Keys /\ lock = t
  BY <1>1 DEF Sound, Fine, Locked
<1>3. th' = [th EXCEPT ![t] = w] /\ markers' = markers \cup {k} /\ lock' = lock
      /\ UNCHANGED <<files, cache, gen, past>>
  BY <1>1 DEF Library!Mark, Library!Goes, Library!Frees
<1>4. w \in Job /\ w.at = "unlink" /\ w.key = k /\ w.gen = th[t].gen /\ w.late = th[t].late
  BY <1>1 DEF Job, Library!Steps
<1> HIDE DEF w
<1>5. th' \in [Threads -> Job] /\ th'[t] = w /\ \A u \in Threads \ {t} : th'[u] = th[u]
  BY <1>1, <1>3, <1>4
<1>6. LTyped'
  BY <1>2, <1>3, <1>5 DEF LInv, LTyped
<1>7. Kept'
  BY <1>3 DEF LInv, Kept, Once
<1>8. Sound(t)'
  BY <1>1, <1>2, <1>3, <1>4, <1>5 DEF Sound, Fine, Locked
<1>9. /\ markers \subseteq markers' /\ past.deleted \subseteq past'.deleted
      /\ (files' \ files) \cap markers = {}
  BY <1>3
<1> QED
  BY <1>2, <1>3, <1>5, <1>6, <1>7, <1>8, <1>9, Changes

LEMMA Linking ==
    ASSUME LInv, Numbers, NEW t \in Threads, Library!Link(t)
    PROVE  LInv'
<1> DEFINE k == th[t].key
<1>1. /\ th \in [Threads -> Job] /\ th[t] \in Job /\ Sound(t) /\ th[t].at = "link"
      /\ k \in Library!Keys /\ lock \in Threads \cup {None}
  BY DEF LInv, LTyped, Sound, Fine, Locked, Library!Link
<1>2. CASE /\ th[t].key \notin files /\ files' = files \cup {th[t].key}
              /\ past' = [past EXCEPT !.given = @ \cup {th[t].key}]
              /\ Library!Goes(t, "keep") /\ UNCHANGED lock
  <2> DEFINE w == [th[t] EXCEPT !.at = "keep"]
  <2>1. /\ th' = [th EXCEPT ![t] = w] /\ lock = t
        /\ files' = files \cup {k} /\ past' = [past EXCEPT !.given = @ \cup {k}]
        /\ UNCHANGED <<markers, cache, gen, lock>>
    BY <1>1, <1>2 DEF Library!Link, Library!Goes, Library!Frees, Sound, Locked
  <2>2. w \in Job /\ w.at = "keep" /\ w.key = k /\ w.gen = th[t].gen /\ w.late = th[t].late
    BY <1>1 DEF Job, Library!Steps
  <2> HIDE DEF w
  <2>3. th' \in [Threads -> Job] /\ th'[t] = w /\ \A u \in Threads \ {t} : th'[u] = th[u]
    BY <1>1, <2>1, <2>2
  <2>4. /\ past' \in [given: SUBSET Library!Keys, deleted: SUBSET Library!Keys, restarts: Nat]
        /\ past'.given = past.given \cup {k} /\ past'.deleted = past.deleted
    BY <1>1, <2>1 DEF LInv, LTyped
  <2>5. k \notin markers /\ k \notin past.deleted
    BY <1>1 DEF LInv, Kept, Sound, Fine
  <2>6. LTyped' /\ (files' \ files) \cap markers = {} /\ markers \subseteq markers'
    BY <1>1, <2>1, <2>3, <2>4, <2>5 DEF LInv, LTyped
  <2>7. Kept'
    BY <2>1, <2>4, <2>5 DEF LInv, Kept, Once
  <2>8. Sound(t)'
    BY <1>1, <1>2, <2>1, <2>2, <2>3, <2>4, <2>5 DEF Sound, Fine, Locked
  <2> QED
    BY <1>1, <2>1, <2>3, <2>4, <2>5, <2>6, <2>7, <2>8, Changes
<1>3. CASE Library!Goes(t, "refused") /\ Library!Frees(t) /\ UNCHANGED <<files, past>>
  <2> DEFINE w == [th[t] EXCEPT !.at = "refused"]
  <2>1. /\ th' = [th EXCEPT ![t] = w] /\ lock = t
        /\ lock' = None
        /\ UNCHANGED <<files, markers, cache, gen, past>>
    BY <1>1, <1>3 DEF Library!Link, Library!Goes, Library!Frees, Sound, Locked
  <2>2. w \in Job /\ w.at = "refused" /\ w.key = k /\ w.gen = th[t].gen /\ w.late = th[t].late
    BY <1>1 DEF Job, Library!Steps
  <2> HIDE DEF w
  <2>3. Fine(w) /\ w.at \notin Locked
    BY <1>1, <2>1, <2>2 DEF Sound, Fine, Locked
  <2> QED
    BY <1>1, <2>1, <2>2, <2>3, Turns
<1> QED
  BY <1>2, <1>3 DEF Library!Link

LEMMA Unlinking ==
    ASSUME LInv, Numbers, NEW t \in Threads, Library!Unlink(t)
    PROVE  LInv'
<1> DEFINE k == th[t].key
<1>1. /\ th \in [Threads -> Job] /\ th[t] \in Job /\ Sound(t) /\ th[t].at = "unlink"
      /\ k \in Library!Keys /\ lock \in Threads \cup {None}
  BY DEF LInv, LTyped, Sound, Fine, Locked, Library!Unlink
<1>2. CASE files' = files \ {th[t].key} /\ Library!Goes(t, "forget") /\ UNCHANGED lock
  <2> DEFINE w == [th[t] EXCEPT !.at = "forget"]
  <2>1. /\ th' = [th EXCEPT ![t] = w] /\ lock = t
        /\ files' = files \ {k} /\ UNCHANGED <<markers, cache, gen, lock, past>>
    BY <1>1, <1>2 DEF Library!Unlink, Library!Goes, Library!Frees, Sound, Locked
  <2>2. w \in Job /\ w.at = "forget" /\ w.key = k /\ w.gen = th[t].gen /\ w.late = th[t].late
    BY <1>1 DEF Job, Library!Steps
  <2> HIDE DEF w
  <2>3. th' \in [Threads -> Job] /\ th'[t] = w /\ \A u \in Threads \ {t} : th'[u] = th[u]
    BY <1>1, <2>1, <2>2
  <2>4. LTyped'
    BY <1>1, <2>1, <2>3 DEF LInv, LTyped
  <2>5. Kept'
    BY <1>1, <2>1 DEF LInv, Kept, Once, Sound, Fine
  <2>6. (files' \ files) \cap markers = {} /\ markers \subseteq markers'
    BY <2>1
  <2>7. past.deleted \subseteq past'.deleted
    BY <2>1
  <2>8. Sound(t)'
    BY <1>1, <1>2, <2>1, <2>2, <2>3 DEF Sound, Fine, Locked
  <2> QED
    BY <1>1, <2>1, <2>3, <2>4, <2>5, <2>6, <2>7, <2>8, Changes
<1>3. CASE UNCHANGED files /\ Library!Goes(t, "refused") /\ Library!Frees(t)
  <2> DEFINE w == [th[t] EXCEPT !.at = "refused"]
  <2>1. /\ th' = [th EXCEPT ![t] = w] /\ lock = t
        /\ lock' = None
        /\ UNCHANGED <<files, markers, cache, gen, past>>
    BY <1>1, <1>3 DEF Library!Unlink, Library!Goes, Library!Frees, Sound, Locked
  <2>2. w \in Job /\ w.at = "refused" /\ w.key = k /\ w.gen = th[t].gen /\ w.late = th[t].late
    BY <1>1 DEF Job, Library!Steps
  <2> HIDE DEF w
  <2>3. Fine(w) /\ w.at \notin Locked
    BY <1>1, <2>1, <2>2 DEF Sound, Fine, Locked
  <2> QED
    BY <1>1, <2>1, <2>2, <2>3, Turns
<1> QED
  BY <1>2, <1>3 DEF Library!Unlink

LEMMA Forgetting ==
    ASSUME LInv, Numbers, NEW t \in Threads, Library!Forget(t)
    PROVE  LInv'
<1> DEFINE k == th[t].key
<1>1. /\ th \in [Threads -> Job] /\ th[t] \in Job /\ Sound(t) /\ th[t].at = "forget"
      /\ k \in Library!Keys /\ lock \in Threads \cup {None}
  BY DEF LInv, LTyped, Sound, Fine, Locked, Library!Forget
<1> DEFINE w == [th[t] EXCEPT !.at = "served"]
<1>2. /\ th' = [th EXCEPT ![t] = w] /\ lock = t /\ lock' = None
      /\ gen' = gen + 1 /\ cache' = Library!RemoveFirst(cache, k)
      /\ past' = [past EXCEPT !.deleted = @ \cup {k}] /\ UNCHANGED <<files, markers>>
  BY <1>1 DEF Library!Forget, Library!Goes, Library!Frees, Sound, Locked
<1>3. w \in Job /\ w.at = "served" /\ w.late = th[t].late
  BY <1>1 DEF Job, Library!Steps
<1> HIDE DEF w
<1>4. th' \in [Threads -> Job] /\ th'[t] = w /\ \A u \in Threads \ {t} : th'[u] = th[u]
  BY <1>1, <1>2, <1>3
<1>5. /\ past' \in [given: SUBSET Library!Keys, deleted: SUBSET Library!Keys, restarts: Nat]
      /\ past'.given = past.given /\ past'.deleted = past.deleted \cup {k}
  BY <1>1, <1>2 DEF LInv, LTyped
<1>6. k \in markers \ files
  BY <1>1 DEF Sound, Fine
<1>7. /\ cache' \in Seq(Library!Keys) /\ Once(cache')
      /\ \A i \in DOMAIN cache' : cache'[i] # k /\ \E j \in DOMAIN cache : cache'[i] = cache[j]
  BY <1>2, Removed DEF LInv, LTyped, Kept
<1>8. LTyped'
  <2>1. gen' \in Nat
    BY <1>2 DEF LInv, LTyped
  <2>2. files' \subseteq Library!Keys /\ markers' \subseteq Library!Keys /\ lock' \in Threads \cup {None}
    BY <1>2 DEF LInv, LTyped
  <2> QED
    BY <1>4, <1>5, <1>7, <2>1, <2>2 DEF LTyped
<1>9. Kept'
  BY <1>2, <1>5, <1>6, <1>7 DEF LInv, Kept
<1>10. Sound(t)'
  BY <1>1, <1>3, <1>4 DEF Sound, Fine, Locked
<1>11. (files' \ files) \cap markers = {} /\ markers \subseteq markers'
  BY <1>2
<1> QED
  BY <1>2, <1>4, <1>5, <1>8, <1>9, <1>10, <1>11, Changes

LEMMA Serving ==
    ASSUME LInv, Numbers, NEW t \in Threads, Library!LookInCache(t)
    PROVE  LInv'
<1> DEFINE k == th[t].key
<1>1. /\ th \in [Threads -> Job] /\ th[t] \in Job /\ Sound(t) /\ th[t].at = "read"
      /\ k \in Library!Keys /\ lock \in Threads \cup {None}
  BY DEF LInv, LTyped, Sound, Fine, Locked, Library!LookInCache
<1>2. CASE Library!Cached(th[t].key)
  <2> DEFINE w == [th[t] EXCEPT !.at = "served"]
  <2>1. /\ th' = [th EXCEPT ![t] = w] /\ lock' = lock
        /\ cache' = Library!Remembered(k) /\ UNCHANGED <<files, markers, gen, past>>
    BY <1>1, <1>2 DEF Library!LookInCache, Library!Goes, Library!Frees, Sound, Locked
  <2>2. w \in Job /\ w.at = "served" /\ w.key = k /\ w.gen = th[t].gen /\ w.late = th[t].late
    BY <1>1 DEF Job, Library!Steps
  <2> HIDE DEF w
  <2>3. th' \in [Threads -> Job] /\ th'[t] = w /\ \A u \in Threads \ {t} : th'[u] = th[u]
    BY <1>1, <2>1, <2>2
  <2>9. k \notin past.deleted
    BY <1>2 DEF LInv, Kept, Library!Cached
  <2>4. LTyped'
    BY <1>1, <1>2, <2>1, <2>3, <2>9, Remembering DEF LInv, LTyped, Sound, Fine
  <2>5. Kept'
    BY <1>1, <1>2, <2>1, <2>9, Remembering DEF LInv, Kept, Sound, Fine, Once, Library!Cached
  <2>6. (files' \ files) \cap markers = {} /\ markers \subseteq markers'
    BY <2>1
  <2>7. past.deleted \subseteq past'.deleted
    BY <2>1
  <2>8. Sound(t)'
    BY <1>1, <1>2, <2>1, <2>2, <2>3, <2>9 DEF Sound, Fine, Locked
  <2> QED
    BY <1>1, <2>1, <2>3, <2>4, <2>5, <2>6, <2>7, <2>8, Changes
<1>3. CASE ~Library!Cached(th[t].key)
  <2> DEFINE w == [th[t] EXCEPT !.at = "open", !.gen = gen]
  <2>1. th' = [th EXCEPT ![t] = w] /\ UNCHANGED <<files, markers, cache, gen, lock, past>>
    BY <1>1, <1>3 DEF Library!LookInCache
  <2>2. w \in Job /\ w.at = "open" /\ w.key = k /\ w.gen = gen /\ w.late = th[t].late /\ gen \in Nat
    BY <1>1 DEF Job, Library!Steps, LInv, LTyped
  <2> HIDE DEF w
  <2>3. Fine(w) /\ w.at \notin Locked
    BY <1>1, <2>1, <2>2 DEF Sound, Fine, Locked
  <2> QED
    BY <1>1, <2>1, <2>2, <2>3, Turns
<1> QED
  BY <1>2, <1>3

LEMMA Filling ==
    ASSUME LInv, Numbers, NEW t \in Threads, Library!Fill(t)
    PROVE  LInv'
<1> DEFINE k == th[t].key
<1>1. /\ th \in [Threads -> Job] /\ th[t] \in Job /\ Sound(t) /\ th[t].at = "fill"
      /\ k \in Library!Keys /\ lock \in Threads \cup {None}
  BY DEF LInv, LTyped, Sound, Fine, Locked, Library!Fill
<1>2. CASE gen = th[t].gen
  <2> DEFINE w == [th[t] EXCEPT !.at = "served"]
  <2>1. /\ th' = [th EXCEPT ![t] = w] /\ lock' = lock
        /\ cache' = Library!Remembered(k) /\ UNCHANGED <<files, markers, gen, past>>
    BY <1>1, <1>2 DEF Library!Fill, Library!Goes, Library!Frees, Sound, Locked
  <2>2. w \in Job /\ w.at = "served" /\ w.key = k /\ w.gen = th[t].gen /\ w.late = th[t].late
    BY <1>1 DEF Job, Library!Steps
  <2> HIDE DEF w
  <2>3. th' \in [Threads -> Job] /\ th'[t] = w /\ \A u \in Threads \ {t} : th'[u] = th[u]
    BY <1>1, <2>1, <2>2
  <2>4. LTyped'
    BY <1>1, <1>2, <2>1, <2>3, Remembering DEF LInv, LTyped, Sound, Fine
  <2>5. Kept'
    BY <1>1, <1>2, <2>1, Remembering DEF LInv, Kept, Sound, Fine, Once, Library!Cached
  <2>6. (files' \ files) \cap markers = {} /\ markers \subseteq markers'
    BY <2>1
  <2>7. past.deleted \subseteq past'.deleted
    BY <2>1
  <2>8. Sound(t)'
    BY <1>1, <1>2, <2>1, <2>2, <2>3 DEF Sound, Fine, Locked
  <2> QED
    BY <1>1, <2>1, <2>3, <2>4, <2>5, <2>6, <2>7, <2>8, Changes
<1>3. CASE gen # th[t].gen
  <2> DEFINE w == [th[t] EXCEPT !.at = "served"]
  <2>1. /\ th' = [th EXCEPT ![t] = w] /\ lock' = lock
        /\ UNCHANGED <<files, markers, cache, gen, past>>
    BY <1>1, <1>3 DEF Library!Fill, Library!Goes, Library!Frees, Sound, Locked
  <2>2. w \in Job /\ w.at = "served" /\ w.key = k /\ w.gen = th[t].gen /\ w.late = th[t].late
    BY <1>1 DEF Job, Library!Steps
  <2> HIDE DEF w
  <2>3. Fine(w) /\ w.at \notin Locked
    BY <1>1, <2>1, <2>2 DEF Sound, Fine, Locked
  <2> QED
    BY <1>1, <2>1, <2>2, <2>3, Turns
<1> QED
  BY <1>2, <1>3

\* Another process adds a version: the number after the highest.
LEMMA Elsewhere ==
    ASSUME LInv, Numbers, NEW a \in Assets, Library!Outside(a)
    PROVE  LInv'
<1> DEFINE k == <<a, Library!HighWater(a) + 1>>
<1>1. k \in Library!Keys /\ k \notin files \cup markers
  BY Higher DEF LInv, Library!Outside
<1>2. /\ files' = files \cup {k} /\ past' = [past EXCEPT !.given = @ \cup {k}]
      /\ UNCHANGED <<markers, cache, gen, lock, th>>
  BY DEF Library!Outside
<1> HIDE DEF k
<1>3. /\ past' \in [given: SUBSET Library!Keys, deleted: SUBSET Library!Keys, restarts: Nat]
      /\ past'.given = past.given \cup {k} /\ past'.deleted = past.deleted
  BY <1>1, <1>2 DEF LInv, LTyped
<1>4. LTyped'
  BY <1>1, <1>2, <1>3 DEF LInv, LTyped
<1>5. Kept'
  BY <1>1, <1>2, <1>3 DEF LInv, Kept, Once
<1>6. \A t \in Threads : Sound(t)'
  BY <1>1, <1>2, <1>3 DEF LInv, Sound, Fine
<1> QED
  BY <1>4, <1>5, <1>6 DEF LInv

\* A restart ends every request and empties the cache; the numbers are on disk.
LEMMA Restarting ==
    ASSUME LInv, Library!Restart
    PROVE  LInv'
<1>1. /\ th' = [t \in Threads |-> Library!Idle] /\ lock' = None /\ gen' = 0 /\ cache' = <<>>
      /\ UNCHANGED <<files, markers>> /\ past' = [past EXCEPT !.restarts = @ + 1]
  BY DEF Library!Restart
<1>2. /\ past' \in [given: SUBSET Library!Keys, deleted: SUBSET Library!Keys, restarts: Nat]
      /\ past'.given = past.given /\ past'.deleted = past.deleted
  BY <1>1 DEF LInv, LTyped
<1>3. /\ Library!Idle \in Job /\ Library!Idle.at = "idle" /\ Library!Idle.late = FALSE
  BY DEF Library!Idle, Library!Steps, Job
<1>4. LTyped'
  BY <1>1, <1>2, <1>3 DEF LInv, LTyped
<1>5. Kept'
  BY <1>1, <1>2 DEF LInv, Kept, Once
<1>6. \A t \in Threads : Sound(t)'
  BY <1>1, <1>3 DEF Sound, Fine, Locked
<1> QED
  BY <1>4, <1>5, <1>6 DEF LInv

LEMMA LInvNext ==
    ASSUME LInv, Numbers, [Library!Next]_(Library!vars)
    PROVE  LInv'
<1>1. CASE UNCHANGED Library!vars
  BY <1>1 DEF Library!vars, LInv, LTyped, Kept, Once, Sound, Fine
<1>2. ASSUME NEW t \in Threads, Library!Step(t) PROVE LInv'
  BY <1>2, Asking, Locking, Picking, Linking, Keeping, Looking, Marking, Unlinking, Forgetting,
     Serving, Reading, Filling, Returning DEF Library!Step
<1> QED
  BY <1>1, <1>2, Elsewhere, Restarting DEF Library!Next

\* A number is given out once, whatever creates, deletes, writers outside and restarts
\* come between: what was given out has its file or a marker, the next number is above
\* both, and nobody marks a number while a create is about to use it
\* (AssetLibrary!NumberGivenOnce; storage.py AssetLibrary.create, delete).
THEOREM NumbersOnce ==
    ASSUME Numbers
    PROVE  Library!Spec => NumberGivenOnce
<1>1. ASSUME LInv, [Library!Next]_(Library!vars)
      PROVE  [(files' \ files) \cap past.given = {}]_(Library!vars)
  <2>1. ASSUME NEW t \in Threads, Library!Link(t) PROVE (files' \ files) \cap past.given = {}
    <3>1. th[t].key \notin markers /\ files' \subseteq files \cup {th[t].key}
      BY <1>1, <2>1 DEF LInv, Sound, Fine, Library!Link
    <3>2. th[t].key \in files \/ th[t].key \notin past.given
      BY <1>1, <3>1 DEF LInv, Kept
    <3> QED
      BY <3>1, <3>2
  <2>2. ASSUME NEW a \in Assets, Library!Outside(a) PROVE (files' \ files) \cap past.given = {}
    <3>1. /\ <<a, Library!HighWater(a) + 1>> \notin files \cup markers
          /\ files' = files \cup {<<a, Library!HighWater(a) + 1>>}
      BY <1>1, <2>2, Higher DEF LInv, Library!Outside
    <3> QED
      BY <1>1, <3>1 DEF LInv, Kept
  <2>3. files' \subseteq files => (files' \ files) \cap past.given = {}
    OBVIOUS
  <2> QED
    BY <1>1, <2>1, <2>2, <2>3 DEF Library!Next, Library!Step, Library!Ask, Library!TakeLock,
       Library!Pick, Library!Keep, Library!Look, Library!Mark, Library!Unlink, Library!Forget,
       Library!LookInCache, Library!ReadFile, Library!Fill, Library!Return, Library!Restart
<1> QED
  BY <1>1, LInvInit, LInvNext, PTL DEF Library!Spec, NumberGivenOnce, Library!NumberGivenOnce

\* A DELETE wins over every read that begins after its answer, and over those in flight:
\* the deleted version is neither on disk nor in the cache, and the reads that missed the
\* cache before it may fill it no more (AssetLibrary!DeletedIsGone; storage.py
\* AssetLibrary._read, _generation).
THEOREM DeletesWin ==
    ASSUME Numbers
    PROVE  Library!Spec => []DeletedIsGone
<1>1. LInv => DeletedIsGone
  BY DEF LInv, Sound, Fine, DeletedIsGone, Library!DeletedIsGone
<1> QED
  BY <1>1, LInvInit, LInvNext, PTL DEF Library!Spec

-----------------------------------------------------------------------------
(* What is cached has its file, or the delete that took it is about to forget it. *)

Leaving(k) == \E t \in Threads : th[t].at = "forget" /\ th[t].key = k
Backed(k) == k \in files \/ Leaving(k)
Still(k) == k \in files' \/ \E t \in Threads : th'[t].at = "forget" /\ th'[t].key = k

\* Who is about to cache something without reading it again.
Holds(t) ==
    /\ th[t].at = "keep" => th[t].key \in files
    /\ th[t].at = "fill" /\ th[t].gen = gen => Backed(th[t].key)

BackedInv ==
    /\ LInv /\ (\A i \in DOMAIN cache : Backed(cache[i]))
    /\ \A t \in Threads : Holds(t)

LEMMA RememberedFrom ==
    ASSUME LTyped, Kept, NEW k \in Library!Keys
    PROVE  \A i \in DOMAIN Library!Remembered(k) :
              Library!Remembered(k)[i] = k \/ \E j \in DOMAIN cache : Library!Remembered(k)[i] = cache[j]
<1> DEFINE q == Library!RemoveFirst(cache, k)
           s == Append(q, k)
<1>1. /\ q \in Seq(Library!Keys) /\ Once(q)
      /\ \A i \in DOMAIN q : q[i] # k /\ \E j \in DOMAIN cache : q[i] = cache[j]
  BY Removed DEF LTyped, Kept
<1> HIDE DEF q
<1>2. /\ s \in Seq(Library!Keys) /\ Once(s) /\ s # <<>>
      /\ \A i \in DOMAIN s : s[i] = k \/ \E j \in DOMAIN q : s[i] = q[j]
  BY <1>1, Appended
<1>3. Library!Remembered(k) = IF Len(s) > CacheMax THEN Tail(s) ELSE s
  BY DEF Library!Remembered, q
<1> HIDE DEF s
<1>4. \A i \in DOMAIN Tail(s) : \E j \in DOMAIN s : Tail(s)[i] = s[j]
  BY <1>2, Shortened
<1> QED
  BY <1>1, <1>2, <1>3, <1>4

\* What every step of a request but a Forget leaves of what is backed.
FilesKept(t) ==
    \/ files \subseteq files'
    \/ /\ th[t].at = "unlink" /\ files' = files \ {th[t].key}
       /\ th'[t].at = "forget" /\ th'[t].key = th[t].key

CacheFrom(t) ==
    \/ cache' = cache
    \/ /\ cache' = Library!Remembered(th[t].key) /\ th[t].key \in Library!Keys
       /\ \/ th[t].at = "keep"
          \/ \E i \in DOMAIN cache : cache[i] = th[t].key
          \/ th[t].at = "fill" /\ th[t].gen = gen

Takes(t) ==
    /\ th'[t].at = "keep" => th'[t].key \in files'
    /\ th'[t].at = "fill" => th'[t].key \in files'

StepLeaves(t) == gen' = gen /\ th[t].at # "forget" /\ FilesKept(t) /\ CacheFrom(t) /\ Takes(t)

LEMMA OnlyOne ==
    ASSUME LInv, NEW t \in Threads, Library!Step(t)
    PROVE  \A u \in Threads \ {t} : th'[u] = th[u]
<1>1. th \in [Threads -> Job]
  BY DEF LInv, LTyped
<1> QED
  BY <1>1 DEF Library!Step, Library!Goes, Library!Ask, Library!TakeLock, Library!Pick, Library!Link,
     Library!Keep, Library!Look, Library!Mark, Library!Unlink, Library!Forget, Library!LookInCache,
     Library!ReadFile, Library!Fill, Library!Return

LEMMA Leaves ==
    ASSUME LInv, NEW t \in Threads, Library!Step(t), ~Library!Forget(t)
    PROVE  StepLeaves(t)
<1>1. th \in [Threads -> Job] /\ th[t] \in Job /\ Sound(t)
  BY DEF LInv, LTyped
<1>2. ASSUME NEW at, Library!Goes(t, at) PROVE th'[t].at = at /\ th'[t].key = th[t].key
  BY <1>1, <1>2 DEF Library!Goes, Job
<1> USE DEF StepLeaves, FilesKept, CacheFrom, Takes
<1>3. CASE Library!Ask(t)
  <2>1. th'[t].at \in {"lock", "read"}
    BY <1>1, <1>3 DEF Library!Ask, Library!Idle
  <2> QED
    BY <1>3, <2>1 DEF Library!Ask
<1>4. CASE Library!TakeLock(t)
  <2>1. th'[t].at \in {"pick", "look"}
    BY <1>2, <1>4 DEF Library!TakeLock
  <2> QED
    BY <1>4, <2>1 DEF Library!TakeLock
<1>5. CASE Library!Pick(t)
  <2>1. th'[t].at = "link"
    BY <1>1, <1>5 DEF Library!Pick, Job
  <2> QED
    BY <1>5, <2>1 DEF Library!Pick
<1>6. CASE Library!Link(t)
  <2>1. \/ th'[t].at = "keep" /\ th'[t].key = th[t].key /\ files' = files \cup {th[t].key}
        \/ th'[t].at = "refused" /\ files' = files
    BY <1>2, <1>6 DEF Library!Link
  <2> QED
    BY <1>6, <2>1 DEF Library!Link
<1>7. CASE Library!Keep(t)
  <2>1. th'[t].at = "served" /\ th[t].key \in Library!Keys
    BY <1>1, <1>2, <1>7 DEF Library!Keep, Sound, Fine, Locked
  <2> QED
    BY <1>7, <2>1 DEF Library!Keep
<1>8. CASE Library!Look(t)
  <2>1. th'[t].at \in {"mark", "refused"}
    BY <1>2, <1>8 DEF Library!Look
  <2> QED
    BY <1>8, <2>1 DEF Library!Look
<1>9. CASE Library!Mark(t)
  <2>1. th'[t].at = "unlink"
    BY <1>2, <1>9 DEF Library!Mark
  <2> QED
    BY <1>9, <2>1 DEF Library!Mark
<1>10. CASE Library!Unlink(t)
  <2>1. \/ th'[t].at = "forget" /\ th'[t].key = th[t].key /\ files' = files \ {th[t].key}
        \/ th'[t].at = "refused" /\ files' = files
    BY <1>2, <1>10 DEF Library!Unlink
  <2> QED
    BY <1>10, <2>1 DEF Library!Unlink
<1>11. CASE Library!LookInCache(t)
  <2>1. th[t].at = "read" /\ th[t].key \in Library!Keys
    BY <1>1, <1>11 DEF Library!LookInCache, Sound, Fine
  <2>2. CASE Library!Cached(th[t].key)
    <3>1. th'[t].at = "served"
      BY <1>2, <1>11, <2>2 DEF Library!LookInCache
    <3> QED
      BY <1>11, <2>1, <2>2, <3>1 DEF Library!LookInCache, Library!Cached
  <2>3. CASE ~Library!Cached(th[t].key)
    <3>1. th'[t].at = "open"
      BY <1>1, <1>11, <2>3 DEF Library!LookInCache, Job
    <3> QED
      BY <1>11, <2>1, <2>3, <3>1 DEF Library!LookInCache
  <2> QED
    BY <2>2, <2>3
<1>12. CASE Library!ReadFile(t)
  <2>1. /\ th'[t].at = IF th[t].key \in files THEN "fill" ELSE "refused"
        /\ th'[t].key = th[t].key
    BY <1>2, <1>12 DEF Library!ReadFile
  <2> QED
    BY <1>12, <2>1 DEF Library!ReadFile
<1>13. CASE Library!Fill(t)
  <2>1. th'[t].at = "served" /\ th[t].key \in Library!Keys
    BY <1>1, <1>2, <1>13 DEF Library!Fill, Sound, Fine
  <2> QED
    BY <1>13, <2>1 DEF Library!Fill
<1>14. CASE Library!Return(t)
  <2>1. th'[t].at = "idle"
    BY <1>1, <1>14 DEF Library!Return, Library!Idle
  <2> QED
    BY <1>14, <2>1 DEF Library!Return
<1> QED
  BY <1>3, <1>4, <1>5, <1>6, <1>7, <1>8, <1>9, <1>10, <1>11, <1>12, <1>13, <1>14
     DEF Library!Step

LEMMA BackedStep ==
    ASSUME BackedInv, LInv', NEW t \in Threads, Library!Step(t), ~Library!Forget(t)
    PROVE  BackedInv'
<1>1. StepLeaves(t) /\ \A u \in Threads \ {t} : th'[u] = th[u]
  BY Leaves, OnlyOne DEF BackedInv
<1>2. ASSUME NEW k, Backed(k) PROVE Still(k)
  <2>1. CASE k \in files'
    BY <2>1 DEF Still
  <2>2. CASE k \in files \ files'
    <3>1. th'[t].at = "forget" /\ th'[t].key = k
      BY <1>1, <2>2 DEF StepLeaves, FilesKept
    <3> QED
      BY <3>1 DEF Still
  <2>3. CASE k \notin files
    <3>1. PICK u \in Threads : th[u].at = "forget" /\ th[u].key = k
      BY <1>2, <2>3 DEF Backed, Leaving
    <3>2. th'[u] = th[u]
      BY <1>1, <3>1 DEF StepLeaves
    <3> QED
      BY <3>1, <3>2 DEF Still
  <2> QED
    BY <2>1, <2>2, <2>3
<1>3. ASSUME NEW u \in Threads PROVE Holds(u)'
  <2>1. CASE u = t
    BY <1>1, <2>1 DEF StepLeaves, Takes, Holds, Backed
  <2>2. CASE u # t
    <3>1. th'[u] = th[u] /\ Holds(u) /\ gen' = gen
      BY <1>1, <2>2 DEF BackedInv, StepLeaves
    <3>2. th[u].at = "keep" => th[u].key \in files'
      <4>1. SUFFICES ASSUME th[u].at = "keep" PROVE files \subseteq files'
        BY <3>1 DEF Holds
      <4>2. th[t].at # "unlink"
        BY <2>2, <4>1 DEF BackedInv, LInv, Sound, Locked
      <4> QED
        BY <1>1, <4>2 DEF StepLeaves, FilesKept
    <3>3. th[u].at = "fill" /\ th[u].gen = gen => Still(th[u].key)
      BY <1>2, <3>1 DEF Holds
    <3>4. th[u].at = "fill" /\ th[u].gen = gen => Still(th'[u].key)
      BY <3>1, <3>3, Zenon
    <3> QED
      BY <3>1, <3>2, <3>4 DEF Holds, Backed, Leaving, Still
  <2> QED
    BY <2>1, <2>2
<1>4. ASSUME NEW i \in DOMAIN cache' PROVE Still(cache'[i])
  <2>1. CASE cache' = cache
    <3>1. Backed(cache[i])
      BY <1>4, <2>1 DEF BackedInv
    <3> QED
      BY <1>2, <2>1, <3>1
  <2>2. CASE cache' # cache
    <3> DEFINE k == th[t].key
    <3>1. cache' = Library!Remembered(k) /\ k \in Library!Keys
      BY <1>1, <2>2 DEF StepLeaves, CacheFrom
    <3>2. Backed(k)
      BY <1>1, <2>2 DEF StepLeaves, CacheFrom, BackedInv, Holds, Backed
    <3> HIDE DEF k
    <3>3. cache'[i] = k \/ \E j \in DOMAIN cache : cache'[i] = cache[j]
      BY <3>1, RememberedFrom DEF BackedInv, LInv
    <3>4. Backed(cache'[i])
      BY <3>2, <3>3 DEF BackedInv
    <3> QED
      BY <1>2, <3>4
  <2> QED
    BY <2>1, <2>2
<1> QED
  BY <1>3, <1>4 DEF BackedInv, Backed, Leaving, Still

\* A delete that is over: whatever was parsed before it is not cached any more.
LEMMA BackedForget ==
    ASSUME BackedInv, LInv', NEW t \in Threads, Library!Forget(t)
    PROVE  BackedInv'
<1>1. /\ \A u \in Threads \ {t} : th'[u] = th[u]
      /\ th[t].at = "forget" /\ lock = t /\ gen \in Nat /\ th \in [Threads -> Job]
  BY OnlyOne DEF BackedInv, LInv, LTyped, Sound, Locked, Library!Step, Library!Forget
<1>2. gen' = gen + 1 /\ files' = files /\ cache' = Library!RemoveFirst(cache, th[t].key)
  BY DEF Library!Forget
<1>3. th'[t].at = "served"
  BY <1>1 DEF Library!Forget, Library!Goes, Job
<1>4. ASSUME NEW k, Backed(k), k # th[t].key PROVE k \in files'
  <2>1. \A u \in Threads \ {t} : th[u].at # "forget"
    BY <1>1 DEF BackedInv, LInv, Sound, Locked
  <2> QED
    BY <1>2, <1>4, <2>1 DEF Backed, Leaving
<1>5. ASSUME NEW u \in Threads PROVE Holds(u)'
  <2>1. CASE u = t
    BY <1>3, <2>1 DEF Holds
  <2>2. CASE u # t
    <3>1. th'[u] = th[u] /\ th[u].at # "keep"
      BY <1>1, <2>2 DEF BackedInv, LInv, Sound, Locked
    <3>2. th[u].at = "fill" => th[u].gen # gen + 1
      <4>1. th[u] \in Job /\ (th[u].at = "fill" => th[u].gen <= gen)
        BY <1>1 DEF BackedInv, LInv, Sound, Fine
      <4> QED
        BY <1>1, <4>1 DEF Job
    <3> QED
      BY <1>2, <3>1, <3>2 DEF Holds
  <2> QED
    BY <2>1, <2>2
<1>6. ASSUME NEW i \in DOMAIN cache' PROVE Still(cache'[i])
  <2>1. cache'[i] # th[t].key /\ \E j \in DOMAIN cache : cache'[i] = cache[j]
    BY <1>2, <1>6, Removed DEF BackedInv, LInv, LTyped, Kept
  <2>2. Backed(cache'[i])
    BY <2>1 DEF BackedInv
  <2> QED
    BY <1>4, <2>1, <2>2 DEF Still
<1> QED
  BY <1>5, <1>6 DEF BackedInv, Backed, Leaving, Still

LEMMA BackedNext ==
    ASSUME BackedInv, Numbers, [Library!Next]_(Library!vars)
    PROVE  BackedInv'
<1>1. LInv'
  BY LInvNext DEF BackedInv
<1>2. CASE UNCHANGED Library!vars
  BY <1>1, <1>2 DEF BackedInv, Holds, Backed, Leaving, Library!vars
<1>3. ASSUME NEW t \in Threads, Library!Step(t) PROVE BackedInv'
  BY <1>1, <1>3, BackedStep, BackedForget
<1>4. ASSUME NEW a \in Assets, Library!Outside(a) PROVE BackedInv'
  <2>1. files \subseteq files' /\ UNCHANGED <<cache, gen, th>>
    BY <1>4 DEF Library!Outside
  <2> QED
    BY <1>1, <2>1 DEF BackedInv, Holds, Backed, Leaving
<1>5. CASE Library!Restart
  <2>1. cache' = <<>> /\ \A u \in Threads : th'[u].at = "idle"
    BY <1>5 DEF Library!Restart, Library!Idle
  <2> QED
    BY <1>1, <2>1 DEF BackedInv, Holds
<1> QED
  BY <1>2, <1>3, <1>4, <1>5 DEF Library!Next

\* What is cached has its file, but between a delete's unlink and its _forget: no read in
\* flight brings a deleted version back, and no create caches what it did not write
\* (AssetLibrary!CacheHasFiles; storage.py AssetLibrary._read, _remember, _generation).
THEOREM CacheFollowsFiles ==
    ASSUME Numbers
    PROVE  Library!Spec => []Library!CacheHasFiles
<1>1. Library!Init => BackedInv
  <2> SUFFICES ASSUME Library!Init PROVE BackedInv
    OBVIOUS
  <2>1. LInv
    BY LInvInit
  <2>2. cache = <<>> /\ \A u \in Threads : th[u].at = "idle"
    BY DEF Library!Init, Library!Idle
  <2> QED
    BY <2>1, <2>2 DEF BackedInv, Holds
<1>2. BackedInv /\ [Library!Next]_(Library!vars) => BackedInv'
  BY BackedNext
<1>3. BackedInv => Library!CacheHasFiles
  BY DEF BackedInv, Backed, Leaving, Library!CacheHasFiles, Library!ToSet
<1> QED
  BY <1>1, <1>2, <1>3, PTL DEF Library!Spec
=============================================================================
