-------------------------- MODULE GraphStore_proofs --------------------------
(***************************************************************************)
(* Proofs about the graph store, for any number of requests, graphs, names   *)
(* and restarts: its state is well typed, requests on one stored graph are    *)
(* past its lock one at a time, no two graphs share a name, the index says what *)
(* the files say, and the store implements GraphServer.                         *)
(***************************************************************************)
EXTENDS GraphStore, TLAPS

-----------------------------------------------------------------------------
(* The strengthening: what a request knows at each of its steps.           *)

Adding == {"create", "copy", "seed"}
Past(j) == j.op = "update" /\ j.at \in {"names", "check", "write", "head"}

\* What the step a request is at says of the rest of its record.
Shape(j) ==
    /\ j.at \in {"wait", "read", "unlink", "unhead", "drop"} \/ Past(j) => j.lock # None
    /\ j.lock # None => j.g # None
    /\ j.at \in {"lock", "wait", "read"} => j.op \in {"update", "delete"} /\ j.g # None
    /\ j.at \in {"unlink", "unhead", "drop"} => j.op = "delete"
    /\ j.at = "source" => j.op = "copy" /\ j.g # None
    /\ j.at \in {"names", "check", "write", "head"} => j.op \in Adding \cup {"update"}
    /\ j.at = "check" => j.op # "seed"
    /\ j.at = "head" => j.new # None /\ (j.name # None \/ j.old # None)
    /\ j.op \in {"create", "copy"} =>
          j.name # None /\ (j.at \in {"source", "names", "check", "write"} => j.new = None)
    /\ j.op = "seed" => j.name = None
    /\ j.op \in {"create", "update"} => j.data # None
    /\ j.op = "copy" /\ j.at \in {"names", "check", "write"} => j.data # None
    /\ j.at \in {"names", "check"} /\ j.op # "seed" => j.name # None
    /\ Past(j) => j.new = j.g /\ j.old # None

\* A stored graph has one lock, whoever still holds an older one holds that of a graph
\* that is gone.
LockKnown(t) ==
    job[t].lock # None /\ file[job[t].g] # None => lockOf[job[t].g] = job[t].lock

\* Requests are about graphs that were given out; a removed one stays removed.
Known(t) ==
    /\ {job[t].g, job[t].new} \subseteq hist.made \cup {None}
    /\ job[t].at \in {"unhead", "drop"} => file[job[t].g] = None

\* The file is still the one that was read under its lock.
StillReads(t) ==
    (Past(job[t]) /\ job[t].at # "head") \/ job[t].at = "unlink" =>
        /\ Readable(job[t].g) /\ file[job[t].g].rev = job[t].rev
        /\ job[t].op = "update" => file[job[t].g].name = job[t].old

\* A request that is about to use a name holds the lock of the names, and the name is
\* free or that of the graph it replaces.
Naming(t) ==
    /\ job[t].at = "check" => names = t
    /\ job[t].at \in {"write", "head"} /\ job[t].op \in Adding => names = t
    /\ job[t].at = "write" /\ (\/ job[t].op \in {"create", "copy"}
                               \/ job[t].op = "update" /\ job[t].name \notin {None, job[t].old})
         => names = t /\ Owners(job[t].name) \subseteq {job[t].new}

\* A seed has seen the name of every stored graph.
Seeing(t) ==
    job[t].op = "seed" /\ job[t].at \in {"write", "head"} =>
        \A g \in Graphs : Readable(g) => \E e \in job[t].seen : e.name = file[g].name

Fit(t) ==
    /\ Shape(job[t]) /\ LockKnown(t) /\ Known(t) /\ StillReads(t) /\ Naming(t) /\ Seeing(t)

LockExclusive ==
    \A t, u \in Clients :
        Inside(t) /\ Inside(u) /\ job[t].lock = job[u].lock => t = u

StoredIsMade == \A g \in Graphs : file[g] # None => g \in hist.made

IInv ==
    /\ TypeOK /\ LockExclusive /\ StoredIsMade /\ NamesUnique
    /\ \A t \in Clients : Fit(t)

-----------------------------------------------------------------------------
(* What the updates of a request's record leave of it.                     *)

Asked(j, k) == k.op = j.op /\ k.g = j.g /\ k.rev = j.rev /\ k.name = j.name

LEMMA Becoming ==
    ASSUME job \in [Clients -> Jobs], NEW t \in Clients, NEW j \in Jobs, Becomes(t, j)
    PROVE  /\ job' \in [Clients -> Jobs] /\ job'[t] = j
           /\ \A u \in Clients \ {t} : job'[u] = job[u]
  BY DEF Becomes

LEMMA IdleType ==
    /\ Idle \in Jobs /\ Idle.at = "idle" /\ Idle.op = "none" /\ Idle.lock = None
    /\ Idle.g = None /\ Idle.new = None
  BY DEF Idle, Jobs, Steps, Ops, Kinds, NoAnswer

LEMMA MovedType ==
    ASSUME NEW j \in Jobs, NEW a \in Steps
    PROVE  LET k == [j EXCEPT !.at = a] IN
           /\ k \in Jobs /\ Asked(j, k) /\ k.at = a /\ k.data = j.data /\ k.lock = j.lock
           /\ k.new = j.new /\ k.old = j.old /\ k.left = j.left /\ k.seen = j.seen
           /\ k.ans = j.ans
  BY DEF Jobs, Asked

Sourced(j, d) == [j EXCEPT !.at = "names", !.data = d]

LEMMA SourcedType ==
    ASSUME NEW j \in Jobs, NEW d \in Contents
    PROVE  LET k == Sourced(j, d) IN
           /\ k \in Jobs /\ Asked(j, k) /\ k.at = "names" /\ k.data = d
           /\ k.lock = j.lock /\ k.new = j.new /\ k.ans = j.ans
  BY DEF Jobs, Steps, Asked, Sourced

Sights == SUBSET Seen
Named(j, a, s) == [j EXCEPT !.at = a, !.seen = s]

LEMMA NamedType ==
    ASSUME NEW j \in Jobs, NEW a \in Steps, NEW s \in Sights
    PROVE  LET k == Named(j, a, s) IN
           /\ k \in Jobs /\ Asked(j, k) /\ k.at = a /\ k.seen = s /\ k.data = j.data
           /\ k.lock = j.lock /\ k.new = j.new /\ k.old = j.old /\ k.ans = j.ans
  BY DEF Jobs, Asked, Named, Sights

Waiting(j, l) == [j EXCEPT !.at = "wait", !.lock = l]

LEMMA WaitingType ==
    ASSUME NEW j \in Jobs, NEW l \in Locks
    PROVE  LET k == Waiting(j, l) IN
           /\ k \in Jobs /\ Asked(j, k) /\ k.at = "wait" /\ k.lock = l /\ k.data = j.data
           /\ k.new = j.new /\ k.old = j.old /\ k.ans = j.ans
  BY DEF Jobs, Steps, Asked, Waiting

Answered(j, a, answer) == [j EXCEPT !.at = a, !.ans = answer]

LEMMA AnsweredType ==
    ASSUME NEW j \in Jobs, NEW a \in Steps, NEW answer \in [kind: Kinds, rev: Nat]
    PROVE  LET k == Answered(j, a, answer) IN
           /\ k \in Jobs /\ Asked(j, k) /\ k.at = a /\ k.data = j.data /\ k.lock = j.lock
           /\ k.new = j.new /\ k.old = j.old /\ k.seen = j.seen /\ k.ans = answer
  BY DEF Jobs, Asked, Answered

Found(j, a, name, g) == [j EXCEPT !.at = a, !.old = name, !.new = g]

LEMMA FoundType ==
    ASSUME NEW j \in Jobs, NEW a \in Steps, NEW name \in Names, NEW g \in Graphs
    PROVE  LET k == Found(j, a, name, g) IN
           /\ k \in Jobs /\ Asked(j, k) /\ k.at = a /\ k.data = j.data /\ k.lock = j.lock
           /\ k.new = g /\ k.old = name /\ k.ans = j.ans
  BY DEF Jobs, Asked, Found

Stores(j, g, answer) == [j EXCEPT !.at = "head", !.new = g, !.ans = answer]

LEMMA StoresType ==
    ASSUME NEW j \in Jobs, NEW g \in Graphs, NEW answer \in [kind: Kinds, rev: Nat]
    PROVE  LET k == Stores(j, g, answer) IN
           /\ k \in Jobs /\ Asked(j, k) /\ k.at = "head" /\ k.data = j.data
           /\ k.lock = j.lock /\ k.new = g /\ k.ans = answer
  BY DEF Jobs, Steps, Asked, Stores

Skips(j, n) == [j EXCEPT !.left = @ \ {n}]

LEMMA SkipsType ==
    ASSUME NEW j \in Jobs, NEW n
    PROVE  LET k == Skips(j, n) IN
           /\ k \in Jobs /\ Asked(j, k) /\ k.at = j.at /\ k.data = j.data /\ k.seen = j.seen
           /\ k.lock = j.lock /\ k.new = j.new /\ k.old = j.old /\ k.ans = j.ans
  BY DEF Jobs, Asked, Skips

Adds(j, g, name, less, more) ==
    [j EXCEPT !.at = "head", !.new = g, !.old = name, !.left = less, !.seen = more]

LEMMA AddsType ==
    ASSUME NEW j \in Jobs, NEW g \in Graphs, NEW name \in Names,
           NEW less \in SUBSET Legacy, NEW more \in SUBSET Seen
    PROVE  LET k == Adds(j, g, name, less, more) IN
           /\ k \in Jobs /\ Asked(j, k) /\ k.at = "head" /\ k.data = j.data
           /\ k.seen = more /\ k.lock = j.lock
           /\ k.new = g /\ k.old = name /\ k.ans = j.ans
  BY DEF Jobs, Steps, Asked, Adds

LEMMA EndedType ==
    ASSUME NEW j \in Jobs, NEW answer \in [kind: Kinds, rev: Nat]
    PROVE  LET k == [j EXCEPT !.at = "done", !.ans = answer, !.lock = None,
                              !.new = None, !.old = None, !.left = {}, !.seen = {}]
           IN /\ k \in Jobs /\ Asked(j, k) /\ k.at = "done" /\ k.data = j.data
              /\ k.lock = None /\ k.new = None /\ k.ans = answer
  BY DEF Jobs, Steps, Asked

-----------------------------------------------------------------------------
(* The two steps most actions are made of.                                 *)

Others(t) == \A u \in Clients \ {t} : job'[u] = job[u]

LEMMA GoesOn ==
    ASSUME job \in [Clients -> Jobs], NEW t \in Clients, NEW a \in Steps, Goes(t, a)
    PROVE  /\ job' \in [Clients -> Jobs] /\ Others(t)
           /\ Asked(job[t], job'[t]) /\ job'[t].at = a /\ job'[t].data = job[t].data
           /\ job'[t].lock = job[t].lock /\ job'[t].new = job[t].new
           /\ job'[t].old = job[t].old /\ job'[t].left = job[t].left
           /\ job'[t].seen = job[t].seen /\ job'[t].ans = job[t].ans
<1> DEFINE k == [job[t] EXCEPT !.at = a]
<1>1. /\ k \in Jobs /\ Asked(job[t], k) /\ k.at = a /\ k.data = job[t].data
      /\ k.lock = job[t].lock /\ k.new = job[t].new /\ k.old = job[t].old
      /\ k.left = job[t].left /\ k.seen = job[t].seen /\ k.ans = job[t].ans
  <2>1. job[t] \in Jobs
    OBVIOUS
  <2> QED BY <2>1, MovedType, Zenon
<1>2. Becomes(t, k)
  BY Zenon DEF Goes
<1> HIDE DEF k
<1> QED
  BY <1>1, <1>2, Becoming DEF Others

LEMMA EndsHere ==
    ASSUME job \in [Clients -> Jobs], NEW t \in Clients,
           NEW answer \in [kind: Kinds, rev: Nat], Ends(t, answer)
    PROVE  /\ job' \in [Clients -> Jobs] /\ Others(t)
           /\ Asked(job[t], job'[t]) /\ job'[t].at = "done" /\ job'[t].data = job[t].data
           /\ job'[t].lock = None /\ job'[t].new = None /\ job'[t].ans = answer
<1> DEFINE k == [job[t] EXCEPT !.at = "done", !.ans = answer, !.lock = None,
                               !.new = None, !.old = None, !.left = {}, !.seen = {}]
<1>1. /\ k \in Jobs /\ Asked(job[t], k) /\ k.at = "done" /\ k.data = job[t].data
      /\ k.lock = None /\ k.new = None /\ k.ans = answer
  <2>1. job[t] \in Jobs
    OBVIOUS
  <2> QED BY <2>1, EndedType, Zenon
<1>2. Becomes(t, k)
  BY Zenon DEF Ends
<1> HIDE DEF k
<1> QED
  BY <1>1, <1>2, Becoming DEF Others

LEMMA Answers == \A kind \in Kinds, rev \in Nat : Says(kind, rev) \in [kind: Kinds, rev: Nat]
  BY DEF Says

-----------------------------------------------------------------------------
(* The requests that do not move.                                          *)

\* A step of t that touches no file, no id and no lock of a stored graph leaves what
\* another request knows.
LEMMA Untouched ==
    ASSUME IInv, NEW t \in Clients, Others(t), file' = file, hist'.made = hist.made,
           \A g \in Graphs : file[g] # None => lockOf'[g] = lockOf[g],
           \A u \in Clients \ {t} : names = u => names' = u
    PROVE  /\ \A u \in Clients \ {t} : Fit(u)'
           /\ StoredIsMade' /\ NamesUnique'
<1>1. ASSUME NEW u \in Clients \ {t}
      PROVE  Fit(u)'
  <2>1. job'[u] = job[u] /\ Fit(u) /\ (names = u => names' = u)
    BY <1>1 DEF Others, IInv
  <2>2. LockKnown(u)'
    BY <2>1 DEF IInv, TypeOK, Jobs, Fit, Shape, LockKnown
  <2> QED
    BY <2>1, <2>2 DEF Fit, Known, StillReads, Naming, Seeing, Readable, Owners
<1>2. StoredIsMade' /\ NamesUnique'
  BY DEF IInv, StoredIsMade, NamesUnique, Readable
<1> QED
  BY <1>1, <1>2

\* A step that takes no lock leaves them exclusive.
LEMMA TakesNoLock ==
    ASSUME IInv, NEW t \in Clients, Others(t),
           \/ job'[t].lock = None \/ job'[t].at = "wait"
           \/ job'[t].lock = job[t].lock /\ job[t].at # "wait"
    PROVE  LockExclusive'
<1>1. \A u \in Clients : Inside(u)' => Inside(u) /\ job'[u].lock = job[u].lock
  BY DEF Others, Inside
<1> QED
  BY <1>1 DEF IInv, LockExclusive

-----------------------------------------------------------------------------
(* The actions that change no file.                                        *)

LEMMA TakeLockKeeps == ASSUME IInv, NEW t \in Clients, TakeLock(t) PROVE IInv'
<1>1. /\ job[t].at = "wait" /\ Goes(t, "read")
      /\ \A u \in Clients : Inside(u) => job[u].lock # job[t].lock
      /\ UNCHANGED <<file, heads, lockOf, names, hist>>
  BY DEF TakeLock
<1>2. /\ job' \in [Clients -> Jobs] /\ Others(t)
      /\ Asked(job[t], job'[t]) /\ job'[t].at = "read" /\ job'[t].data = job[t].data
      /\ job'[t].lock = job[t].lock /\ job'[t].new = job[t].new
  BY <1>1, GoesOn DEF IInv, TypeOK, Steps
<1>3. TypeOK'
  BY <1>1, <1>2 DEF IInv, TypeOK
<1>4. LockExclusive'
  <2>1. \A u \in Clients \ {t} : Inside(u)' => Inside(u) /\ job'[u].lock = job[u].lock
    BY <1>2 DEF Others, Inside
  <2> QED
    BY <2>1, <1>1, <1>2 DEF IInv, LockExclusive
<1>5. Fit(t)'
  BY <1>1, <1>2 DEF IInv, Fit, Shape, Past, LockKnown, Known, StillReads, Naming, Seeing, Asked,
                    Adding, Readable, Owners
<1> QED
  BY <1>1, <1>2, <1>3, <1>4, <1>5, Untouched DEF IInv

\* A request that ends here and gives up what it holds.
LEMMA EndsKeeps ==
    ASSUME IInv, NEW t \in Clients, NEW answer \in [kind: Kinds, rev: Nat], Ends(t, answer),
           file' = file, heads' \in [Graphs -> [rev: Nat, name: Names] \cup {None}],
           lockOf' \in [Graphs -> Locks \cup {None}],
           \A g \in Graphs : file[g] # None => lockOf'[g] = lockOf[g],
           hist' = hist, names' \in {names, None}, names' # names => names = t
    PROVE  IInv'
<1>1. /\ job' \in [Clients -> Jobs] /\ Others(t)
      /\ Asked(job[t], job'[t]) /\ job'[t].at = "done" /\ job'[t].data = job[t].data
      /\ job'[t].lock = None /\ job'[t].new = None
  BY EndsHere DEF IInv, TypeOK
<1>2. TypeOK'
  BY <1>1 DEF IInv, TypeOK
<1>3. LockExclusive'
  BY <1>1, TakesNoLock
<1>4. Fit(t)'
  BY <1>1 DEF IInv, Fit, Shape, Past, LockKnown, Known, StillReads, Naming, Seeing, Asked
<1> QED
  BY <1>1, <1>2, <1>3, <1>4, Untouched DEF IInv

LEMMA CheckNameKeeps == ASSUME IInv, NEW t \in Clients, CheckName(t) PROVE IInv'
<1>1. /\ job[t].at = "check" /\ UNCHANGED <<file, heads, lockOf, hist>>
      /\ \/ Ends(t, Says("taken", 0)) /\ names' = None
         \/ /\ Owners(job[t].name) \ {job[t].new} = {}
            /\ Goes(t, "write") /\ UNCHANGED names
  BY DEF CheckName
<1>2. names = t /\ names' \in {None, t}
  BY <1>1 DEF IInv, Fit, Naming
<1>3. CASE Ends(t, Says("taken", 0)) /\ names' = None
  BY <1>1, <1>2, <1>3, EndsKeeps, Answers DEF IInv, TypeOK, Kinds
<1>4. CASE Owners(job[t].name) \ {job[t].new} = {} /\ Goes(t, "write") /\ UNCHANGED names
  <2>1. /\ job' \in [Clients -> Jobs] /\ Others(t)
        /\ Asked(job[t], job'[t]) /\ job'[t].at = "write" /\ job'[t].data = job[t].data
        /\ job'[t].lock = job[t].lock /\ job'[t].new = job[t].new /\ job'[t].old = job[t].old
    BY <1>4, GoesOn DEF IInv, TypeOK, Steps
  <2>2. TypeOK'
    BY <1>1, <1>4, <2>1 DEF IInv, TypeOK
  <2>3. LockExclusive'
    BY <1>1, <2>1, TakesNoLock
  <2>4. Fit(t)'
    <3>1. (Owners(job[t].name) \subseteq {job[t].new})'
      BY <1>1, <1>4, <2>1 DEF Owners, Readable, Asked
    <3> QED
      BY <1>1, <1>2, <1>4, <2>1, <3>1
         DEF IInv, Fit, Shape, Past, LockKnown, Known, StillReads, Naming, Seeing, Asked, Adding,
             Readable, Owners
  <2> QED
    BY <1>1, <1>2, <1>4, <2>1, <2>2, <2>3, <2>4, Untouched DEF IInv
<1> QED
  BY <1>1, <1>3, <1>4


LEMMA ReadSourceKeeps == ASSUME IInv, NEW t \in Clients, ReadSource(t) PROVE IInv'
<1> DEFINE f == file[job[t].g]
<1>1. /\ job[t].at = "source" /\ UNCHANGED <<file, heads, lockOf, names, hist>>
      /\ \/ \E kind \in Kinds : Ends(t, Says(kind, 0))
         \/ Readable(job[t].g) /\ Becomes(t, [job[t] EXCEPT !.at = "names", !.data = f.data])
  BY Zenon DEF ReadSource, Kinds, Readable
<1>2. CASE \E kind \in Kinds : Ends(t, Says(kind, 0))
  BY <1>1, <1>2, EndsKeeps, Answers DEF IInv, TypeOK
<1>3. CASE Readable(job[t].g) /\ Becomes(t, [job[t] EXCEPT !.at = "names", !.data = f.data])
  <2> DEFINE k == Sourced(job[t], f.data)
  <2>1. job[t] \in Jobs /\ f.data \in Contents /\ job[t].op = "copy"
    BY <1>1, <1>3 DEF IInv, TypeOK, Env, Readable, Fit, Shape, Jobs
  <2>2. /\ k \in Jobs /\ Asked(job[t], k) /\ k.at = "names" /\ k.data = f.data
        /\ k.lock = job[t].lock /\ k.new = job[t].new
    BY <2>1, SourcedType
  <2>3. Becomes(t, k)
    BY <1>3, Zenon DEF Sourced
  <2> HIDE DEF k, f
  <2>4. job' \in [Clients -> Jobs] /\ Others(t) /\ job'[t] = k
    BY <2>2, <2>3, Becoming DEF Others, IInv, TypeOK
  <2>5. TypeOK'
    BY <1>1, <2>4 DEF IInv, TypeOK
  <2>6. LockExclusive'
    BY <1>1, <2>2, <2>4, TakesNoLock
  <2>7. Fit(t)'
    BY <1>1, <2>1, <2>2, <2>4, ContentsAssumption
       DEF IInv, Fit, Shape, Past, LockKnown, Known, StillReads, Naming, Seeing, Asked, Adding
  <2> QED
    BY <1>1, <2>4, <2>5, <2>6, <2>7, Untouched DEF IInv
<1> QED
  BY <1>1, <1>2, <1>3

LEMMA WriteFailsKeeps == ASSUME IInv, NEW t \in Clients, WriteFails(t) PROVE IInv'
  BY EndsKeeps, Answers DEF WriteFails, Drops, IInv, TypeOK, Kinds

LEMMA SeedEndsKeeps == ASSUME IInv, NEW t \in Clients, SeedEnds(t) PROVE IInv'
<1>1. names = t /\ names' = None /\ UNCHANGED <<file, heads, lockOf, hist>>
  BY DEF SeedEnds, IInv, Fit, Naming, Adding
<1>2. \E kind \in Kinds : Ends(t, Says(kind, 0))
  BY DEF SeedEnds, Kinds
<1> QED
  BY <1>1, <1>2, EndsKeeps, Answers DEF IInv, TypeOK

LEMMA DropLockKeeps == ASSUME IInv, NEW t \in Clients, DropLock(t) PROVE IInv'
<1>1. /\ Ends(t, job[t].ans) /\ lockOf' = [lockOf EXCEPT ![job[t].g] = None]
      /\ UNCHANGED <<file, heads, names, hist>> /\ file[job[t].g] = None
  BY DEF DropLock, IInv, Fit, Known
<1>2. job[t].ans \in [kind: Kinds, rev: Nat]
  BY DEF IInv, TypeOK, Jobs
<1>3. /\ lockOf' \in [Graphs -> Locks \cup {None}]
      /\ \A g \in Graphs : file[g] # None => lockOf'[g] = lockOf[g]
  BY <1>1 DEF IInv, TypeOK
<1> QED
  BY <1>1, <1>2, <1>3, EndsKeeps DEF IInv, TypeOK

LEMMA DropHeadKeeps == ASSUME IInv, NEW t \in Clients, DropHead(t) PROVE IInv'
<1>1. /\ job[t].at = "unhead" /\ Goes(t, "drop") /\ heads' = [heads EXCEPT ![job[t].g] = None]
      /\ UNCHANGED <<file, lockOf, names, hist>>
  BY DEF DropHead
<1>2. /\ job' \in [Clients -> Jobs] /\ Others(t)
      /\ Asked(job[t], job'[t]) /\ job'[t].at = "drop" /\ job'[t].data = job[t].data
      /\ job'[t].lock = job[t].lock /\ job'[t].new = job[t].new
  BY <1>1, GoesOn DEF IInv, TypeOK, Steps
<1>3. TypeOK'
  BY <1>1, <1>2 DEF IInv, TypeOK
<1>4. LockExclusive'
  BY <1>1, <1>2, TakesNoLock
<1>5. Fit(t)'
  BY <1>1, <1>2 DEF IInv, Fit, Shape, Past, LockKnown, Known, StillReads, Naming, Seeing, Asked
<1> QED
  BY <1>1, <1>2, <1>3, <1>4, <1>5, Untouched DEF IInv

LEMMA SetHeadKeeps == ASSUME IInv, NEW t \in Clients, SetHead(t) PROVE IInv'
<1>1. /\ job[t].at = "head" /\ UNCHANGED <<file, lockOf, hist>>
      /\ heads' = [heads EXCEPT ![job[t].new] =
                      [rev |-> IF job[t].op = "update" THEN job[t].rev + 1 ELSE 1,
                       name |-> IF job[t].name = None THEN job[t].old ELSE job[t].name]]
      /\ \/ job[t].op = "seed" /\ Goes(t, "write") /\ names' = names
         \/ Ends(t, job[t].ans) /\ names' = Drops(t)
  BY DEF SetHead
<1>2. heads' \in [Graphs -> [rev: Nat, name: Names] \cup {None}]
  BY <1>1 DEF IInv, TypeOK, Jobs, Fit, Shape, Past, Adding
<1>3. CASE Ends(t, job[t].ans) /\ names' = Drops(t)
  <2>1. job[t].ans \in [kind: Kinds, rev: Nat]
    BY DEF IInv, TypeOK, Jobs
  <2> QED
    BY <1>1, <1>2, <1>3, <2>1, EndsKeeps DEF Drops, IInv, TypeOK
<1>4. CASE job[t].op = "seed" /\ Goes(t, "write") /\ names' = names
  <2>1. /\ job' \in [Clients -> Jobs] /\ Others(t)
        /\ Asked(job[t], job'[t]) /\ job'[t].at = "write" /\ job'[t].data = job[t].data
        /\ job'[t].lock = job[t].lock /\ job'[t].new = job[t].new /\ job'[t].seen = job[t].seen
    BY <1>4, GoesOn DEF IInv, TypeOK, Steps
  <2>2. TypeOK'
    BY <1>1, <1>2, <1>4, <2>1 DEF IInv, TypeOK
  <2>3. LockExclusive'
    BY <1>1, <2>1, TakesNoLock
  <2>4. Fit(t)'
    BY <1>1, <1>4, <2>1
       DEF IInv, Fit, Shape, Past, LockKnown, Known, StillReads, Naming, Seeing, Asked, Adding,
           Readable
  <2> QED
    BY <1>1, <1>4, <2>1, <2>2, <2>3, <2>4, Untouched DEF IInv
<1> QED
  BY <1>1, <1>3, <1>4

LEMMA ReturnKeeps == ASSUME IInv, NEW t \in Clients, Return(t) PROVE IInv'
<1>1. /\ job[t].at = "done" /\ Becomes(t, Idle) /\ UNCHANGED <<file, heads, lockOf, names, hist>>
  BY DEF Return
<1>2. job' \in [Clients -> Jobs] /\ Others(t) /\ job'[t] = Idle
  BY <1>1, IdleType, Becoming DEF Others, IInv, TypeOK
<1>3. TypeOK'
  BY <1>1, <1>2 DEF IInv, TypeOK
<1>4. LockExclusive'
  BY <1>2, IdleType, TakesNoLock
<1>5. Fit(t)'
  BY <1>1, <1>2, IdleType
     DEF IInv, Fit, Shape, Past, LockKnown, Known, StillReads, Naming, Seeing
<1> QED
  BY <1>1, <1>2, <1>3, <1>4, <1>5, Untouched DEF IInv

LEMMA TakeNamesKeeps == ASSUME IInv, NEW t \in Clients, TakeNames(t) PROVE IInv'
<1>1. /\ job[t].at = "names" /\ names = None /\ names' = t
      /\ UNCHANGED <<file, heads, lockOf, hist>>
  BY DEF TakeNames
<1>2. PICK next \in Steps, sees \in Sights :
        /\ Becomes(t, Named(job[t], next, sees))
        /\ IF job[t].op = "seed" THEN next = "write" /\ sees = Stored ELSE next = "check"
  <2>1. Stored \in Sights /\ {} \in Sights /\ {"write", "check"} \subseteq Steps
    BY DEF IInv, TypeOK, Stored, Seen, Sights, Env, Readable, Steps
  <2>2. CASE job[t].op = "seed"
    BY <2>1, <2>2, Zenon DEF TakeNames, Named
  <2>3. CASE job[t].op # "seed"
    BY <2>1, <2>3, Zenon DEF TakeNames, Named
  <2> QED
    BY <2>2, <2>3
<1> DEFINE k == Named(job[t], next, sees)
<1>4. /\ k \in Jobs /\ Asked(job[t], k) /\ k.at = next /\ k.seen = sees /\ k.data = job[t].data
      /\ k.lock = job[t].lock /\ k.new = job[t].new /\ k.old = job[t].old
      /\ Becomes(t, k)
  BY <1>2, NamedType DEF IInv, TypeOK
<1> HIDE DEF k
<1>5. ASSUME NEW g \in Graphs, Readable(g), job[t].op = "seed"
      PROVE  \E e \in sees : e.name = file[g].name
  <2>1. [name |-> file[g].name, data |-> file[g].data] \in sees
    BY <1>2, <1>5 DEF Stored
  <2> QED
    BY <2>1
<1>6. /\ next = "check" \/ (job[t].op = "seed" /\ next = "write")
      /\ job[t].op = "seed" => next = "write"
  BY <1>2
<1>7. job' \in [Clients -> Jobs] /\ Others(t) /\ job'[t] = k
  BY <1>4, Becoming DEF Others, IInv, TypeOK
<1>8. TypeOK'
  BY <1>1, <1>7 DEF IInv, TypeOK
<1>9. LockExclusive'
  BY <1>1, <1>4, <1>7, TakesNoLock
<1>10. Fit(t)'
  <2>1. Shape(k)
    BY <1>1, <1>4, <1>6 DEF IInv, Fit, Shape, Past, Asked, Adding
  <2>2. Seeing(t)'
    BY <1>1, <1>4, <1>5, <1>7 DEF Seeing, Readable, Asked
  <2>3. Naming(t)'
    BY <1>1, <1>4, <1>6, <1>7 DEF Naming, Asked
  <2>4. StillReads(t)'
    BY <1>1, <1>4, <1>6, <1>7 DEF IInv, Fit, StillReads, Past, Asked, Readable
  <2> QED
    BY <1>1, <1>4, <1>6, <1>7, <2>1, <2>2, <2>3, <2>4
       DEF IInv, Fit, LockKnown, Known, Asked
<1>11. \A u \in Clients \ {t} : names = u => names' = u
  BY <1>1, NoneAssumption
<1> QED
  BY <1>1, <1>7, <1>8, <1>9, <1>10, <1>11, Untouched DEF IInv

-----------------------------------------------------------------------------
(* A new request.                                                          *)

\* It is about graphs that were given out, and holds nothing.
Fresh(k) ==
    /\ k \in Jobs /\ Shape(k) /\ k.lock = None /\ k.new = None /\ k.g \in hist.made \cup {None}
    /\ k.at \in {"names", "source", "lock"} /\ ~Past(k) /\ k.op # "none" /\ k.ans = NoAnswer

LEMMA FreshRequests ==
    /\ \A name \in Names, data \in Contents :
          Fresh([Idle EXCEPT !.at = "names", !.op = "create", !.name = name, !.data = data])
    /\ \A name \in Names, g \in Graphs \cap hist.made :
          Fresh([Idle EXCEPT !.at = "source", !.op = "copy", !.name = name, !.g = g])
    /\ \A name \in Names \cup {None}, g \in Graphs \cap hist.made, rev \in Nat, data \in Contents :
          Fresh([Idle EXCEPT !.at = "lock", !.op = "update", !.g = g, !.rev = rev,
                             !.name = name, !.data = data])
    /\ \A g \in Graphs \cap hist.made, rev \in Nat :
          Fresh([Idle EXCEPT !.at = "lock", !.op = "delete", !.g = g, !.rev = rev])
    /\ Fresh([Idle EXCEPT !.at = "names", !.op = "seed", !.left = Legacy])
<1> USE NoneAssumption, ContentsAssumption
    DEF Fresh, Idle, Jobs, Steps, Ops, Kinds, NoAnswer, Shape, Past, Adding
<1>1. ASSUME NEW name \in Names, NEW data \in Contents
      PROVE  Fresh([Idle EXCEPT !.at = "names", !.op = "create", !.name = name, !.data = data])
  OBVIOUS
<1>2. ASSUME NEW name \in Names, NEW g \in Graphs \cap hist.made
      PROVE  Fresh([Idle EXCEPT !.at = "source", !.op = "copy", !.name = name, !.g = g])
  OBVIOUS
<1>3. ASSUME NEW name \in Names \cup {None}, NEW g \in Graphs \cap hist.made, NEW rev \in Nat,
             NEW data \in Contents
      PROVE  Fresh([Idle EXCEPT !.at = "lock", !.op = "update", !.g = g, !.rev = rev,
                                !.name = name, !.data = data])
  OBVIOUS
<1>4. ASSUME NEW g \in Graphs \cap hist.made, NEW rev \in Nat
      PROVE  Fresh([Idle EXCEPT !.at = "lock", !.op = "delete", !.g = g, !.rev = rev])
  OBVIOUS
<1>5. Fresh([Idle EXCEPT !.at = "names", !.op = "seed", !.left = Legacy])
  OBVIOUS
<1> HIDE DEF Fresh
<1> QED
  BY <1>1, <1>2, <1>3, <1>4, <1>5, Zenon

LEMMA AskIsFresh ==
    ASSUME IInv, NEW t \in Clients, Ask(t)
    PROVE  \E k : Fresh(k) /\ Becomes(t, k)
<1>1. \A rev \in 1..MaxRev : rev \in Nat
  OBVIOUS
<1>2. \A g \in Graphs : Usable(g) => g \in Graphs \cap hist.made
  BY DEF Usable
<1> QED
  BY <1>1, <1>2, FreshRequests, Zenon DEF Ask

LEMMA AskKeeps == ASSUME IInv, NEW t \in Clients, Ask(t) PROVE IInv'
<1>1. PICK k : Fresh(k) /\ Becomes(t, k)
  BY AskIsFresh
<1>2. UNCHANGED <<file, heads, lockOf, names, hist>>
  BY DEF Ask
<1>3. job' \in [Clients -> Jobs] /\ Others(t) /\ job'[t] = k
  BY <1>1, Becoming DEF Others, IInv, TypeOK, Fresh
<1>4. TypeOK'
  BY <1>2, <1>3 DEF IInv, TypeOK
<1>5. LockExclusive'
  BY <1>1, <1>3, TakesNoLock DEF Fresh
<1>6. Fit(t)'
  <2>1. Shape(job[t])' /\ LockKnown(t)' /\ Known(t)'
    BY <1>1, <1>2, <1>3 DEF Fresh, LockKnown, Known
  <2>2. StillReads(t)' /\ Naming(t)' /\ Seeing(t)'
    BY <1>1, <1>3 DEF Fresh, StillReads, Naming, Seeing
  <2> QED
    BY <2>1, <2>2 DEF Fit
<1> QED
  BY <1>2, <1>3, <1>4, <1>5, <1>6, Untouched DEF IInv

-----------------------------------------------------------------------------
(* The actions on the lock of a graph and on its file.                     *)

LEMMA FindLockKeeps == ASSUME IInv, NEW t \in Clients, FindLock(t) PROVE IInv'
<1> DEFINE g == job[t].g
<1>1. PICK l :
        /\ job[t].at = "lock" /\ UNCHANGED <<file, heads, names, hist>>
        /\ IF lockOf[g] # None THEN l = lockOf[g] ELSE l \in Unused
        /\ lockOf' = [lockOf EXCEPT ![g] = l] /\ Becomes(t, Waiting(job[t], l))
  BY Zenon DEF FindLock, Waiting
<1>2. g \in Graphs /\ job[t] \in Jobs
  BY <1>1 DEF IInv, TypeOK, Fit, Shape, Jobs
<1>3. l \in Locks
  BY <1>1, <1>2 DEF Unused, IInv, TypeOK
<1> DEFINE k == Waiting(job[t], l)
<1>4. /\ k \in Jobs /\ Asked(job[t], k) /\ k.at = "wait" /\ k.lock = l /\ k.data = job[t].data
      /\ k.new = job[t].new /\ k.old = job[t].old
  BY <1>2, <1>3, WaitingType
<1> HIDE DEF k
<1>5. job' \in [Clients -> Jobs] /\ Others(t) /\ job'[t] = k
  BY <1>1, <1>4, Becoming DEF Others, IInv, TypeOK, k
<1>6. TypeOK'
  BY <1>1, <1>2, <1>3, <1>5 DEF IInv, TypeOK
<1>7. LockExclusive'
  BY <1>4, <1>5, TakesNoLock
<1>8. LockKnown(t)'
  BY <1>1, <1>2, <1>3, <1>4, <1>5 DEF LockKnown, Asked, IInv, TypeOK
<1>9. Fit(t)'
  BY <1>1, <1>3, <1>4, <1>5, <1>8, NoneAssumption
     DEF IInv, Fit, Shape, Past, Known, StillReads, Naming, Seeing, Asked
<1>10. \A u \in Clients \ {t} : Fit(u)'
  <2>1. ASSUME NEW u \in Clients \ {t}
        PROVE  Fit(u)'
    <3>1. job'[u] = job[u] /\ Fit(u)
      BY <1>5 DEF Others, IInv
    <3>2. LockKnown(u)'
      BY <1>1, <1>2, <3>1 DEF Fit, LockKnown, Shape, IInv, TypeOK, Jobs
    <3> QED
      BY <1>1, <3>1, <3>2 DEF Fit, Known, StillReads, Naming, Seeing, Readable, Owners
  <2> QED
    BY <2>1
<1>11. StoredIsMade' /\ NamesUnique'
  BY <1>1 DEF IInv, StoredIsMade, NamesUnique, Readable
<1> QED
  BY <1>6, <1>7, <1>9, <1>10, <1>11 DEF IInv

\* Nobody else is past the lock of the stored graph a request is on.
LEMMA Alone ==
    ASSUME IInv, NEW t \in Clients, Inside(t), file[job[t].g] # None
    PROVE  \A u \in Clients \ {t} : job[u].g = job[t].g => ~Inside(u)
  BY DEF IInv, Fit, LockKnown, LockExclusive, Inside

\* Removing the file it is on leaves what the others know.
LEMMA Removes ==
    ASSUME IInv, NEW t \in Clients, Others(t), Inside(t), file[job[t].g] # None,
           file' = [file EXCEPT ![job[t].g] = None], lockOf' = lockOf, names' = names,
           hist'.made = hist.made
    PROVE  /\ \A u \in Clients \ {t} : Fit(u)'
           /\ StoredIsMade' /\ NamesUnique'
<1> DEFINE g == job[t].g
<1>1. g \in Graphs
  BY DEF Inside, IInv, Fit, Shape, TypeOK, Jobs
<1>2. file'[g] = None /\ \A h \in Graphs \ {g} : file'[h] = file[h]
  BY <1>1 DEF IInv, TypeOK
<1>3. \A h \in Graphs : Readable(h)' => Readable(h) /\ file'[h] = file[h]
  BY <1>2 DEF Readable
<1>4. ASSUME NEW u \in Clients \ {t}
      PROVE  Fit(u)'
  <2>1. job'[u] = job[u] /\ Fit(u) /\ job[u] \in Jobs /\ (job[u].g = g => ~Inside(u))
    BY <1>4, Alone DEF Others, IInv, TypeOK
  <2>2. LockKnown(u)' /\ Known(u)'
    BY <1>2, <2>1 DEF Fit, Shape, LockKnown, Known, Jobs
  <2>3. StillReads(u)'
    BY <1>2, <2>1 DEF Fit, Shape, StillReads, Inside, Past, Readable, Jobs
  <2>4. Naming(u)' /\ Seeing(u)'
    BY <1>3, <2>1 DEF Fit, Naming, Seeing, Owners
  <2> QED
    BY <2>1, <2>2, <2>3, <2>4 DEF Fit
<1>5. StoredIsMade' /\ NamesUnique'
  BY <1>2, <1>3 DEF IInv, StoredIsMade, NamesUnique
<1> QED
  BY <1>4, <1>5

LEMMA UnlinkKeeps == ASSUME IInv, NEW t \in Clients, Unlink(t) PROVE IInv'
<1> DEFINE k == Answered(job[t], "unhead", Says("ok", 0))
<1>1. /\ job[t].at = "unlink" /\ file' = [file EXCEPT ![job[t].g] = None] /\ Becomes(t, k)
      /\ UNCHANGED <<heads, lockOf, names, hist>>
  BY Zenon DEF Unlink, Answered
<1>2. /\ Inside(t) /\ Readable(job[t].g) /\ job[t] \in Jobs /\ job[t].g \in Graphs
  BY <1>1 DEF IInv, Fit, Shape, Inside, StillReads, TypeOK, Jobs
<1>3. /\ k \in Jobs /\ Asked(job[t], k) /\ k.at = "unhead" /\ k.lock = job[t].lock
      /\ k.data = job[t].data /\ k.new = job[t].new
  <2>1. Says("ok", 0) \in [kind: Kinds, rev: Nat] /\ "unhead" \in Steps
    BY Answers DEF Steps, Kinds
  <2> QED
    BY <1>2, <2>1, AnsweredType
<1> HIDE DEF k
<1>4. job' \in [Clients -> Jobs] /\ Others(t) /\ job'[t] = k
  BY <1>1, <1>3, Becoming DEF Others, IInv, TypeOK
<1>5. TypeOK'
  BY <1>1, <1>2, <1>4 DEF IInv, TypeOK
<1>6. LockExclusive'
  BY <1>1, <1>3, <1>4, TakesNoLock
<1>7. Fit(t)'
  BY <1>1, <1>2, <1>3, <1>4
     DEF IInv, TypeOK, Fit, Shape, Past, LockKnown, Known, StillReads, Naming, Seeing, Asked
<1>8. (\A u \in Clients \ {t} : Fit(u)') /\ StoredIsMade' /\ NamesUnique'
  BY <1>1, <1>2, <1>4, Removes DEF Readable
<1> QED
  BY <1>5, <1>6, <1>7, <1>8 DEF IInv

LEMMA WriteUpdateKeeps == ASSUME IInv, NEW t \in Clients, WriteUpdate(t) PROVE IInv'
<1> DEFINE g == job[t].g
           name == IF job[t].name = None THEN job[t].old ELSE job[t].name
           f == [rev |-> job[t].rev + 1, data |-> job[t].data, name |-> name]
           k == Answered(job[t], "head", Says("ok", job[t].rev + 1))
<1>1. /\ job[t].at = "write" /\ job[t].op = "update" /\ file' = [file EXCEPT ![g] = f]
      /\ Becomes(t, k) /\ UNCHANGED <<heads, lockOf, names, hist>>
  BY Zenon DEF WriteUpdate, Answered
<1>2. /\ Inside(t) /\ Readable(g) /\ job[t] \in Jobs /\ g \in Graphs /\ job[t].new = g
      /\ file[g].name = job[t].old /\ job[t].data \in Contents /\ name \in Names
      /\ job[t].rev + 1 \in Nat
  BY <1>1 DEF IInv, Fit, Shape, Past, Inside, StillReads, TypeOK, Jobs
<1>3. name = file[g].name \/ (names = t /\ Owners(name) \subseteq {g})
  BY <1>1, <1>2 DEF IInv, Fit, Naming
<1>4. /\ k \in Jobs /\ Asked(job[t], k) /\ k.at = "head" /\ k.lock = job[t].lock
      /\ k.data = job[t].data /\ k.new = job[t].new /\ k.old = job[t].old
  <2>1. Says("ok", job[t].rev + 1) \in [kind: Kinds, rev: Nat] /\ "head" \in Steps
    BY <1>2, Answers DEF Steps, Kinds
  <2> QED
    BY <1>2, <2>1, AnsweredType
<1>5. f \in Env /\ f.name = name /\ f # None /\ f # Damaged
  <2>1. f \in Env /\ f.name = name
    BY <1>2 DEF Env
  <2> QED
    BY <2>1, NoneAssumption
<1> HIDE DEF k, f, name
<1>6. file'[g] = f /\ \A h \in Graphs \ {g} : file'[h] = file[h]
  BY <1>1, <1>2 DEF IInv, TypeOK
<1>7. job' \in [Clients -> Jobs] /\ Others(t) /\ job'[t] = k
  BY <1>1, <1>4, Becoming DEF Others, IInv, TypeOK
<1>8. TypeOK'
  BY <1>1, <1>2, <1>5, <1>7 DEF IInv, TypeOK
<1>9. LockExclusive'
  BY <1>1, <1>4, <1>7, TakesNoLock
<1>10. Fit(t)'
  BY <1>1, <1>2, <1>4, <1>6, <1>7
     DEF IInv, TypeOK, Fit, Shape, Past, LockKnown, Known, StillReads, Naming, Seeing, Asked,
         Adding, Readable
<1>11. ASSUME NEW u \in Clients \ {t}
       PROVE  Fit(u)'
  <2>1. /\ job'[u] = job[u] /\ Fit(u) /\ job[u] \in Jobs
        /\ job[u].g = g => ~Inside(u) /\ job[u].at \notin {"unhead", "drop"}
    BY <1>2, <1>11, <1>7, Alone DEF Others, IInv, TypeOK, Readable, Fit, Known
  <2>2. LockKnown(u)' /\ Known(u)'
    BY <1>1, <1>2, <1>6, <2>1 DEF Fit, Shape, LockKnown, Known, Jobs, Readable
  <2>3. StillReads(u)'
    BY <1>1, <1>6, <2>1 DEF Fit, Shape, StillReads, Inside, Past, Readable, Jobs
  <2>4. CASE name = file[g].name
    BY <1>1, <1>2, <1>5, <1>6, <2>1, <2>2, <2>3, <2>4 DEF Fit, Naming, Seeing, Owners, Readable
  <2>5. CASE names = t
    BY <1>1, <2>1, <2>2, <2>3, <2>5 DEF Fit, Naming, Seeing, Adding
  <2> QED
    BY <1>3, <2>4, <2>5
<1>12. StoredIsMade'
  BY <1>1, <1>2, <1>6 DEF IInv, StoredIsMade, Readable
<1>13. NamesUnique'
  BY <1>2, <1>3, <1>5, <1>6 DEF IInv, NamesUnique, Owners, Readable
<1> QED
  BY <1>8, <1>9, <1>10, <1>11, <1>12, <1>13 DEF IInv

\* The answers of a request that reads its graph and stops there.
LEMMA ReadGraphEnds ==
    ASSUME IInv, NEW t \in Clients, job[t].at = "read",
           NEW answer \in [kind: Kinds, rev: Nat], Ends(t, answer),
           UNCHANGED <<file, heads, names, hist>>,
           \/ lockOf' = lockOf
           \/ file[job[t].g] = None /\ lockOf' = [lockOf EXCEPT ![job[t].g] = None]
    PROVE  IInv'
<1>1. /\ lockOf' \in [Graphs -> Locks \cup {None}]
      /\ \A g \in Graphs : file[g] # None => lockOf'[g] = lockOf[g]
  BY DEF IInv, TypeOK
<1> QED
  BY <1>1, EndsKeeps DEF IInv, TypeOK

LEMMA ReadGraphKeeps == ASSUME IInv, NEW t \in Clients, ReadGraph(t) PROVE IInv'
<1> DEFINE g == job[t].g
           f == file[g]
<1>1. job[t].at = "read" /\ UNCHANGED <<heads, names, hist>>
  BY DEF ReadGraph
<1>2. /\ job[t] \in Jobs /\ g \in Graphs /\ Inside(t) /\ job[t].op \in {"update", "delete"}
  BY <1>1 DEF IInv, TypeOK, Jobs, Fit, Shape, Inside
<1>3. CASE f = None /\ Ends(t, Says("missing", 0)) /\ lockOf' = [lockOf EXCEPT ![g] = None]
           /\ file' = file
  BY <1>1, <1>3, ReadGraphEnds, Answers DEF Kinds
<1>4. CASE f = Damaged /\ Ends(t, Says("corrupt", 0)) /\ UNCHANGED <<file, lockOf>>
  BY <1>1, <1>4, ReadGraphEnds, Answers DEF Kinds
<1>5. CASE Readable(g) /\ Ends(t, Says("conflict", f.rev)) /\ UNCHANGED <<file, lockOf>>
  <2>1. f.rev \in Nat
    BY <1>2, <1>5 DEF Readable, Env, IInv, TypeOK
  <2> QED
    BY <1>1, <1>5, <2>1, ReadGraphEnds, Answers DEF Kinds
<1>6. CASE /\ f = Damaged /\ job[t].op = "delete" /\ file' = [file EXCEPT ![g] = None]
           /\ Becomes(t, [job[t] EXCEPT !.at = "unhead", !.ans = Says("ok", 0)])
           /\ UNCHANGED lockOf
  <2> DEFINE k == Answered(job[t], "unhead", Says("ok", 0))
  <2>1. Becomes(t, k)
    BY <1>6, Zenon DEF Answered
  <2>2. /\ k \in Jobs /\ Asked(job[t], k) /\ k.at = "unhead" /\ k.lock = job[t].lock
        /\ k.data = job[t].data /\ k.new = job[t].new
    <3>1. Says("ok", 0) \in [kind: Kinds, rev: Nat] /\ "unhead" \in Steps
      BY Answers DEF Steps, Kinds
    <3> QED
      BY <1>2, <3>1, AnsweredType
  <2> HIDE DEF k
  <2>3. job' \in [Clients -> Jobs] /\ Others(t) /\ job'[t] = k
    BY <2>1, <2>2, Becoming DEF Others, IInv, TypeOK
  <2>4. file[g] # None /\ file' = [file EXCEPT ![g] = None] /\ lockOf' = lockOf
        /\ job[t].op = "delete"
    BY <1>6, NoneAssumption
  <2>5. TypeOK'
    BY <1>1, <1>2, <2>3, <2>4 DEF IInv, TypeOK
  <2>6. LockExclusive'
    BY <1>1, <2>2, <2>3, TakesNoLock
  <2>7. Fit(t)'
    BY <1>1, <1>2, <2>2, <2>3, <2>4
       DEF IInv, TypeOK, Fit, Shape, Past, LockKnown, Known, StillReads, Naming, Seeing, Asked
  <2>8. (\A u \in Clients \ {t} : Fit(u)') /\ StoredIsMade' /\ NamesUnique'
    BY <1>1, <1>2, <2>3, <2>4, Removes
  <2> QED
    BY <2>5, <2>6, <2>7, <2>8 DEF IInv
<1>7. CASE /\ Readable(g) /\ f.rev = job[t].rev /\ job[t].op = "delete" /\ Goes(t, "unlink")
           /\ UNCHANGED <<file, lockOf>>
  <2>1. /\ job' \in [Clients -> Jobs] /\ Others(t)
        /\ Asked(job[t], job'[t]) /\ job'[t].at = "unlink" /\ job'[t].data = job[t].data
        /\ job'[t].lock = job[t].lock /\ job'[t].new = job[t].new
    BY <1>7, GoesOn DEF IInv, TypeOK, Steps
  <2>2. TypeOK'
    BY <1>1, <1>7, <2>1 DEF IInv, TypeOK
  <2>3. LockExclusive'
    BY <1>1, <2>1, TakesNoLock
  <2>4. Fit(t)'
    BY <1>1, <1>2, <1>7, <2>1
       DEF IInv, Fit, Shape, Past, LockKnown, Known, StillReads, Naming, Seeing, Asked, Readable
  <2> QED
    BY <1>1, <1>7, <2>1, <2>2, <2>3, <2>4, Untouched DEF IInv
<1>8. CASE /\ Readable(g) /\ f.rev = job[t].rev /\ job[t].op = "update"
           /\ Becomes(t, [job[t] EXCEPT
                            !.at = IF job[t].name \in {None, f.name} THEN "write" ELSE "names",
                            !.old = f.name, !.new = g])
           /\ UNCHANGED <<file, lockOf>>
  <2> DEFINE next == IF job[t].name \in {None, f.name} THEN "write" ELSE "names"
             k == Found(job[t], next, f.name, g)
  <2>1. Becomes(t, k)
    BY <1>8, Zenon DEF Found
  <2>2. /\ f.name \in Names /\ next \in Steps /\ job[t].data # None
        /\ f.name # None
    BY <1>2, <1>8, NoneAssumption
       DEF IInv, TypeOK, Env, Readable, Steps, Fit, Shape
  <2>3. \/ next = "write" /\ job[t].name \in {None, f.name}
        \/ next = "names" /\ job[t].name # None
    OBVIOUS
  <2>4. /\ k \in Jobs /\ Asked(job[t], k) /\ k.at = next /\ k.lock = job[t].lock
        /\ k.data = job[t].data /\ k.new = g /\ k.old = f.name
    BY <1>2, <2>2, FoundType
  <2> HIDE DEF k, next
  <2>5. job' \in [Clients -> Jobs] /\ Others(t) /\ job'[t] = k
    BY <2>1, <2>4, Becoming DEF Others, IInv, TypeOK
  <2>6. TypeOK'
    BY <1>1, <1>8, <2>5 DEF IInv, TypeOK
  <2>7. LockExclusive'
    BY <1>1, <2>4, <2>5, TakesNoLock
  <2>8. Shape(job[t])' /\ LockKnown(t)' /\ Known(t)'
    BY <1>1, <1>2, <1>8, <2>2, <2>3, <2>4, <2>5
       DEF IInv, Fit, Shape, Past, LockKnown, Known, Inside, Asked, Adding
  <2>9. StillReads(t)' /\ Naming(t)' /\ Seeing(t)'
    BY <1>1, <1>8, <2>3, <2>4, <2>5
       DEF StillReads, Naming, Seeing, Asked, Adding, Readable
  <2> QED
    BY <1>1, <1>8, <2>5, <2>6, <2>7, <2>8, <2>9, Untouched DEF IInv, Fit
<1> QED
  BY <1>3, <1>4, <1>5, <1>6, <1>7, <1>8, Zenon DEF ReadGraph

\* A graph never given out before, stored under a free name by the request that holds
\* the lock of the names, leaves what the others know.
LEMMA AddsOne ==
    ASSUME IInv, NEW t \in Clients, Others(t), names = t, names' = names, lockOf' = lockOf,
           NEW g \in Graphs, g \notin hist.made, NEW f \in Env, Owners(f.name) = {},
           file' = [file EXCEPT ![g] = f], hist' = [hist EXCEPT !.made = @ \cup {g}]
    PROVE  /\ \A u \in Clients \ {t} : Fit(u)'
           /\ StoredIsMade' /\ NamesUnique'
           /\ file' \in [Graphs -> Env \cup {None, Damaged}]
           /\ hist' \in [made: SUBSET Graphs, faults: 0..MaxFault]
           /\ hist'.made = hist.made \cup {g}
<1>1. /\ file'[g] = f /\ (\A h \in Graphs \ {g} : file'[h] = file[h])
      /\ file[g] = None /\ Readable(g)' /\ hist'.made = hist.made \cup {g}
  BY NoneAssumption DEF IInv, TypeOK, StoredIsMade, Readable
<1>2. ASSUME NEW u \in Clients \ {t}
      PROVE  Fit(u)'
  <2>1. /\ job'[u] = job[u] /\ Fit(u) /\ job[u] \in Jobs /\ names' # u
        /\ job[u].g # None => job[u].g \in hist.made /\ job[u].g # g
    BY <1>2 DEF Others, IInv, TypeOK, Fit, Known
  <2>2. LockKnown(u)' /\ Known(u)'
    BY <1>1, <2>1 DEF Fit, Shape, LockKnown, Known, Jobs
  <2>3. StillReads(u)'
    BY <1>1, <2>1 DEF Fit, Shape, StillReads, Past, Readable, Jobs
  <2>4. Naming(u)' /\ Seeing(u)'
    BY <2>1 DEF Fit, Naming, Seeing, Adding
  <2> QED
    BY <2>1, <2>2, <2>3, <2>4 DEF Fit
<1>3. StoredIsMade' /\ NamesUnique'
  BY <1>1 DEF IInv, StoredIsMade, NamesUnique, Owners, Readable
<1>4. /\ file' \in [Graphs -> Env \cup {None, Damaged}]
      /\ hist' \in [made: SUBSET Graphs, faults: 0..MaxFault]
  BY DEF IInv, TypeOK
<1> QED
  BY <1>1, <1>2, <1>3, <1>4

LEMMA WriteNewKeeps == ASSUME IInv, NEW t \in Clients, WriteNew(t) PROVE IInv'
<1> DEFINE f == [rev |-> 1, name |-> job[t].name, data |-> job[t].data]
<1>1. PICK g \in Graphs \ hist.made :
        /\ job[t].at = "write" /\ job[t].op \in {"create", "copy"}
        /\ file' = [file EXCEPT ![g] = f] /\ hist' = [hist EXCEPT !.made = @ \cup {g}]
        /\ Becomes(t, Stores(job[t], g, Says("ok", 1)))
        /\ UNCHANGED <<heads, lockOf, names>>
  BY Zenon DEF WriteNew, Stores
<1>2. /\ job[t] \in Jobs /\ job[t].name \in Names /\ job[t].data \in Contents /\ names = t
      /\ job[t].new = None /\ Owners(job[t].name) \subseteq {job[t].new}
  BY <1>1 DEF IInv, TypeOK, Jobs, Fit, Shape, Naming, Adding
<1>3. f \in Env /\ f.name = job[t].name /\ Owners(job[t].name) = {}
  BY <1>2, NoneAssumption DEF Env, Owners
<1> DEFINE k == Stores(job[t], g, Says("ok", 1))
<1>4. /\ k \in Jobs /\ Asked(job[t], k) /\ k.at = "head" /\ k.lock = job[t].lock
      /\ k.data = job[t].data /\ k.new = g
  <2>1. Says("ok", 1) \in [kind: Kinds, rev: Nat]
    BY Answers DEF Kinds
  <2> QED
    BY <1>2, <2>1, StoresType
<1> HIDE DEF k, f
<1>5. job' \in [Clients -> Jobs] /\ Others(t) /\ job'[t] = k
  BY <1>1, <1>4, Becoming DEF Others, IInv, TypeOK, k
<1>6. /\ \A u \in Clients \ {t} : Fit(u)'
      /\ StoredIsMade' /\ NamesUnique'
      /\ file' \in [Graphs -> Env \cup {None, Damaged}]
      /\ hist' \in [made: SUBSET Graphs, faults: 0..MaxFault]
      /\ hist'.made = hist.made \cup {g}
  BY <1>1, <1>2, <1>3, <1>5, AddsOne
<1>7. TypeOK'
  BY <1>1, <1>5, <1>6 DEF IInv, TypeOK
<1>8. LockExclusive'
  BY <1>1, <1>4, <1>5, TakesNoLock
<1>9. Fit(t)'
  <2>1. Shape(job[t])' /\ Known(t)'
    BY <1>1, <1>2, <1>4, <1>5, <1>6, NoneAssumption
       DEF IInv, Fit, Shape, Past, Known, Asked, Adding
  <2>2. LockKnown(t)'
    BY <1>1, <1>4, <1>5 DEF IInv, TypeOK, Jobs, Fit, Shape, Known, LockKnown, Asked
  <2>3. StillReads(t)' /\ Naming(t)' /\ Seeing(t)'
    BY <1>1, <1>2, <1>4, <1>5
       DEF Past, StillReads, Naming, Seeing, Asked, Adding
  <2> QED
    BY <2>1, <2>2, <2>3 DEF Fit
<1> QED
  BY <1>6, <1>7, <1>8, <1>9 DEF IInv

LEMMA SeedOneKeeps == ASSUME IInv, NEW t \in Clients, SeedOne(t) PROVE IInv'
<1>1. job[t].at = "write" /\ job[t].op = "seed" /\ UNCHANGED <<heads, lockOf, names>>
  BY DEF SeedOne
<1>2. job[t] \in Jobs /\ names = t
  BY <1>1 DEF IInv, TypeOK, Fit, Naming, Adding
<1>3. CASE \E n \in job[t].left : Becomes(t, Skips(job[t], n)) /\ UNCHANGED <<file, hist>>
  <2>1. PICK n \in job[t].left : Becomes(t, Skips(job[t], n)) /\ UNCHANGED <<file, hist>>
    BY <1>3
  <2> DEFINE k == Skips(job[t], n)
  <2>2. /\ k \in Jobs /\ Asked(job[t], k) /\ k.at = job[t].at /\ k.data = job[t].data
        /\ k.seen = job[t].seen /\ k.lock = job[t].lock /\ k.new = job[t].new
        /\ k.old = job[t].old
    BY <1>2, SkipsType
  <2> HIDE DEF k
  <2>3. job' \in [Clients -> Jobs] /\ Others(t) /\ job'[t] = k
    BY <2>1, <2>2, Becoming DEF Others, IInv, TypeOK, k
  <2>4. TypeOK'
    BY <1>1, <2>1, <2>3 DEF IInv, TypeOK
  <2>5. LockExclusive'
    BY <1>1, <2>2, <2>3, TakesNoLock
  <2>6. Fit(t)'
    BY <1>1, <2>1, <2>2, <2>3
       DEF IInv, Fit, Shape, Past, LockKnown, Known, StillReads, Naming, Seeing, Asked, Adding,
           Readable
  <2> QED
    BY <1>1, <2>1, <2>3, <2>4, <2>5, <2>6, Untouched DEF IInv
<1>4. CASE \E n \in job[t].left, g \in Graphs \ hist.made : \E name \in SeedNames[n] :
              /\ \A e \in job[t].seen : e.name # name
              /\ file' = [file EXCEPT ![g] = [rev |-> 1, name |-> name, data |-> n]]
              /\ hist' = [hist EXCEPT !.made = @ \cup {g}]
              /\ Becomes(t, Adds(job[t], g, name, job[t].left \ {n},
                                 job[t].seen \cup {[name |-> name, data |-> n]}))
  <2>1. PICK n \in job[t].left, g \in Graphs \ hist.made : \E name \in SeedNames[n] :
              /\ \A e \in job[t].seen : e.name # name
              /\ file' = [file EXCEPT ![g] = [rev |-> 1, name |-> name, data |-> n]]
              /\ hist' = [hist EXCEPT !.made = @ \cup {g}]
              /\ Becomes(t, Adds(job[t], g, name, job[t].left \ {n},
                                 job[t].seen \cup {[name |-> name, data |-> n]}))
    BY <1>4
  <2>2. PICK name \in SeedNames[n] :
              /\ \A e \in job[t].seen : e.name # name
              /\ file' = [file EXCEPT ![g] = [rev |-> 1, name |-> name, data |-> n]]
              /\ hist' = [hist EXCEPT !.made = @ \cup {g}]
              /\ Becomes(t, Adds(job[t], g, name, job[t].left \ {n},
                                 job[t].seen \cup {[name |-> name, data |-> n]}))
    BY <2>1
  <2> DEFINE e == [name |-> name, data |-> n]
             f == [rev |-> 1, name |-> name, data |-> n]
             k == Adds(job[t], g, name, job[t].left \ {n}, job[t].seen \cup {e})
  <2>3. /\ n \in Legacy /\ n \in Contents /\ name \in Names
    BY <1>2, <2>2, LegacyAssumption DEF Jobs
  <2>4. /\ f \in Env /\ f.name = name /\ f # None /\ f # Damaged
        /\ e.name = name /\ e \in Seen
        /\ job[t].left \ {n} \in SUBSET Legacy
    BY <1>2, <2>3, NoneAssumption DEF Env, Seen, Jobs
  <2>5. job[t].seen \cup {e} \in SUBSET Seen
    BY <1>2, <2>4 DEF Jobs
  <2>6. Owners(name) = {}
    BY <1>1, <2>2 DEF IInv, Fit, Seeing, Owners
  <2> HIDE DEF e, f
  <2>7. /\ k \in Jobs /\ Asked(job[t], k) /\ k.at = "head" /\ k.data = job[t].data
        /\ k.seen = job[t].seen \cup {e} /\ k.lock = job[t].lock /\ k.new = g /\ k.old = name
    BY <1>2, <2>3, <2>4, <2>5, AddsType
  <2>8. Becomes(t, k) /\ file' = [file EXCEPT ![g] = f]
        /\ hist' = [hist EXCEPT !.made = @ \cup {g}]
    BY <2>2, Zenon DEF e, f
  <2> HIDE DEF k
  <2>9. job' \in [Clients -> Jobs] /\ Others(t) /\ job'[t] = k
    BY <2>7, <2>8, Becoming DEF Others, IInv, TypeOK
  <2>10. /\ \A u \in Clients \ {t} : Fit(u)'
         /\ StoredIsMade' /\ NamesUnique'
         /\ file' \in [Graphs -> Env \cup {None, Damaged}]
         /\ hist' \in [made: SUBSET Graphs, faults: 0..MaxFault]
         /\ hist'.made = hist.made \cup {g}
    BY <1>1, <1>2, <2>4, <2>6, <2>8, <2>9, AddsOne
  <2>11. TypeOK'
    BY <1>1, <2>9, <2>10 DEF IInv, TypeOK
  <2>12. LockExclusive'
    BY <1>1, <2>7, <2>9, TakesNoLock
  <2>13. Fit(t)'
    <3>1. Shape(job[t])' /\ Known(t)'
      BY <1>1, <2>3, <2>7, <2>9, <2>10, NoneAssumption
         DEF IInv, Fit, Shape, Past, Known, Asked, Adding
    <3>2. LockKnown(t)'
      BY <1>1, <2>7, <2>8, <2>9 DEF IInv, TypeOK, Jobs, Fit, Shape, Known, LockKnown, Asked
    <3>3. StillReads(t)' /\ Naming(t)'
      BY <1>1, <1>2, <2>7, <2>9 DEF Past, StillReads, Naming, Asked, Adding
    <3>4. Seeing(t)'
      <4>1. /\ file'[g] = f /\ \A h \in Graphs \ {g} : file'[h] = file[h]
        BY <2>8 DEF IInv, TypeOK
      <4> QED
        BY <1>1, <2>4, <2>7, <2>9, <4>1 DEF IInv, Fit, Seeing, Readable, Asked
    <3> QED
      BY <3>1, <3>2, <3>3, <3>4 DEF Fit
  <2> QED
    BY <2>10, <2>11, <2>12, <2>13 DEF IInv
<1> QED
  BY <1>3, <1>4, Zenon DEF SeedOne, Skips, Adds

-----------------------------------------------------------------------------
(* Faults, and the induction.                                              *)

LEMMA DamageKeeps == ASSUME IInv, NEW g \in Graphs, Damage(g) PROVE IInv'
<1>1. /\ Readable(g) /\ UNCHANGED <<heads, lockOf, names, job>>
      /\ \A t \in Clients : g \in {job[t].g, job[t].new} => job[t].at \in {"lock", "wait", "done"}
      /\ hist.faults < MaxFault /\ hist' = [hist EXCEPT !.faults = @ + 1]
  BY DEF Damage
<1>2. /\ file'[g] = Damaged /\ (\A h \in Graphs \ {g} : file'[h] = file[h])
      /\ file' \in [Graphs -> Env \cup {None, Damaged}]
  BY DEF Damage, IInv, TypeOK
<1>3. TypeOK' /\ hist'.made = hist.made
  BY <1>1, <1>2, BoundAssumption DEF IInv, TypeOK
<1>4. \A h \in Graphs : Readable(h)' => Readable(h) /\ file'[h] = file[h]
  BY <1>2 DEF Readable
<1>5. LockExclusive' /\ StoredIsMade' /\ NamesUnique'
  BY <1>1, <1>2, <1>3, <1>4
     DEF IInv, LockExclusive, Inside, StoredIsMade, NamesUnique, Readable
<1>6. ASSUME NEW u \in Clients
      PROVE  Fit(u)'
  <2>1. job'[u] = job[u] /\ Fit(u) /\ job[u] \in Jobs /\ file[g] # None
    BY <1>1, <1>6 DEF IInv, TypeOK, Readable
  <2>2. LockKnown(u)' /\ Known(u)'
    BY <1>1, <1>2, <1>3, <2>1 DEF Fit, Shape, LockKnown, Known, Jobs
  <2>3. StillReads(u)'
    BY <1>1, <1>2, <2>1 DEF Fit, Shape, StillReads, Past, Readable, Jobs
  <2>4. Naming(u)' /\ Seeing(u)'
    BY <1>1, <1>4, <2>1 DEF Fit, Naming, Seeing, Owners
  <2> QED
    BY <2>1, <2>2, <2>3, <2>4 DEF Fit
<1> QED
  BY <1>3, <1>5, <1>6 DEF IInv

\* Requests that are not there know nothing.
LEMMA AllIdle ==
    ASSUME job = [t \in Clients |-> Idle]
    PROVE  LockExclusive /\ (\A t \in Clients : Fit(t)) /\ job \in [Clients -> Jobs]
  BY IdleType
     DEF LockExclusive, Inside, Fit, Shape, Past, LockKnown, Known, StillReads, Naming, Seeing

LEMMA HeadsFill ==
    ASSUME NEW f \in [Graphs -> Env \cup {None, Damaged}]
    PROVE  [g \in Graphs |-> HeadOf(f[g])] \in [Graphs -> [rev: Nat, name: Names] \cup {None}]
  BY DEF HeadOf, Env

LEMMA CrashKeeps == ASSUME IInv, Crash PROVE IInv'
<1>1. /\ hist' = [hist EXCEPT !.faults = @ + 1] /\ hist.faults < MaxFault
      /\ heads' = [g \in Graphs |-> HeadOf(file[g])]
      /\ lockOf' = [g \in Graphs |-> None] /\ names' = None
      /\ job' = [t \in Clients |-> Idle] /\ file' = file
  BY DEF Crash
<1>2. (LockExclusive /\ (\A t \in Clients : Fit(t)) /\ job \in [Clients -> Jobs])'
  BY <1>1, IdleType
     DEF LockExclusive, Inside, Fit, Shape, Past, LockKnown, Known, StillReads, Naming, Seeing
<1>3. heads' \in [Graphs -> [rev: Nat, name: Names] \cup {None}]
  BY <1>1, HeadsFill DEF IInv, TypeOK
<1>4. TypeOK'
  BY <1>1, <1>2, <1>3, BoundAssumption DEF IInv, TypeOK
<1>5. StoredIsMade' /\ NamesUnique'
  BY <1>1 DEF IInv, TypeOK, StoredIsMade, NamesUnique, Readable
<1> QED
  BY <1>2, <1>4, <1>5 DEF IInv

LEMMA InitHolds == Init => IInv
<1> SUFFICES ASSUME Init PROVE IInv
  OBVIOUS
<1> DEFINE d == CHOOSE c \in Contents : TRUE
<1>1. PICK bad \in SUBSET DOMAIN First :
        file = [g \in Graphs |-> IF g \in bad THEN Damaged
                                 ELSE IF g \in DOMAIN First
                                 THEN [rev |-> 1, name |-> First[g], data |-> d] ELSE None]
  BY Zenon DEF Init
<1>2. d \in Contents
  BY ContentsAssumption
<1> HIDE DEF d
<1>3. file \in [Graphs -> Env \cup {None, Damaged}]
  BY <1>1, <1>2, FirstAssumption DEF Env
<1>4. TypeOK
  <2>1. heads \in [Graphs -> [rev: Nat, name: Names] \cup {None}]
    BY <1>3, HeadsFill DEF Init
  <2>2. job \in [Clients -> Jobs]
    BY AllIdle DEF Init
  <2>3. /\ lockOf \in [Graphs -> Locks \cup {None}] /\ names = None
        /\ hist \in [made: SUBSET Graphs, faults: 0..MaxFault]
    BY FirstAssumption, BoundAssumption DEF Init
  <2> QED
    BY <1>3, <2>1, <2>2, <2>3 DEF TypeOK
<1>5. StoredIsMade
  BY <1>1 DEF Init, StoredIsMade
<1>6. NamesUnique
  BY <1>1, FirstAssumption DEF NamesUnique, Readable
<1> QED
  BY <1>4, <1>5, <1>6, AllIdle DEF Init, IInv

LEMMA StepKeeps == IInv /\ [Next]_vars => IInv'
<1> SUFFICES ASSUME IInv, [Next]_vars PROVE IInv'
  OBVIOUS
<1>1. ASSUME NEW t \in Clients, Step(t) PROVE IInv'
  BY <1>1, AskKeeps, ReadSourceKeeps, FindLockKeeps, TakeLockKeeps, ReadGraphKeeps,
     TakeNamesKeeps, CheckNameKeeps, WriteUpdateKeeps, WriteNewKeeps, WriteFailsKeeps,
     SeedOneKeeps, SeedEndsKeeps, SetHeadKeeps, UnlinkKeeps, DropHeadKeeps, DropLockKeeps,
     ReturnKeeps, Zenon DEF Step
<1>2. CASE UNCHANGED vars
  BY <1>2
     DEF vars, IInv, TypeOK, LockExclusive, Inside, StoredIsMade, NamesUnique, Readable, Fit,
         LockKnown, Known, StillReads, Naming, Seeing, Owners
<1> QED
  BY <1>1, <1>2, DamageKeeps, CrashKeeps, Zenon DEF Next

LEMMA Inductive == Spec => []IInv
  BY InitHolds, StepKeeps, PTL DEF Spec

-----------------------------------------------------------------------------
(* The theorems.                                                           *)

\* Every state of the store is well typed: no head is kept of a file that cannot be read,
\* and no request ends up with a lock, a name or an answer that is none.
THEOREM TypeCorrect == Spec => []TypeOK
  BY Inductive, PTL DEF IInv

\* No two requests are past the lock of one stored graph at the same time, though the map
\* of locks forgets those of deleted and missing graphs (storage.py _lock_for,
\* _drop_lock).
THEOREM OneAtATime == Spec => []OneInside
<1>1. IInv => OneInside
  BY DEF IInv, Fit, LockKnown, LockExclusive, OneInside, Inside
<1> QED
  BY <1>1, Inductive, PTL

\* No two stored graphs share a name, whatever creates, renames, copies and imports
\* overlap, and whatever fails (storage.py _names_lock).
THEOREM NamesStayUnique == Spec => []NamesUnique
  BY Inductive, PTL DEF IInv

-----------------------------------------------------------------------------
(* The index of heads.                                                     *)

\* What a request that wrote a file will put into the index.
HeadNow(j) == [rev |-> IF j.op = "update" THEN j.rev + 1 ELSE 1,
               name |-> IF j.name = None THEN j.old ELSE j.name]

\* It is what the file says, and nobody else is on a graph that was just made.
HeadFits(t) ==
    job[t].at = "head" =>
        /\ Readable(job[t].new) /\ HeadOf(file[job[t].new]) = HeadNow(job[t])
        /\ job[t].op # "update" => \A u \in Clients \ {t} : job[u].g # job[t].new

\* A request has changed the file of g and has the index still to change.
Owes(t, g) ==
    \/ job[t].at = "head" /\ job[t].new = g
    \/ job[t].at = "unhead" /\ job[t].g = g

HeadsKept == \A g \in Graphs :
    file[g] # Damaged => heads[g] = HeadOf(file[g]) \/ \E t \in Clients : Owes(t, g)

HInv == IInv /\ HeadsKept /\ \A t \in Clients : HeadFits(t)

\* A step that changes neither files nor the index.
LEMMA NothingWritten ==
    ASSUME HInv, NEW t \in Clients, Others(t), file' = file, heads' = heads,
           job[t].at \notin {"head", "unhead"}, job'[t].at # "head",
           \/ job'[t].g = job[t].g
           \/ \A u \in Clients \ {t} : job[u].at = "head" /\ job[u].op # "update"
                                           => job[u].new # job'[t].g
    PROVE  HeadsKept' /\ \A u \in Clients : HeadFits(u)'
<1>1. HeadsKept'
    BY DEF HInv, HeadsKept, Owes, Others
<1>2. ASSUME NEW u \in Clients PROVE HeadFits(u)'
    <2>1. CASE u = t
        BY <2>1 DEF HeadFits
    <2>2. CASE u # t
        <3>1. job'[u] = job[u] /\ HeadFits(u)
            BY <2>2 DEF Others, HInv
        <3>2. ASSUME job[u].at = "head", job[u].op # "update", NEW v \in Clients \ {u}
              PROVE  job'[v].g # job[u].new
            <4>1. CASE v = t
                BY <2>2, <3>1, <3>2, <4>1 DEF HeadFits
            <4>2. CASE v # t
                BY <3>1, <3>2, <4>2 DEF HeadFits, Others
            <4> QED
                BY <4>1, <4>2
        <3> QED
            BY <3>1, <3>2 DEF HeadFits, Readable
    <2> QED
        BY <2>1, <2>2
<1> QED
    BY <1>1, <1>2

\* Who is past the lock of a stored graph is the only one with a word on its head.
LEMMA AloneHead ==
    ASSUME HInv, NEW t \in Clients, Inside(t), file[job[t].g] # None
    PROVE  \A u \in Clients \ {t} : job[u].at = "head" => job[u].new # job[t].g
<1> SUFFICES ASSUME NEW u \in Clients \ {t}, job[u].at = "head" PROVE job[u].new # job[t].g
    OBVIOUS
<1>1. Fit(u) /\ HeadFits(u)
    BY DEF HInv, IInv
<1>2. CASE job[u].op = "update"
    <2>1. Inside(u) /\ job[u].new = job[u].g
        BY <1>1, <1>2 DEF Fit, Shape, Past, Inside
    <2> QED
        BY <2>1, Alone DEF HInv
<1>3. CASE job[u].op # "update"
    BY <1>1, <1>3 DEF HeadFits
<1> QED
    BY <1>2, <1>3

\* A request on g changes its file, and owes its head.
LEMMA Changed ==
    ASSUME HInv, NEW t \in Clients, Others(t), heads' = heads, NEW g \in Graphs,
           \A h \in Graphs \ {g} : file'[h] = file[h],
           job[t].at \notin {"head", "unhead"}, job'[t].g = job[t].g, Owes(t, g)',
           \A u \in Clients \ {t} : job[u].at = "head" => job[u].new # g
    PROVE  HeadsKept' /\ \A u \in Clients \ {t} : HeadFits(u)'
<1>1. HeadsKept'
    <2> SUFFICES ASSUME NEW h \in Graphs, file'[h] # Damaged
                 PROVE  heads'[h] = HeadOf(file'[h]) \/ \E u \in Clients : Owes(u, h)'
        BY DEF HeadsKept
    <2>1. CASE h = g
        BY <2>1
    <2>2. CASE h # g
        <3>1. CASE heads[h] = HeadOf(file[h])
            BY <2>2, <3>1
        <3>2. CASE \E u \in Clients : Owes(u, h)
            BY <3>2 DEF Owes, Others
        <3> QED
            BY <2>2, <3>1, <3>2 DEF HInv, HeadsKept
    <2> QED
        BY <2>1, <2>2
<1>2. ASSUME NEW u \in Clients \ {t} PROVE HeadFits(u)'
    <2>1. job'[u] = job[u] /\ HeadFits(u) /\ job[u] \in Jobs
        BY DEF Others, HInv, IInv, TypeOK
    <2>2. ASSUME job[u].at = "head" PROVE job[u].new \in Graphs /\ file'[job[u].new] = file[job[u].new]
        BY <2>1, <2>2 DEF HInv, IInv, Fit, Shape, Jobs
    <2>3. ASSUME job[u].at = "head", job[u].op # "update", NEW v \in Clients \ {u}
          PROVE  job'[v].g # job[u].new
        BY <2>1, <2>3 DEF HeadFits, Others
    <2> QED
        BY <2>1, <2>2, <2>3 DEF HeadFits, Readable
<1> QED
    BY <1>1, <1>2

\* A graph never given out before is nobody's.
LEMMA Unheard ==
    ASSUME HInv, NEW g \in Graphs, g \notin hist.made
    PROVE  \A u \in Clients : job[u].g # g /\ job[u].new # g
BY NoneAssumption DEF HInv, IInv, Fit, Known
HeadsHold == HeadsKept /\ \A t \in Clients : HeadFits(t)

LEMMA MoveHolds ==
    ASSUME HInv, NEW t \in Clients,
           ReadSource(t) \/ FindLock(t) \/ TakeLock(t) \/ TakeNames(t) \/ CheckName(t)
    PROVE  HeadsHold'
<1>1. file' = file /\ heads' = heads /\ job[t] \in Jobs /\ job \in [Clients -> Jobs]
    BY DEF HInv, IInv, TypeOK, ReadSource, FindLock, TakeLock, TakeNames, CheckName
<1>2. /\ Others(t) /\ job'[t].g = job[t].g
      /\ job[t].at \notin {"head", "unhead"} /\ job'[t].at # "head"
    <2>1. CASE ReadSource(t)
        <3>1. CASE \E kind \in Kinds : Ends(t, Says(kind, 0))
            BY <1>1, <2>1, <3>1, EndsHere, Answers DEF ReadSource, Asked
        <3>2. CASE \E d : Becomes(t, [job[t] EXCEPT !.at = "names", !.data = d])
            BY <1>1, <2>1, <3>2 DEF ReadSource, Becomes, Others, Jobs
        <3> QED
            BY <2>1, <3>1, <3>2, Zenon DEF ReadSource, Kinds
    <2>2. CASE FindLock(t)
        BY <1>1, <2>2 DEF FindLock, Becomes, Others, Jobs
    <2>3. CASE TakeLock(t)
        BY <1>1, <2>3, GoesOn DEF TakeLock, Asked, Steps
    <2>4. CASE TakeNames(t)
        BY <1>1, <2>4 DEF TakeNames, Becomes, Others, Jobs
    <2>5. CASE CheckName(t)
        <3>1. CASE Ends(t, Says("taken", 0))
            BY <1>1, <2>5, <3>1, EndsHere, Answers DEF CheckName, Asked, Kinds
        <3>2. CASE Goes(t, "write")
            BY <1>1, <2>5, <3>2, GoesOn DEF CheckName, Asked, Steps
        <3> QED
            BY <2>5, <3>1, <3>2 DEF CheckName
    <2> QED
        BY <2>1, <2>2, <2>3, <2>4, <2>5
<1> QED
    BY <1>1, <1>2, NothingWritten DEF HeadsHold

LEMMA EndHolds ==
    ASSUME HInv, NEW t \in Clients,
           WriteFails(t) \/ SeedEnds(t) \/ DropLock(t) \/ Return(t)
    PROVE  HeadsHold'
<1>1. file' = file /\ heads' = heads /\ job[t] \in Jobs /\ job \in [Clients -> Jobs]
    BY DEF HInv, IInv, TypeOK, WriteFails, SeedEnds, DropLock, Return
<1>2. CASE WriteFails(t) \/ SeedEnds(t) \/ DropLock(t)
    <2>1. \E answer \in [kind: Kinds, rev: Nat] : Ends(t, answer)
        BY <1>1, <1>2, Answers DEF WriteFails, SeedEnds, DropLock, Jobs, Kinds
    <2>2. Others(t) /\ job'[t].g = job[t].g /\ job'[t].at = "done"
        BY <1>1, <2>1, EndsHere DEF Asked
    <2>3. job[t].at \notin {"head", "unhead"}
        BY <1>2 DEF WriteFails, SeedEnds, DropLock
    <2> QED
        BY <1>1, <2>2, <2>3, NothingWritten DEF HeadsHold
<1>3. CASE Return(t)
    <2>1. job' \in [Clients -> Jobs] /\ job'[t] = Idle /\ Others(t) /\ job[t].at = "done"
        BY <1>1, <1>3, IdleType, Becoming DEF Return, Others
    <2>2. ASSUME NEW u \in Clients \ {t}, job[u].at = "head" PROVE job[u].new # None
        BY <2>2 DEF HInv, IInv, Fit, Shape
    <2> QED
        BY <1>1, <2>1, <2>2, IdleType, NothingWritten DEF HeadsHold
<1> QED
    BY <1>2, <1>3

\* A graph whose creator has not answered yet is not asked about.
LEMMA AskHolds == ASSUME HInv, ~EarlyUse, NEW t \in Clients, Ask(t) PROVE HeadsHold'
<1>1. PICK k : Fresh(k) /\ Becomes(t, k)
    BY AskIsFresh DEF HInv
<1>2. file' = file /\ heads' = heads /\ job[t].at = "idle"
    BY DEF Ask
<1>3. job' \in [Clients -> Jobs] /\ Others(t) /\ job'[t] = k
    BY <1>1, Becoming DEF Others, HInv, IInv, TypeOK, Fresh
<1>4. job'[t].g = None \/ Usable(job'[t].g)
    <2>1. ASSUME NEW at, NEW op, NEW name, NEW data,
                 Becomes(t, [Idle EXCEPT !.at = at, !.op = op, !.name = name, !.data = data])
          PROVE  job'[t].g = None
        BY <2>1 DEF HInv, IInv, TypeOK, Becomes, Idle
    <2>2. ASSUME NEW g \in Graphs, Usable(g), NEW at, NEW op, NEW name, NEW rev, NEW data,
                 \/ Becomes(t, [Idle EXCEPT !.at = at, !.op = op, !.name = name, !.g = g])
                 \/ Becomes(t, [Idle EXCEPT !.at = at, !.op = op, !.g = g, !.rev = rev,
                                            !.name = name, !.data = data])
                 \/ Becomes(t, [Idle EXCEPT !.at = at, !.op = op, !.g = g, !.rev = rev])
          PROVE  Usable(job'[t].g)
        <3>1. job'[t].g = g
            <4>1. ASSUME NEW j, j.g = g, Becomes(t, j) PROVE job'[t].g = g
                BY <4>1 DEF HInv, IInv, TypeOK, Becomes
            <4>2. /\ [Idle EXCEPT !.at = at, !.op = op, !.name = name, !.g = g].g = g
                  /\ [Idle EXCEPT !.at = at, !.op = op, !.g = g, !.rev = rev,
                                  !.name = name, !.data = data].g = g
                  /\ [Idle EXCEPT !.at = at, !.op = op, !.g = g, !.rev = rev].g = g
                BY DEF Idle
            <4> QED
                BY <2>2, <4>1, <4>2, Zenon
        <3> QED
            BY <2>2, <3>1
    <2>3. ASSUME Becomes(t, [Idle EXCEPT !.at = "names", !.op = "seed", !.left = Legacy])
          PROVE  job'[t].g = None
        BY <2>3 DEF HInv, IInv, TypeOK, Becomes, Idle
    <2> QED
        BY <2>1, <2>2, <2>3, Zenon DEF Ask
<1>5. ASSUME NEW u \in Clients \ {t}, job[u].at = "head", job[u].op # "update"
      PROVE  job[u].new # job'[t].g
    <2>1. job[u].new # None
        BY <1>5 DEF HInv, IInv, Fit, Shape
    <2> QED
        BY <1>4, <1>5, <2>1 DEF Usable, Making
<1>6. k.at # "head"
    BY <1>1 DEF Fresh
<1> QED
    BY <1>2, <1>3, <1>5, <1>6, NothingWritten DEF HeadsHold

LEMMA ReadHolds == ASSUME HInv, NEW t \in Clients, ReadGraph(t) PROVE HeadsHold'
<1> DEFINE g == job[t].g
           f == file[g]
<1>1. job[t].at = "read" /\ heads' = heads /\ job[t] \in Jobs /\ job \in [Clients -> Jobs]
    BY DEF ReadGraph, HInv, IInv, TypeOK
<1>2. g \in Graphs /\ Inside(t)
    BY <1>1 DEF HInv, IInv, Jobs, Fit, Shape, Inside
<1>3. CASE /\ f = Damaged /\ file' = [file EXCEPT ![g] = None]
           /\ Becomes(t, [job[t] EXCEPT !.at = "unhead", !.ans = Says("ok", 0)])
    <2>1. Others(t) /\ job'[t].g = job[t].g /\ job'[t].at = "unhead"
        BY <1>1, <1>3 DEF Becomes, Others, Jobs
    <2>2. \A h \in Graphs \ {g} : file'[h] = file[h]
        BY <1>2, <1>3 DEF HInv, IInv, TypeOK
    <2>3. Owes(t, g)' /\ job[t].at \notin {"head", "unhead"} /\ file[g] # None
        BY <1>1, <1>3, <2>1, NoneAssumption DEF Owes
    <2>4. \A u \in Clients \ {t} : job[u].at = "head" => job[u].new # g
        BY <1>2, <2>3, AloneHead
    <2>5. HeadsKept' /\ \A u \in Clients \ {t} : HeadFits(u)'
        BY <1>1, <1>2, <2>1, <2>2, <2>3, <2>4, Changed
    <2>6. HeadFits(t)'
        BY <2>1 DEF HeadFits
    <2> QED
        BY <2>5, <2>6 DEF HeadsHold
<1>4. CASE /\ file' = file
           /\ \/ \E kind \in Kinds, rev \in Nat : Ends(t, Says(kind, rev))
              \/ Goes(t, "unlink")
              \/ \E at \in {"write", "names"} : \E old :
                    Becomes(t, [job[t] EXCEPT !.at = at, !.old = old, !.new = g])
    <2>1. Others(t) /\ job'[t].g = job[t].g /\ job'[t].at # "head"
        <3>1. CASE \E kind \in Kinds, rev \in Nat : Ends(t, Says(kind, rev))
            BY <1>1, <3>1, EndsHere, Answers DEF Asked
        <3>2. CASE Goes(t, "unlink")
            BY <1>1, <3>2, GoesOn DEF Asked, Steps
        <3>3. CASE \E at \in {"write", "names"} : \E old :
                    Becomes(t, [job[t] EXCEPT !.at = at, !.old = old, !.new = g])
            BY <1>1, <3>3 DEF Becomes, Others, Jobs
        <3> QED
            BY <1>4, <3>1, <3>2, <3>3
    <2> QED
        BY <1>1, <1>4, <2>1, NothingWritten DEF HeadsHold
<1>5. Readable(g) => f.rev \in Nat
    BY <1>2 DEF HInv, IInv, TypeOK, Env, Readable
<1>6. 0 \in Nat /\ {"missing", "corrupt", "conflict"} \subseteq Kinds
    BY DEF Kinds
<1>7. (IF job[t].name \in {None, f.name} THEN "write" ELSE "names") \in {"write", "names"}
    OBVIOUS
<1> QED
    BY <1>3, <1>4, <1>5, <1>6, <1>7, Zenon DEF ReadGraph

LEMMA UnlinkHolds == ASSUME HInv, NEW t \in Clients, Unlink(t) PROVE HeadsHold'
<1> DEFINE g == job[t].g
<1>1. job[t].at = "unlink" /\ heads' = heads /\ job[t] \in Jobs /\ job \in [Clients -> Jobs]
    BY DEF Unlink, HInv, IInv, TypeOK
<1>2. g \in Graphs /\ Inside(t) /\ file[g] # None
    BY <1>1 DEF HInv, IInv, Jobs, Fit, Shape, Inside, StillReads, Readable
<1>3. Others(t) /\ job'[t].g = job[t].g /\ job'[t].at = "unhead"
    BY <1>1 DEF Unlink, Becomes, Others, Jobs
<1>4. \A h \in Graphs \ {g} : file'[h] = file[h]
    BY <1>2 DEF Unlink, HInv, IInv, TypeOK
<1>5. \A u \in Clients \ {t} : job[u].at = "head" => job[u].new # g
    BY <1>2, AloneHead
<1>6. HeadsKept' /\ \A u \in Clients \ {t} : HeadFits(u)'
    BY <1>1, <1>2, <1>3, <1>4, <1>5, Changed DEF Owes
<1> QED
    BY <1>3, <1>6 DEF HeadsHold, HeadFits

LEMMA WriteUpdateHolds == ASSUME HInv, NEW t \in Clients, WriteUpdate(t) PROVE HeadsHold'
<1> DEFINE g == job[t].g
           name == IF job[t].name = None THEN job[t].old ELSE job[t].name
           f == [rev |-> job[t].rev + 1, data |-> job[t].data, name |-> name]
<1>1. /\ job[t].at = "write" /\ job[t].op = "update" /\ heads' = heads /\ job[t] \in Jobs
      /\ job \in [Clients -> Jobs] /\ file' = [file EXCEPT ![g] = f]
      /\ file \in [Graphs -> Env \cup {None, Damaged}]
    BY DEF WriteUpdate, HInv, IInv, TypeOK
<1>2. /\ g \in Graphs /\ Inside(t) /\ file[g] # None /\ job[t].new = g
      /\ job[t].data \in Contents /\ name \in Names /\ job[t].rev + 1 \in Nat
    BY <1>1 DEF HInv, IInv, Jobs, Fit, Shape, Past, Inside, StillReads, Readable
<1>3. /\ Others(t) /\ Asked(job[t], job'[t]) /\ job'[t].at = "head"
      /\ job'[t].new = g /\ job'[t].old = job[t].old
    BY <1>1, <1>2 DEF WriteUpdate, Becomes, Others, Jobs, Asked
<1>4. f \in Env /\ f # None /\ f # Damaged
    <2>1. f \in Env
        BY <1>2 DEF Env
    <2> QED
        BY <2>1, NoneAssumption
<1>5. file'[g] = f /\ \A h \in Graphs \ {g} : file'[h] = file[h]
    BY <1>1, <1>2
<1>6. \A u \in Clients \ {t} : job[u].at = "head" => job[u].new # g
    BY <1>2, AloneHead
<1>7. HeadsKept' /\ \A u \in Clients \ {t} : HeadFits(u)'
    BY <1>1, <1>2, <1>3, <1>5, <1>6, Changed DEF Owes, Asked
<1>8. HeadFits(t)'
    <2>1. HeadOf(f) = [rev |-> job[t].rev + 1, name |-> name]
        BY <1>4 DEF HeadOf
    <2>2. HeadNow(job[t])' = [rev |-> job[t].rev + 1, name |-> name]
        BY <1>1, <1>3 DEF HeadNow, Asked
    <2> QED
        BY <1>1, <1>3, <1>4, <1>5, <2>1, <2>2 DEF HeadFits, Readable, Asked
<1> QED
    BY <1>7, <1>8 DEF HeadsHold

\* A new graph under the lock of the names.
LEMMA NewHolds ==
    ASSUME HInv, NEW t \in Clients, Others(t), heads' = heads, job[t].at = "write",
           NEW g \in Graphs, g \notin hist.made,
           NEW name \in Names, NEW data \in Contents,
           file' = [file EXCEPT ![g] = [rev |-> 1, name |-> name, data |-> data]],
           job'[t].at = "head", job'[t].new = g, Asked(job[t], job'[t]), job[t].op # "update",
           name = IF job'[t].name = None THEN job'[t].old ELSE job'[t].name
    PROVE  HeadsHold'
<1> DEFINE f == [rev |-> 1, name |-> name, data |-> data]
<1>1. f \in Env /\ f # None /\ f # Damaged /\ f.name = name /\ f.rev = 1
    <2>1. f \in Env
        BY DEF Env
    <2> QED
        BY <2>1, NoneAssumption
<1>2. file'[g] = f /\ \A h \in Graphs \ {g} : file'[h] = file[h]
    BY DEF HInv, IInv, TypeOK
<1> HIDE DEF f
<1>3. HeadsKept' /\ \A u \in Clients \ {t} : HeadFits(u)'
    BY <1>2, Unheard, Changed DEF Owes, Asked
<1>4. HeadFits(t)'
    <2>1. HeadOf(f) = [rev |-> 1, name |-> name]
        BY <1>1 DEF HeadOf
    <2>2. HeadNow(job[t])' = [rev |-> 1, name |-> name]
        BY DEF HeadNow, Asked
    <2>3. \A u \in Clients \ {t} : job'[u].g # g
        BY Unheard DEF Others
    <2> QED
        BY <1>1, <1>2, <2>1, <2>2, <2>3 DEF HeadFits, Readable
<1> QED
    BY <1>3, <1>4 DEF HeadsHold

LEMMA WriteNewHolds == ASSUME HInv, NEW t \in Clients, WriteNew(t) PROVE HeadsHold'
<1>1. PICK g \in Graphs \ hist.made :
        /\ job[t].at = "write" /\ job[t].op \in {"create", "copy"} /\ heads' = heads
        /\ file' = [file EXCEPT ![g] = [rev |-> 1, name |-> job[t].name, data |-> job[t].data]]
        /\ Becomes(t, Stores(job[t], g, Says("ok", 1)))
    BY Zenon DEF WriteNew, Stores
<1>2. /\ job[t] \in Jobs /\ job[t].name \in Names /\ job[t].data \in Contents
      /\ job[t].name # None
    BY <1>1, NoneAssumption DEF HInv, IInv, TypeOK, Jobs, Fit, Shape
<1> DEFINE k == Stores(job[t], g, Says("ok", 1))
<1>3. k \in Jobs /\ Asked(job[t], k) /\ k.at = "head" /\ k.new = g
    <2>1. Says("ok", 1) \in [kind: Kinds, rev: Nat]
        BY Answers DEF Kinds
    <2> QED
        BY <1>2, <2>1, StoresType
<1>4. Becomes(t, k)
    BY <1>1
<1> HIDE DEF k
<1>5. Others(t) /\ job'[t] = k
    BY <1>3, <1>4, Becoming DEF Others, HInv, IInv, TypeOK
<1> QED
    BY <1>1, <1>2, <1>3, <1>5, NewHolds DEF Asked

LEMMA SeedOneHolds == ASSUME HInv, NEW t \in Clients, SeedOne(t) PROVE HeadsHold'
<1>1. job[t].at = "write" /\ job[t].op = "seed" /\ heads' = heads
    BY DEF SeedOne
<1>2. job[t] \in Jobs /\ job \in [Clients -> Jobs]
    BY DEF HInv, IInv, TypeOK
<1>3. CASE \E n : Becomes(t, Skips(job[t], n)) /\ UNCHANGED <<file, hist>>
    <2>1. Others(t) /\ job'[t].g = job[t].g /\ job'[t].at = "write" /\ file' = file
        BY <1>1, <1>2, <1>3 DEF Becomes, Skips, Others, Jobs
    <2> QED
        BY <1>1, <2>1, NothingWritten DEF HeadsHold
<1>4. ASSUME NEW n \in job[t].left, NEW g \in Graphs \ hist.made, NEW name \in SeedNames[n],
             NEW more, more = job[t].seen \cup {[name |-> name, data |-> n]},
             file' = [file EXCEPT ![g] = [rev |-> 1, name |-> name, data |-> n]],
             Becomes(t, Adds(job[t], g, name, job[t].left \ {n}, more))
      PROVE  HeadsHold'
    <2>1. n \in Contents /\ name \in Names /\ job[t].left \ {n} \in SUBSET Legacy
        BY <1>2, <1>4, LegacyAssumption DEF Jobs
    <2>2. more \in SUBSET Seen
        BY <1>2, <1>4, <2>1 DEF Jobs, Seen
    <2> DEFINE k == Adds(job[t], g, name, job[t].left \ {n}, more)
    <2>3. k \in Jobs /\ Asked(job[t], k) /\ k.at = "head" /\ k.new = g /\ k.old = name
        BY <1>2, <2>1, <2>2, AddsType
    <2>4. Becomes(t, k)
        BY <1>4
    <2> HIDE DEF k
    <2>5. Others(t) /\ job'[t] = k
        BY <1>2, <2>3, <2>4, Becoming DEF Others
    <2>6. job[t].name = None
        BY <1>1 DEF HInv, IInv, Fit, Shape
    <2> QED
        BY <1>1, <1>4, <2>1, <2>3, <2>5, <2>6, NewHolds DEF Asked
<1> QED
    BY <1>3, <1>4, Zenon DEF SeedOne, Skips, Adds

LEMMA SetHeadHolds == ASSUME HInv, NEW t \in Clients, SetHead(t) PROVE HeadsHold'
<1> DEFINE g == job[t].new
<1>1. /\ job[t].at = "head" /\ file' = file /\ job[t] \in Jobs /\ job \in [Clients -> Jobs]
      /\ heads' = [heads EXCEPT ![g] = HeadNow(job[t])]
    BY Zenon DEF SetHead, HeadNow, HInv, IInv, TypeOK
<1>2. /\ g \in Graphs /\ HeadNow(job[t]) = HeadOf(file[g])
    BY <1>1 DEF HInv, IInv, Jobs, Fit, Shape, HeadFits
<1>3. Others(t) /\ job'[t].g = job[t].g /\ job'[t].at \in {"write", "done"}
    <2>1. CASE Goes(t, "write")
        BY <1>1, <2>1, GoesOn DEF Asked, Steps
    <2>2. CASE Ends(t, job[t].ans)
        BY <1>1, <2>2, EndsHere DEF Asked, Jobs
    <2> QED
        BY <2>1, <2>2 DEF SetHead
<1>4. HeadsKept'
    <2> SUFFICES ASSUME NEW h \in Graphs, file[h] # Damaged
                 PROVE  heads'[h] = HeadOf(file[h]) \/ \E u \in Clients : Owes(u, h)'
        BY <1>1 DEF HeadsKept
    <2>1. heads \in [Graphs -> [rev: Nat, name: Names] \cup {None}]
        BY DEF HInv, IInv, TypeOK
    <2>2. CASE h = g
        BY <1>1, <1>2, <2>1, <2>2
    <2>3. CASE h # g
        BY <1>1, <1>3, <2>1, <2>3 DEF HInv, HeadsKept, Owes, Others
    <2> QED
        BY <2>2, <2>3
<1>5. ASSUME NEW u \in Clients PROVE HeadFits(u)'
    <2>1. CASE u = t
        BY <1>3, <2>1 DEF HeadFits
    <2>2. CASE u # t
        <3>1. \A v \in Clients : job'[v].g = job[v].g
            BY <1>3 DEF Others
        <3>2. job'[u] = job[u] /\ HeadFits(u)
            BY <1>3, <2>2 DEF Others, HInv
        <3> QED
            BY <1>1, <3>1, <3>2 DEF HeadFits, Readable
    <2> QED
        BY <2>1, <2>2
<1> QED
    BY <1>4, <1>5 DEF HeadsHold

LEMMA DropHeadHolds == ASSUME HInv, NEW t \in Clients, DropHead(t) PROVE HeadsHold'
<1> DEFINE g == job[t].g
<1>1. /\ job[t].at = "unhead" /\ file' = file /\ job[t] \in Jobs /\ job \in [Clients -> Jobs]
      /\ heads' = [heads EXCEPT ![g] = None] /\ Goes(t, "drop")
    BY DEF DropHead, HInv, IInv, TypeOK
<1>2. g \in Graphs /\ HeadOf(file[g]) = None
    BY <1>1 DEF HInv, IInv, Jobs, Fit, Shape, Known, HeadOf
<1>3. Others(t) /\ job'[t].g = job[t].g /\ job'[t].at = "drop"
    BY <1>1, GoesOn DEF Asked, Steps
<1>4. HeadsKept'
    <2> SUFFICES ASSUME NEW h \in Graphs, file[h] # Damaged
                 PROVE  heads'[h] = HeadOf(file[h]) \/ \E u \in Clients : Owes(u, h)'
        BY <1>1 DEF HeadsKept
    <2>1. heads \in [Graphs -> [rev: Nat, name: Names] \cup {None}]
        BY DEF HInv, IInv, TypeOK
    <2>2. CASE h = g
        BY <1>1, <1>2, <2>1, <2>2
    <2>3. CASE h # g
        BY <1>1, <1>3, <2>1, <2>3 DEF HInv, HeadsKept, Owes, Others
    <2> QED
        BY <2>2, <2>3
<1>5. ASSUME NEW u \in Clients PROVE HeadFits(u)'
    <2>1. CASE u = t
        BY <1>3, <2>1 DEF HeadFits
    <2>2. CASE u # t
        <3>1. \A v \in Clients : job'[v].g = job[v].g
            BY <1>3 DEF Others
        <3>2. job'[u] = job[u] /\ HeadFits(u)
            BY <1>3, <2>2 DEF Others, HInv
        <3> QED
            BY <1>1, <3>1, <3>2 DEF HeadFits, Readable
    <2> QED
        BY <2>1, <2>2
<1> QED
    BY <1>4, <1>5 DEF HeadsHold

LEMMA DamageHolds == ASSUME HInv, NEW g \in Graphs, Damage(g) PROVE HeadsHold'
<1>1. /\ heads' = heads /\ job' = job
      /\ \A t \in Clients : job[t].at = "head" => job[t].new # g
    BY DEF Damage
<1>2. file'[g] = Damaged /\ \A h \in Graphs \ {g} : file'[h] = file[h]
    BY DEF Damage, HInv, IInv, TypeOK
<1>3. HeadsKept'
    BY <1>1, <1>2 DEF HInv, HeadsKept, Owes
<1>4. ASSUME NEW u \in Clients PROVE HeadFits(u)'
    <2>1. HeadFits(u) /\ (job[u].at = "head" => file'[job[u].new] = file[job[u].new])
        BY <1>1, <1>2 DEF HInv, IInv, TypeOK, Jobs, Fit, Shape
    <2> QED
        BY <1>1, <2>1 DEF HeadFits, Readable, HeadNow
<1> QED
    BY <1>3, <1>4 DEF HeadsHold

\* The index is filled from the files.
LEMMA FilledHolds ==
    ASSUME heads = [g \in Graphs |-> HeadOf(file[g])], job = [t \in Clients |-> Idle]
    PROVE  HeadsHold
BY IdleType DEF HeadsHold, HeadsKept, HeadFits

LEMMA HeadsInductive == ~EarlyUse => (Spec => [](IInv /\ HeadsHold))
<1> SUFFICES ASSUME ~EarlyUse PROVE Spec => [](IInv /\ HeadsHold)
    OBVIOUS
<1>1. Init => IInv /\ HeadsHold
    BY InitHolds, FilledHolds DEF Init
<1>2. IInv /\ HeadsHold /\ [Next]_vars => (IInv /\ HeadsHold)'
    <2> SUFFICES ASSUME HInv, [Next]_vars PROVE HeadsHold'
        BY StepKeeps DEF HInv, HeadsHold
    <2>1. ASSUME NEW t \in Clients, Step(t) PROVE HeadsHold'
        BY <2>1, MoveHolds, EndHolds, AskHolds, ReadHolds, UnlinkHolds, WriteUpdateHolds,
           WriteNewHolds, SeedOneHolds, SetHeadHolds, DropHeadHolds, Zenon DEF Step
    <2>2. CASE Crash
        BY <2>2, IdleType DEF Crash, HeadsHold, HeadsKept, HeadFits
    <2>3. CASE UNCHANGED vars
        BY <2>3 DEF vars, HInv, HeadsHold, HeadsKept, HeadFits, Readable, Owes, HeadNow
    <2> QED
        BY <2>1, <2>2, <2>3, DamageHolds, Zenon DEF Next
<1> QED
    BY <1>1, <1>2, PTL DEF Spec

\* When no request is on a graph, the index says of it what its file says, whatever
\* overlaps, fails, is damaged or restarts (storage.py _set_head, _drop_head), as long as
\* nobody uses a graph before its create has been answered.
THEOREM HeadsFollow == ASSUME ~EarlyUse PROVE Spec => []HeadsInStep
<1>1. IInv /\ HeadsHold => HeadsInStep
    BY DEF HeadsHold, HeadsKept, HeadsInStep, Quiet, Owes
<1> QED
    BY <1>1, HeadsInductive, PTL


-----------------------------------------------------------------------------
(* The store implements GraphServer: every step of a request is one step of *)
(* the server that serves requests one at a time, or none.                    *)


-----------------------------------------------------------------------------
(* When a request has its answer: at the write that decides it.            *)

Open == {"idle", "source", "lock", "wait", "read", "names", "check", "write", "unlink"}

Told(j) ==
    /\ j.at = "idle" <=> j.op = "none"
    /\ j.at \in Open \/ (j.at = "head" /\ j.op = "seed") <=> j.ans = NoAnswer

TInv == IInv /\ \A t \in Clients : Told(job[t])

Call == [t \in Clients |-> Request(t)]

LEMMA RequestType ==
    ASSUME NEW t \in Clients, job[t] \in Jobs, job[t].at # "idle"
    PROVE  /\ Request(t) \in Calls /\ Request(t) # None /\ Call[t] = Request(t)
           /\ Request(t).op = job[t].op /\ Request(t).g = job[t].g
           /\ Request(t).rev = job[t].rev /\ Request(t).name = job[t].name
           /\ Request(t).data = (IF job[t].op = "copy" THEN None ELSE job[t].data)
           /\ Request(t).ans = job[t].ans
<1>1. Request(t) = [op |-> job[t].op, g |-> job[t].g, rev |-> job[t].rev, name |-> job[t].name,
                    data |-> IF job[t].op = "copy" THEN None ELSE job[t].data, ans |-> job[t].ans]
  BY DEF Request
<1>2. Request(t) \in Calls
  BY <1>1 DEF Calls, Jobs
<1> QED
  BY <1>1, <1>2, NoCallAssumption DEF Call

Same(j, k) == Asked(j, k) /\ (k.data = j.data \/ j.op = "copy")

Record(o, g, r, n, d, a) == [op |-> o, g |-> g, rev |-> r, name |-> n, data |-> d, ans |-> a]

LEMMA Retold ==
    ASSUME NEW o, NEW g, NEW r, NEW n, NEW d, NEW a, NEW b
    PROVE  [Record(o, g, r, n, d, a) EXCEPT !.ans = b] = Record(o, g, r, n, d, b)
  BY DEF Record

\* A step after which the client of t knows one thing more, the answer.
LEMMA Tells ==
    ASSUME job \in [Clients -> Jobs], job' \in [Clients -> Jobs], NEW t \in Clients, Others(t),
           job[t].at # "idle", job'[t].at # "idle", Same(job[t], job'[t])
    PROVE  /\ Call' = [Call EXCEPT ![t].ans = job'[t].ans]
           /\ job'[t].ans = job[t].ans => Call' = Call
<1> DEFINE d == IF job[t].op = "copy" THEN None ELSE job[t].data
           r(a) == Record(job[t].op, job[t].g, job[t].rev, job[t].name, d, a)
<1>1. \A u \in Clients \ {t} : Request(u)' = Request(u)
  BY DEF Others, Request
<1>2. Request(t) = r(job[t].ans) /\ Request(t)' = r(job'[t].ans)
  BY DEF Request, Same, Asked, Record
<1>3. [r(job[t].ans) EXCEPT !.ans = job'[t].ans] = r(job'[t].ans)
  BY Retold
<1> HIDE DEF r, d
<1>4. [Call EXCEPT ![t].ans = job'[t].ans]
         = [u \in Clients |-> IF u = t THEN [r(job[t].ans) EXCEPT !.ans = job'[t].ans]
                              ELSE Request(u)]
  BY <1>2, Zenon DEF Call
<1>5. Call' = [u \in Clients |-> IF u = t THEN r(job'[t].ans) ELSE Request(u)]
  BY <1>1, <1>2 DEF Call
<1>6. job'[t].ans = job[t].ans => Call' = Call
  BY <1>1, <1>2 DEF Call
<1> QED
  BY <1>3, <1>4, <1>5, <1>6, Zenon

-----------------------------------------------------------------------------
(* Steps the client does not see, and refusals.                            *)

Mapped == [Served!Next]_(Served!vars)

LEMMA Stutters ==
    ASSUME TInv, NEW t \in Clients, job' \in [Clients -> Jobs], Others(t),
           job[t].at # "idle", job'[t].at # "idle", Same(job[t], job'[t]),
           job'[t].ans = job[t].ans, file' = file, hist'.made = hist.made
    PROVE  Mapped
<1>1. Call' = Call
  BY Tells DEF TInv, IInv, TypeOK
<1> QED
  BY <1>1 DEF Mapped, Served!vars, Call

\* Why a request may be refused, as GraphServer says it.
Refusal(t, answer) ==
    \/ answer = Says("failed", 0)
    \/ /\ answer = Says("taken", 0) /\ job[t].op \in {"create", "copy", "update"}
       /\ Owners(job[t].name) \ (IF job[t].op = "update" THEN {job[t].g} ELSE {}) # {}
    \/ /\ answer = Says("missing", 0) /\ job[t].op \in {"copy", "update", "delete"}
       /\ file[job[t].g] = None
    \/ /\ answer = Says("corrupt", 0) /\ job[t].op \in {"copy", "update", "delete"}
       /\ file[job[t].g] = Damaged
    \/ /\ job[t].op \in {"update", "delete"} /\ Readable(job[t].g)
       /\ file[job[t].g].rev # job[t].rev /\ answer = Says("conflict", file[job[t].g].rev)

LEMMA SameTerms ==
    /\ \A kind, rev : Served!Says(kind, rev) = Says(kind, rev)
    /\ Served!NoAnswer = NoAnswer
    /\ \A g \in Graphs : Served!Readable(g) <=> Readable(g)
    /\ \A name : Served!Owners(name) = Owners(name)
    /\ \A kind \in Kinds \ {"none"} : \A rev : Says(kind, rev) # NoAnswer
  BY DEF Served!Says, Says, Served!NoAnswer, NoAnswer, Served!Readable, Readable, Served!Owners,
         Owners

\* A request that has no answer yet waits for one.
LEMMA StillWaits ==
    ASSUME TInv, NEW t \in Clients, job[t].at # "idle", job[t].ans = NoAnswer
    PROVE  /\ job[t].op \in Served!Ops
           /\ \A ops : job[t].op \in ops => Served!Waits(t, ops)
           /\ Request(t).op = job[t].op /\ Request(t).g = job[t].g
           /\ Request(t).rev = job[t].rev /\ Request(t).name = job[t].name
           /\ Request(t).data = (IF job[t].op = "copy" THEN None ELSE job[t].data)
<1>1. job[t] \in Jobs /\ job[t].at # "idle"
  BY DEF TInv, IInv, TypeOK
<1>2. job[t].op \in Served!Ops
  BY <1>1 DEF TInv, Told, Served!Ops, Ops, Jobs
<1> QED
  BY <1>1, <1>2, RequestType, SameTerms DEF Served!Waits

\* The answer a step gives is the one the client gets.
LEMMA AnswersOnce ==
    ASSUME TInv, NEW t \in Clients, job' \in [Clients -> Jobs], Others(t),
           job[t].at # "idle", job'[t].at # "idle", Same(job[t], job'[t])
    PROVE  Served!Answered(t, job'[t].ans)
<1>1. Call' = [Call EXCEPT ![t].ans = job'[t].ans]
  BY Tells DEF TInv, IInv, TypeOK
<1> QED
  BY <1>1, Zenon DEF Call, Served!Answered

LEMMA Refuses ==
    ASSUME TInv, NEW t \in Clients, job[t].at \in Open \ {"idle"},
           NEW answer \in [kind: Kinds, rev: Nat], answer # NoAnswer, Ends(t, answer),
           Refusal(t, answer), file' = file, hist' = hist
    PROVE  Told(job'[t]) /\ Mapped
<1>1. /\ job' \in [Clients -> Jobs] /\ Others(t) /\ Same(job[t], job'[t])
      /\ job'[t].at = "done" /\ job'[t].ans = answer
  BY EndsHere DEF Same, TInv, IInv, TypeOK
<1>2. Told(job'[t])
  BY <1>1 DEF Told, Same, Asked, Open, TInv
<1>3. job[t].at # "idle" /\ job[t].ans = NoAnswer
  BY DEF TInv, Told
<1>4. Served!Answered(t, answer) /\ UNCHANGED <<file, hist.made>>
  BY <1>1, <1>3, AnswersOnce
<1>5. Served!Waits(t, Served!Ops)
  BY <1>3, StillWaits
<1>6. /\ Request(t).op = job[t].op /\ Request(t).g = job[t].g
      /\ Request(t).rev = job[t].rev /\ Request(t).name = job[t].name
  BY <1>3, StillWaits
<1>7. Served!Refuse(t)
  BY <1>4, <1>5, <1>6
     DEF Served!Refuse, Refusal, Served!Owners, Owners, Served!Readable, Readable, Served!Says, Says
<1> QED
  BY <1>2, <1>7 DEF Mapped, Served!Next

-----------------------------------------------------------------------------
(* The actions.                                                            *)

\* An answered request goes on to its end.
LEMMA Finishes ==
    ASSUME TInv, NEW t \in Clients, job[t].at # "idle", job[t].ans # NoAnswer,
           Ends(t, job[t].ans), file' = file, hist' = hist
    PROVE  Told(job'[t]) /\ Mapped
<1>1. /\ job' \in [Clients -> Jobs] /\ Others(t) /\ Same(job[t], job'[t])
      /\ job'[t].at = "done" /\ job'[t].ans = job[t].ans
  <2>1. job[t].ans \in [kind: Kinds, rev: Nat]
    BY DEF TInv, IInv, TypeOK, Jobs
  <2> QED
    BY <2>1, EndsHere DEF Same, TInv, IInv, TypeOK
<1>2. Told(job'[t])
  BY <1>1 DEF Told, Same, Asked, Open, TInv
<1> QED
  BY <1>1, <1>2, Stutters

\* A step within a request, before or after its answer.
LEMMA GoesUnseen ==
    ASSUME TInv, NEW t \in Clients, NEW a \in Steps, Goes(t, a), file' = file, hist' = hist,
           job[t].at # "idle", a # "idle",
           (a \in Open \/ (a = "head" /\ job[t].op = "seed")) <=> job[t].ans = NoAnswer
    PROVE  Told(job'[t]) /\ Mapped
<1>1. /\ job' \in [Clients -> Jobs] /\ Others(t) /\ Same(job[t], job'[t])
      /\ job'[t].at = a /\ job'[t].ans = job[t].ans
  BY GoesOn DEF Same, TInv, IInv, TypeOK
<1>2. Told(job'[t])
  BY <1>1 DEF Told, Same, Asked, TInv
<1> QED
  BY <1>1, <1>2, Stutters

LEMMA AskMaps == ASSUME TInv, NEW t \in Clients, Ask(t) PROVE Told(job'[t]) /\ Mapped
<1>1. PICK k : Fresh(k) /\ Becomes(t, k)
  BY AskIsFresh DEF TInv
<1>2. /\ UNCHANGED <<file, hist>> /\ job[t].at = "idle"
  BY DEF Ask
<1>3. /\ job' \in [Clients -> Jobs] /\ Others(t) /\ job'[t] = k
  BY <1>1, Becoming DEF Others, TInv, IInv, TypeOK, Fresh
<1>4. Told(k) /\ k.at # "idle" /\ k \in Jobs
  BY <1>1 DEF Fresh, Told, Open
<1>5. Call[t] = None
  BY <1>2 DEF Call, Request
<1>6. Call'[t] = Request(t)' /\ Call' = [Call EXCEPT ![t] = Call'[t]]
  <2>1. \A u \in Clients \ {t} : Request(u)' = Request(u)
    BY <1>3 DEF Others, Request
  <2> QED
    BY <2>1 DEF Call
<1>7. Call'[t] \in Served!Requests
  <2>1. Request(t)' = Record(k.op, k.g, k.rev, k.name, IF k.op = "copy" THEN None ELSE k.data, k.ans)
    BY <1>3, <1>4 DEF Request, Record
  <2>2. /\ k.op \in Served!Ops /\ k.g \in Graphs \cup {None} /\ k.rev \in Nat
        /\ k.name \in Names \cup {None} /\ k.data \in Contents \cup {None}
        /\ k.ans = Served!NoAnswer
    BY <1>1, <1>4, SameTerms DEF Fresh, Told, Jobs, Ops, Served!Ops
  <2> QED
    BY <1>6, <2>1, <2>2 DEF Served!Requests, Record
<1>8. Served!Ask(t)
  BY <1>2, <1>5, <1>6, <1>7, Zenon DEF Served!Ask, Call
<1> QED
  BY <1>3, <1>4, <1>8 DEF Mapped, Served!Next

LEMMA ReadSourceMaps == ASSUME TInv, NEW t \in Clients, ReadSource(t) PROVE Told(job'[t]) /\ Mapped
<1> DEFINE f == file[job[t].g]
<1>1. /\ job[t].at = "source" /\ UNCHANGED <<file, hist>>
      /\ \/ f = None /\ Ends(t, Says("missing", 0))
         \/ f = Damaged /\ Ends(t, Says("corrupt", 0))
         \/ Readable(job[t].g) /\ Becomes(t, [job[t] EXCEPT !.at = "names", !.data = f.data])
  BY Zenon, NoneAssumption DEF ReadSource, Readable
<1>2. job[t] \in Jobs /\ job[t].op = "copy" /\ job[t].ans = NoAnswer
  BY <1>1 DEF TInv, Told, IInv, TypeOK, Fit, Shape, Open
<1>3. /\ \A kind \in {"missing", "corrupt"} : Says(kind, 0) \in [kind: Kinds, rev: Nat]
      /\ Says("missing", 0) # NoAnswer /\ Says("corrupt", 0) # NoAnswer
  BY Answers DEF Kinds, Says, NoAnswer
<1>4. CASE f = None /\ Ends(t, Says("missing", 0))
  BY <1>1, <1>2, <1>3, <1>4, Refuses DEF Refusal, Open
<1>5. CASE f = Damaged /\ Ends(t, Says("corrupt", 0))
  BY <1>1, <1>2, <1>3, <1>5, Refuses DEF Refusal, Open
<1>6. CASE Readable(job[t].g) /\ Becomes(t, [job[t] EXCEPT !.at = "names", !.data = f.data])
  <2> DEFINE k == Sourced(job[t], f.data)
  <2>1. Becomes(t, k) /\ f.data \in Contents
    <3>1. job[t].g \in Graphs
      BY <1>1, <1>2 DEF TInv, IInv, Fit, Shape, Jobs
    <3> QED
      BY <1>6, <3>1 DEF TInv, IInv, TypeOK, Env, Readable, Sourced
  <2>2. k \in Jobs /\ Asked(job[t], k) /\ k.at = "names" /\ k.ans = job[t].ans
    BY <1>2, <2>1, SourcedType
  <2> HIDE DEF k
  <2>3. job' \in [Clients -> Jobs] /\ Others(t) /\ job'[t] = k
    BY <2>1, <2>2, Becoming DEF Others, TInv, IInv, TypeOK
  <2>4. Told(k)
    BY <1>1, <1>2, <2>2 DEF Told, Asked, Open
  <2> QED
    BY <1>1, <1>2, <2>2, <2>3, <2>4, Stutters DEF Same
<1> QED
  BY <1>1, <1>4, <1>5, <1>6

LEMMA FindLockMaps == ASSUME TInv, NEW t \in Clients, FindLock(t) PROVE Told(job'[t]) /\ Mapped
<1>1. PICK l :
        /\ job[t].at = "lock" /\ UNCHANGED <<file, hist>>
        /\ IF lockOf[job[t].g] # None THEN l = lockOf[job[t].g] ELSE l \in Unused
        /\ Becomes(t, Waiting(job[t], l))
  BY Zenon DEF FindLock, Waiting
<1>2. job[t].g \in Graphs /\ job[t] \in Jobs
  BY <1>1 DEF TInv, IInv, TypeOK, Fit, Shape, Jobs
<1>3. l \in Locks
  BY <1>1, <1>2 DEF Unused, TInv, IInv, TypeOK
<1> DEFINE k == Waiting(job[t], l)
<1>4. /\ k \in Jobs /\ Asked(job[t], k) /\ k.at = "wait" /\ k.data = job[t].data
      /\ k.ans = job[t].ans
  BY <1>2, <1>3, WaitingType
<1> HIDE DEF k
<1>5. job' \in [Clients -> Jobs] /\ Others(t) /\ job'[t] = k
  BY <1>1, <1>4, Becoming DEF Others, TInv, IInv, TypeOK, k
<1>6. Told(k)
  BY <1>1, <1>4 DEF TInv, Told, Asked, Open
<1> QED
  BY <1>1, <1>4, <1>5, <1>6, Stutters DEF Same

LEMMA TakeLockMaps == ASSUME TInv, NEW t \in Clients, TakeLock(t) PROVE Told(job'[t]) /\ Mapped
<1>1. job[t].at = "wait" /\ Goes(t, "read") /\ UNCHANGED <<file, hist>>
  BY DEF TakeLock
<1>2. job[t].ans = NoAnswer
  BY <1>1 DEF TInv, Told, Open
<1> QED
  BY <1>1, <1>2, GoesUnseen DEF Steps, Open

\* A request that removes the file of its graph.
LEMMA RemovesServed ==
    ASSUME TInv, NEW t \in Clients, job[t].at \in Open \ {"idle"}, job[t].op = "delete",
           \/ file[job[t].g] = Damaged
           \/ Readable(job[t].g) /\ file[job[t].g].rev = job[t].rev,
           file' = [file EXCEPT ![job[t].g] = None], hist' = hist,
           Becomes(t, [job[t] EXCEPT !.at = "unhead", !.ans = Says("ok", 0)])
    PROVE  Told(job'[t]) /\ Mapped
<1> DEFINE k == Answered(job[t], "unhead", Says("ok", 0))
<1>1. Becomes(t, k)
  BY Zenon DEF Answered
<1>2. /\ job[t] \in Jobs /\ k \in Jobs /\ Asked(job[t], k) /\ k.at = "unhead"
      /\ k.data = job[t].data /\ k.ans = Says("ok", 0)
  <2>1. Says("ok", 0) \in [kind: Kinds, rev: Nat] /\ "unhead" \in Steps /\ job[t] \in Jobs
    BY Answers DEF Steps, Kinds, TInv, IInv, TypeOK
  <2> QED
    BY <2>1, AnsweredType
<1> HIDE DEF k
<1>3. job' \in [Clients -> Jobs] /\ Others(t) /\ job'[t] = k
  BY <1>1, <1>2, Becoming DEF Others, TInv, IInv, TypeOK
<1>4. job[t].at # "idle" /\ job[t].ans = NoAnswer
  BY DEF TInv, Told
<1>5. Told(k)
  BY <1>2, <1>4 DEF TInv, Told, Asked, Open, Says, NoAnswer
<1>6. Served!Waits(t, {"delete"}) /\ Served!Answered(t, Says("ok", 0))
  <2>1. job'[t].at # "idle" /\ job'[t].ans = Says("ok", 0) /\ Same(job[t], job'[t])
    BY <1>2, <1>3 DEF Same
  <2> QED
    BY <1>3, <1>4, <2>1, StillWaits, AnswersOnce
<1>7. Request(t).g = job[t].g /\ Request(t).rev = job[t].rev
  BY <1>4, StillWaits
<1>8. Served!Remove(t)
  BY <1>6, <1>7 DEF Served!Remove, Served!Readable, Readable, Served!Says, Says
<1> QED
  BY <1>3, <1>5, <1>8 DEF Mapped, Served!Next

LEMMA ReadGraphMaps == ASSUME TInv, NEW t \in Clients, ReadGraph(t) PROVE Told(job'[t]) /\ Mapped
<1> DEFINE g == job[t].g
           f == file[g]
<1>1. job[t].at = "read" /\ hist' = hist
  BY DEF ReadGraph
<1>2. /\ job[t] \in Jobs /\ g \in Graphs /\ job[t].op \in {"update", "delete"}
      /\ job[t].ans = NoAnswer /\ job[t].at \in Open \ {"idle"}
  BY <1>1 DEF TInv, Told, Open, IInv, TypeOK, Jobs, Fit, Shape
<1>3. \A kind \in {"missing", "corrupt", "conflict"}, rev \in Nat :
         Says(kind, rev) \in [kind: Kinds, rev: Nat] /\ Says(kind, rev) # NoAnswer
  BY Answers DEF Kinds, Says, NoAnswer
<1>4. CASE f = None /\ Ends(t, Says("missing", 0)) /\ file' = file
  BY <1>1, <1>2, <1>3, <1>4, Refuses DEF Refusal
<1>5. CASE f = Damaged /\ Ends(t, Says("corrupt", 0)) /\ file' = file
  BY <1>1, <1>2, <1>3, <1>5, Refuses DEF Refusal
<1>6. CASE Readable(g) /\ f.rev # job[t].rev /\ Ends(t, Says("conflict", f.rev)) /\ file' = file
  <2>1. f.rev \in Nat
    BY <1>2, <1>6 DEF Readable, Env, TInv, IInv, TypeOK
  <2> QED
    BY <1>1, <1>2, <1>3, <1>6, <2>1, Refuses DEF Refusal
<1>7. CASE /\ f = Damaged /\ job[t].op = "delete" /\ file' = [file EXCEPT ![g] = None]
           /\ Becomes(t, [job[t] EXCEPT !.at = "unhead", !.ans = Says("ok", 0)])
  BY <1>1, <1>2, <1>7, RemovesServed
<1>8. CASE /\ Readable(g) /\ f.rev = job[t].rev /\ job[t].op = "delete" /\ Goes(t, "unlink")
           /\ file' = file
  BY <1>1, <1>2, <1>8, GoesUnseen DEF Steps, Open
<1>9. CASE /\ Readable(g) /\ f.rev = job[t].rev /\ job[t].op = "update"
           /\ Becomes(t, [job[t] EXCEPT
                            !.at = IF job[t].name \in {None, f.name} THEN "write" ELSE "names",
                            !.old = f.name, !.new = g])
           /\ file' = file
  <2> DEFINE next == IF job[t].name \in {None, f.name} THEN "write" ELSE "names"
             k == Found(job[t], next, f.name, g)
  <2>1. Becomes(t, k)
    BY <1>9, Zenon DEF Found
  <2>2. f.name \in Names /\ next \in Steps /\ next \in Open \ {"idle"}
    BY <1>2, <1>9 DEF TInv, IInv, TypeOK, Env, Readable, Steps, Open
  <2>3. /\ k \in Jobs /\ Asked(job[t], k) /\ k.at = next /\ k.data = job[t].data
        /\ k.ans = job[t].ans
    BY <1>2, <2>2, FoundType
  <2> HIDE DEF k, next
  <2>4. job' \in [Clients -> Jobs] /\ Others(t) /\ job'[t] = k
    BY <2>1, <2>3, Becoming DEF Others, TInv, IInv, TypeOK
  <2>5. Told(k)
    BY <1>2, <2>2, <2>3 DEF TInv, Told, Asked
  <2> QED
    BY <1>1, <1>2, <1>9, <2>2, <2>3, <2>4, <2>5, Stutters DEF Same
<1> QED
  BY <1>4, <1>5, <1>6, <1>7, <1>8, <1>9, Zenon DEF ReadGraph

LEMMA TakeNamesMaps == ASSUME TInv, NEW t \in Clients, TakeNames(t) PROVE Told(job'[t]) /\ Mapped
<1>1. job[t].at = "names" /\ UNCHANGED <<file, hist>>
  BY DEF TakeNames
<1>2. PICK next \in Steps \cap (Open \ {"idle"}), sees \in Sights :
         Becomes(t, Named(job[t], next, sees))
  <2>1. /\ Stored \in Sights /\ {} \in Sights
        /\ "write" \in Steps \cap (Open \ {"idle"}) /\ "check" \in Steps \cap (Open \ {"idle"})
    BY DEF TInv, IInv, TypeOK, Stored, Seen, Sights, Env, Readable, Steps, Open
  <2>2. CASE job[t].op = "seed"
    BY <2>1, <2>2, Zenon DEF TakeNames, Named
  <2>3. CASE job[t].op # "seed"
    BY <2>1, <2>3, Zenon DEF TakeNames, Named
  <2> QED
    BY <2>2, <2>3
<1> DEFINE k == Named(job[t], next, sees)
<1>3. /\ k \in Jobs /\ Asked(job[t], k) /\ k.at = next /\ k.data = job[t].data
      /\ k.ans = job[t].ans
  BY <1>2, NamedType DEF TInv, IInv, TypeOK
<1> HIDE DEF k
<1>4. job' \in [Clients -> Jobs] /\ Others(t) /\ job'[t] = k
  BY <1>2, <1>3, Becoming DEF Others, TInv, IInv, TypeOK, k
<1>5. Told(k)
  BY <1>1, <1>2, <1>3 DEF TInv, Told, Asked, Open
<1> QED
  BY <1>1, <1>3, <1>4, <1>5, Stutters DEF Same

LEMMA CheckNameMaps == ASSUME TInv, NEW t \in Clients, CheckName(t) PROVE Told(job'[t]) /\ Mapped
<1>1. /\ job[t].at = "check" /\ UNCHANGED <<file, hist>>
      /\ \/ Owners(job[t].name) \ {job[t].new} # {} /\ Ends(t, Says("taken", 0))
         \/ Goes(t, "write")
  BY DEF CheckName
<1>2. /\ job[t].at \in Open \ {"idle"} /\ job[t].ans = NoAnswer
      /\ job[t].op \in {"create", "copy", "update"}
      /\ job[t].op = "update" => job[t].new = job[t].g
  BY <1>1 DEF TInv, Told, Open, IInv, Fit, Shape, Past, Adding
<1>3. Says("taken", 0) \in [kind: Kinds, rev: Nat] /\ Says("taken", 0) # NoAnswer
  BY Answers DEF Kinds, Says, NoAnswer
<1>4. CASE Owners(job[t].name) \ {job[t].new} # {} /\ Ends(t, Says("taken", 0))
  <2>1. Owners(job[t].name) \ (IF job[t].op = "update" THEN {job[t].g} ELSE {}) # {}
    BY <1>2, <1>4
  <2> QED
    BY <1>1, <1>2, <1>3, <1>4, <2>1, Refuses DEF Refusal
<1>5. CASE Goes(t, "write")
  BY <1>1, <1>2, <1>5, GoesUnseen DEF Steps, Open
<1> QED
  BY <1>1, <1>4, <1>5

LEMMA WriteUpdateMaps == ASSUME TInv, NEW t \in Clients, WriteUpdate(t) PROVE Told(job'[t]) /\ Mapped
<1> DEFINE g == job[t].g
           name == IF job[t].name = None THEN job[t].old ELSE job[t].name
           answer == Says("ok", job[t].rev + 1)
           k == Answered(job[t], "head", answer)
<1>1. /\ job[t].at = "write" /\ job[t].op = "update" /\ hist' = hist
      /\ file' = [file EXCEPT ![g] = [rev |-> job[t].rev + 1, data |-> job[t].data, name |-> name]]
      /\ Becomes(t, k)
  BY Zenon DEF WriteUpdate, Answered
<1>2. /\ job[t] \in Jobs /\ g \in Graphs /\ Readable(g) /\ file[g].rev = job[t].rev
      /\ file[g].name = job[t].old /\ job[t].rev \in Nat /\ job[t].new = g
      /\ job[t].at # "idle" /\ job[t].ans = NoAnswer
  BY <1>1 DEF TInv, Told, Open, IInv, Fit, Shape, Past, StillReads, TypeOK, Jobs
<1>3. Owners(name) \subseteq {g}
  <2>1. CASE name = job[t].old
    BY <1>2, <2>1 DEF TInv, IInv, NamesUnique, Owners
  <2>2. CASE name # job[t].old
    BY <1>1, <1>2, <2>2 DEF TInv, IInv, Fit, Naming
  <2> QED
    BY <2>1, <2>2
<1>4. answer \in [kind: Kinds, rev: Nat] /\ answer # NoAnswer
  BY <1>2, Answers DEF Kinds, Says, NoAnswer
<1>5. name = IF job[t].name = None THEN file[g].name ELSE job[t].name
  BY <1>2
<1> HIDE DEF name, answer
<1>6. /\ k \in Jobs /\ Asked(job[t], k) /\ k.at = "head" /\ k.data = job[t].data
      /\ k.ans = answer
  <2>1. "head" \in Steps
    BY DEF Steps
  <2> QED
    BY <1>2, <1>4, <2>1, AnsweredType
<1> HIDE DEF k
<1>7. job' \in [Clients -> Jobs] /\ Others(t) /\ job'[t] = k
  BY <1>1, <1>6, Becoming DEF Others, TInv, IInv, TypeOK
<1>8. Told(k)
  BY <1>1, <1>4, <1>6 DEF Told, Asked, Open
<1>9. Served!Waits(t, {"update"}) /\ Served!Answered(t, answer)
  <2>1. job'[t].at # "idle" /\ job'[t].ans = answer /\ Same(job[t], job'[t])
    BY <1>6, <1>7 DEF Same
  <2> QED
    BY <1>1, <1>2, <1>7, <2>1, StillWaits, AnswersOnce
<1>10. /\ Request(t).g = g /\ Request(t).rev = job[t].rev /\ Request(t).name = job[t].name
       /\ Request(t).data = job[t].data
  BY <1>1, <1>2, StillWaits
<1>11. Served!Replace(t)
  <2>1. /\ Served!Readable(g) /\ Served!Owners(name) = Owners(name)
        /\ answer = Served!Says("ok", job[t].rev + 1)
    BY <1>2, SameTerms DEF answer
  <2>2. Call[t] = Request(t)
    BY DEF Call
  <2> QED
    BY <1>1, <1>2, <1>3, <1>5, <1>9, <1>10, <2>1, <2>2 DEF Served!Replace, Call
<1> QED
  BY <1>7, <1>8, <1>11 DEF Mapped, Served!Next

LEMMA WriteNewMaps == ASSUME TInv, NEW t \in Clients, WriteNew(t) PROVE Told(job'[t]) /\ Mapped
<1>1. PICK g \in Graphs \ hist.made :
        /\ job[t].at = "write" /\ job[t].op \in {"create", "copy"}
        /\ file' = [file EXCEPT ![g] = [rev |-> 1, name |-> job[t].name, data |-> job[t].data]]
        /\ hist' = [hist EXCEPT !.made = @ \cup {g}]
        /\ Becomes(t, Stores(job[t], g, Says("ok", 1)))
  BY Zenon DEF WriteNew, Stores
<1>2. /\ job[t] \in Jobs /\ job[t].data \in Contents /\ job[t].ans = NoAnswer
      /\ job[t].at # "idle" /\ Owners(job[t].name) \subseteq {None}
  BY <1>1 DEF TInv, Told, Open, IInv, TypeOK, Jobs, Fit, Shape, Naming
<1>3. Owners(job[t].name) = {}
  BY <1>2, NoneAssumption DEF Owners
<1> DEFINE k == Stores(job[t], g, Says("ok", 1))
<1>4. /\ k \in Jobs /\ Asked(job[t], k) /\ k.at = "head" /\ k.data = job[t].data
      /\ k.ans = Says("ok", 1)
  <2>1. Says("ok", 1) \in [kind: Kinds, rev: Nat]
    BY Answers DEF Kinds
  <2> QED
    BY <1>2, <2>1, StoresType
<1> HIDE DEF k
<1>5. job' \in [Clients -> Jobs] /\ Others(t) /\ job'[t] = k
  BY <1>1, <1>4, Becoming DEF Others, TInv, IInv, TypeOK, k
<1>6. Told(k)
  BY <1>1, <1>4 DEF Told, Asked, Open, Says, NoAnswer
<1>7. Served!Waits(t, {"create", "copy"}) /\ Served!Answered(t, Says("ok", 1))
  <2>1. job'[t].at # "idle" /\ job'[t].ans = Says("ok", 1) /\ Same(job[t], job'[t])
    BY <1>4, <1>5 DEF Same
  <2> QED
    BY <1>1, <1>2, <1>5, <2>1, StillWaits, AnswersOnce
<1>8. /\ Request(t).op = job[t].op /\ Request(t).name = job[t].name
      /\ job[t].op = "create" => Request(t).data = job[t].data
  BY <1>1, <1>2, StillWaits
<1>9. Served!Add(g, job[t].name, job[t].data)
  BY <1>1, <1>3, SameTerms DEF Served!Add, TInv, IInv, TypeOK
<1>10. Served!Make(t)
  BY <1>2, <1>7, <1>8, <1>9 DEF Served!Make, Served!Says, Says
<1> QED
  BY <1>5, <1>6, <1>10 DEF Mapped, Served!Next

LEMMA WriteFailsMaps == ASSUME TInv, NEW t \in Clients, WriteFails(t) PROVE Told(job'[t]) /\ Mapped
<1>1. job[t].at \in Open \ {"idle"} /\ Ends(t, Says("failed", 0)) /\ file' = file /\ hist' = hist
  BY DEF WriteFails, Open
<1>2. Says("failed", 0) \in [kind: Kinds, rev: Nat] /\ Says("failed", 0) # NoAnswer
  BY Answers DEF Kinds, Says, NoAnswer
<1> QED
  BY <1>1, <1>2, Refuses DEF Refusal

LEMMA SeedOneMaps == ASSUME TInv, NEW t \in Clients, SeedOne(t) PROVE Told(job'[t]) /\ Mapped
<1>1. /\ job[t].at = "write" /\ job[t].op = "seed" /\ job[t] \in Jobs
      /\ job[t].ans = NoAnswer /\ job[t].at # "idle"
  BY DEF SeedOne, TInv, Told, Open, IInv, TypeOK
<1>2. CASE \E n \in job[t].left : Becomes(t, Skips(job[t], n)) /\ UNCHANGED <<file, hist>>
  <2>1. PICK n \in job[t].left : Becomes(t, Skips(job[t], n)) /\ UNCHANGED <<file, hist>>
    BY <1>2
  <2> DEFINE k == Skips(job[t], n)
  <2>2. /\ k \in Jobs /\ Asked(job[t], k) /\ k.at = job[t].at /\ k.data = job[t].data
        /\ k.ans = job[t].ans
    BY <1>1, SkipsType
  <2> HIDE DEF k
  <2>3. job' \in [Clients -> Jobs] /\ Others(t) /\ job'[t] = k
    BY <2>1, <2>2, Becoming DEF Others, TInv, IInv, TypeOK, k
  <2>4. Told(k)
    BY <1>1, <2>2 DEF TInv, Told, Asked
  <2> QED
    BY <1>1, <2>1, <2>2, <2>3, <2>4, Stutters DEF Same
<1>3. CASE \E n \in job[t].left, g \in Graphs \ hist.made : \E name \in SeedNames[n] :
              /\ \A e \in job[t].seen : e.name # name
              /\ file' = [file EXCEPT ![g] = [rev |-> 1, name |-> name, data |-> n]]
              /\ hist' = [hist EXCEPT !.made = @ \cup {g}]
              /\ Becomes(t, Adds(job[t], g, name, job[t].left \ {n},
                                 job[t].seen \cup {[name |-> name, data |-> n]}))
  <2>1. PICK n \in job[t].left, g \in Graphs \ hist.made : \E name \in SeedNames[n] :
              /\ \A e \in job[t].seen : e.name # name
              /\ file' = [file EXCEPT ![g] = [rev |-> 1, name |-> name, data |-> n]]
              /\ hist' = [hist EXCEPT !.made = @ \cup {g}]
              /\ Becomes(t, Adds(job[t], g, name, job[t].left \ {n},
                                 job[t].seen \cup {[name |-> name, data |-> n]}))
    BY <1>3
  <2>2. PICK name \in SeedNames[n] :
              /\ \A e \in job[t].seen : e.name # name
              /\ file' = [file EXCEPT ![g] = [rev |-> 1, name |-> name, data |-> n]]
              /\ hist' = [hist EXCEPT !.made = @ \cup {g}]
              /\ Becomes(t, Adds(job[t], g, name, job[t].left \ {n},
                                 job[t].seen \cup {[name |-> name, data |-> n]}))
    BY <2>1
  <2> DEFINE e == [name |-> name, data |-> n]
             k == Adds(job[t], g, name, job[t].left \ {n}, job[t].seen \cup {e})
  <2>3. n \in Legacy /\ n \in Contents /\ name \in Names /\ job[t].left \ {n} \in SUBSET Legacy
    BY <1>1, <2>2, LegacyAssumption DEF Jobs
  <2>4. job[t].seen \cup {e} \in SUBSET Seen
    BY <1>1, <2>3 DEF Jobs, Seen
  <2>5. Owners(name) = {}
    BY <1>1, <2>2 DEF TInv, IInv, Fit, Seeing, Owners
  <2> HIDE DEF e
  <2>6. k \in Jobs /\ Asked(job[t], k) /\ k.at = "head" /\ k.data = job[t].data /\ k.ans = job[t].ans
    BY <1>1, <2>3, <2>4, AddsType
  <2>7. Becomes(t, k)
    BY <2>2, Zenon DEF e
  <2> HIDE DEF k
  <2>8. job' \in [Clients -> Jobs] /\ Others(t) /\ job'[t] = k
    BY <2>6, <2>7, Becoming DEF Others, TInv, IInv, TypeOK
  <2>9. Told(k)
    BY <1>1, <2>6 DEF TInv, Told, Asked, Open
  <2>10. Call' = Call
    BY <1>1, <2>6, <2>8, Tells DEF Same, TInv, IInv, TypeOK
  <2>11. Served!Waits(t, {"seed"})
    BY <1>1, StillWaits
  <2>12. Served!Add(g, name, n)
    BY <2>2, <2>5, SameTerms DEF Served!Add, TInv, IInv, TypeOK
  <2>13. Served!Import(t)
    BY <2>3, <2>10, <2>11, <2>12, Zenon DEF Served!Import, Call
  <2> QED
    BY <2>8, <2>9, <2>13 DEF Mapped, Served!Next
<1> QED
  BY <1>2, <1>3, Zenon DEF SeedOne, Skips, Adds

LEMMA SeedEndsMaps == ASSUME TInv, NEW t \in Clients, SeedEnds(t) PROVE Told(job'[t]) /\ Mapped
<1>1. /\ job[t].at \in Open \ {"idle"} /\ job[t].at # "idle" /\ job[t].op = "seed"
      /\ file' = file /\ hist' = hist
      /\ Ends(t, Says("ok", 0)) \/ Ends(t, Says("failed", 0))
  BY DEF SeedEnds, Open
<1>2. \A kind \in {"ok", "failed"} :
         Says(kind, 0) \in [kind: Kinds, rev: Nat] /\ Says(kind, 0) # NoAnswer
  BY Answers DEF Kinds, Says, NoAnswer
<1>3. CASE Ends(t, Says("failed", 0))
  BY <1>1, <1>2, <1>3, Refuses DEF Refusal
<1>4. CASE Ends(t, Says("ok", 0))
  <2>1. /\ job' \in [Clients -> Jobs] /\ Others(t) /\ Same(job[t], job'[t])
        /\ job'[t].at = "done" /\ job'[t].ans = Says("ok", 0)
    BY <1>2, <1>4, EndsHere DEF Same, TInv, IInv, TypeOK
  <2>2. Told(job'[t])
    BY <1>1, <1>2, <2>1 DEF Told, Same, Asked, Open
  <2>3. job[t].ans = NoAnswer
    BY <1>1 DEF TInv, Told
  <2>4. Served!Waits(t, {"seed"}) /\ Served!Answered(t, Says("ok", 0))
    BY <1>1, <2>1, <2>3, StillWaits, AnswersOnce
  <2>5. Served!Seeded(t)
    BY <1>1, <2>4 DEF Served!Seeded, Served!Says, Says
  <2> QED
    BY <2>2, <2>5 DEF Mapped, Served!Next
<1> QED
  BY <1>1, <1>3, <1>4

LEMMA SetHeadMaps == ASSUME TInv, NEW t \in Clients, SetHead(t) PROVE Told(job'[t]) /\ Mapped
<1>1. /\ job[t].at = "head" /\ UNCHANGED <<file, hist>>
      /\ IF job[t].op = "seed" THEN Goes(t, "write") ELSE Ends(t, job[t].ans)
  BY DEF SetHead
<1>2. CASE job[t].op = "seed"
  <2>1. job[t].ans = NoAnswer
    BY <1>1, <1>2 DEF TInv, Told
  <2> QED
    BY <1>1, <1>2, <2>1, GoesUnseen DEF Steps, Open
<1>3. CASE job[t].op # "seed"
  <2>1. job[t].ans # NoAnswer
    BY <1>1, <1>3 DEF TInv, Told, Open
  <2> QED
    BY <1>1, <1>3, <2>1, Finishes
<1> QED
  BY <1>2, <1>3

LEMMA UnlinkMaps == ASSUME TInv, NEW t \in Clients, Unlink(t) PROVE Told(job'[t]) /\ Mapped
<1>1. /\ job[t].at = "unlink" /\ file' = [file EXCEPT ![job[t].g] = None] /\ hist' = hist
      /\ Becomes(t, [job[t] EXCEPT !.at = "unhead", !.ans = Says("ok", 0)])
  BY Zenon DEF Unlink
<1>2. /\ job[t].at \in Open \ {"idle"} /\ job[t].op = "delete" /\ Readable(job[t].g)
      /\ file[job[t].g].rev = job[t].rev
  BY <1>1 DEF Open, TInv, IInv, Fit, Shape, StillReads
<1> QED
  BY <1>1, <1>2, RemovesServed

LEMMA DropHeadMaps == ASSUME TInv, NEW t \in Clients, DropHead(t) PROVE Told(job'[t]) /\ Mapped
<1>1. job[t].at = "unhead" /\ Goes(t, "drop") /\ UNCHANGED <<file, hist>>
  BY DEF DropHead
<1>2. job[t].ans # NoAnswer
  BY <1>1 DEF TInv, Told, Open
<1> QED
  BY <1>1, <1>2, GoesUnseen DEF Steps, Open

LEMMA DropLockMaps == ASSUME TInv, NEW t \in Clients, DropLock(t) PROVE Told(job'[t]) /\ Mapped
<1>1. job[t].at = "drop" /\ Ends(t, job[t].ans) /\ UNCHANGED <<file, hist>>
  BY DEF DropLock
<1>2. job[t].ans # NoAnswer
  BY <1>1 DEF TInv, Told, Open
<1> QED
  BY <1>1, <1>2, Finishes

LEMMA ReturnMaps == ASSUME TInv, NEW t \in Clients, Return(t) PROVE Told(job'[t]) /\ Mapped
<1>1. /\ job[t].at = "done" /\ Becomes(t, Idle) /\ UNCHANGED <<file, hist>>
  BY DEF Return
<1>2. job[t].ans # NoAnswer /\ job[t] \in Jobs /\ job[t].at # "idle"
  BY <1>1 DEF TInv, Told, Open, IInv, TypeOK
<1>3. job' \in [Clients -> Jobs] /\ Others(t) /\ job'[t] = Idle
  BY <1>1, IdleType, Becoming DEF Others, TInv, IInv, TypeOK
<1>4. Told(Idle)
  BY IdleType DEF Told, Open, Idle
<1>5. Request(t) # None /\ Request(t).ans = job[t].ans
  BY <1>2, RequestType
<1>6. Call' = [Call EXCEPT ![t] = None]
  <2>1. \A u \in Clients \ {t} : Request(u)' = Request(u)
    BY <1>3 DEF Others, Request
  <2>2. Request(t)' = None
    BY <1>3, IdleType DEF Request
  <2> QED
    BY <2>1, <2>2 DEF Call
<1>7. Served!Return(t)
  BY <1>1, <1>2, <1>5, <1>6, SameTerms DEF Served!Return, Call
<1> QED
  BY <1>3, <1>4, <1>7 DEF Mapped, Served!Next

-----------------------------------------------------------------------------
(* Faults, and the induction.                                              *)

LEMMA DamageMaps == ASSUME TInv, NEW g \in Graphs, Damage(g) PROVE Mapped
<1>1. Readable(g) /\ file' = [file EXCEPT ![g] = Damaged] /\ hist'.made = hist.made /\ job' = job
  BY DEF Damage, TInv, IInv, TypeOK
<1>2. Call' = Call
  BY <1>1 DEF Call, Request
<1>3. Served!Damage(g)
  BY <1>1, <1>2, SameTerms DEF Served!Damage, Call
<1> QED
  BY <1>3 DEF Mapped, Served!Next

LEMMA CrashMaps == ASSUME TInv, Crash PROVE (\A t \in Clients : Told(job'[t])) /\ Mapped
<1>1. file' = file /\ hist'.made = hist.made /\ job' = [t \in Clients |-> Idle]
  BY DEF Crash, TInv, IInv, TypeOK
<1>2. Told(Idle)
  BY DEF Told, Open, Idle
<1>3. Call' = [t \in Clients |-> None]
  BY <1>1, IdleType DEF Call, Request
<1>4. Served!Crash
  BY <1>1, <1>3 DEF Served!Crash, Call
<1> QED
  BY <1>1, <1>2, <1>4 DEF Mapped, Served!Next

LEMMA InitMaps == Init => TInv /\ Served!Init
<1> SUFFICES ASSUME Init PROVE TInv /\ Served!Init
  OBVIOUS
<1> DEFINE d == CHOOSE c \in Contents : TRUE
<1>1. PICK bad \in SUBSET DOMAIN First :
        file = [g \in Graphs |-> IF g \in bad THEN Damaged
                                 ELSE IF g \in DOMAIN First
                                 THEN [rev |-> 1, name |-> First[g], data |-> d] ELSE None]
  BY Zenon DEF Init
<1>2. d \in Contents
  BY ContentsAssumption
<1> HIDE DEF d
<1>3. Told(Idle)
  BY DEF Told, Open, Idle
<1>4. TInv
  BY <1>3, InitHolds DEF TInv, Init
<1> DEFINE first == DOMAIN First
           named == [g \in first |-> First[g]]
           data == [g \in first |-> d]
<1>5. first \in SUBSET Graphs /\ bad \in SUBSET first /\ hist.made = first
  BY FirstAssumption DEF Init
<1>6. named \in [first -> Names] /\ data \in [first -> Contents]
  BY <1>2, FirstAssumption
<1>7. file = [g \in Graphs |-> IF g \in bad THEN Damaged
                               ELSE IF g \in first
                               THEN [rev |-> 1, name |-> named[g], data |-> data[g]] ELSE None]
  BY <1>1
<1>8. Call = [t \in Clients |-> None]
  BY IdleType DEF Init, Call, Request
<1> HIDE DEF first, named, data
<1>9. \E b \in SUBSET first, n \in [first -> Names], c \in [first -> Contents] :
         file = [g \in Graphs |-> IF g \in b THEN Damaged
                                 ELSE IF g \in first
                                 THEN [rev |-> 1, name |-> n[g], data |-> c[g]] ELSE None]
  <2> USE <1>5, <1>6
  <2> WITNESS bad \in SUBSET first, named \in [first -> Names], data \in [first -> Contents]
  <2> QED
    BY <1>7
<1>10. \E s \in SUBSET Graphs :
         /\ hist.made = s
         /\ \E b \in SUBSET s, n \in [s -> Names], c \in [s -> Contents] :
              file = [g \in Graphs |-> IF g \in b THEN Damaged
                                      ELSE IF g \in s
                                      THEN [rev |-> 1, name |-> n[g], data |-> c[g]] ELSE None]
  BY <1>5, <1>9
<1>11. Served!Init
  BY <1>8, <1>10 DEF Served!Init, Call
<1> QED
  BY <1>4, <1>11

LEMMA StepMaps == TInv /\ [Next]_vars => TInv' /\ Mapped
<1> SUFFICES ASSUME TInv, [Next]_vars PROVE TInv' /\ Mapped
  OBVIOUS
<1>1. IInv'
  BY StepKeeps DEF TInv
<1>2. ASSUME NEW t \in Clients, Step(t) PROVE Told(job'[t]) /\ Mapped
  BY <1>2, AskMaps, ReadSourceMaps, FindLockMaps, TakeLockMaps, ReadGraphMaps, TakeNamesMaps,
     CheckNameMaps, WriteUpdateMaps, WriteNewMaps, WriteFailsMaps, SeedOneMaps, SeedEndsMaps,
     SetHeadMaps, UnlinkMaps, DropHeadMaps, DropLockMaps, ReturnMaps, Zenon DEF Step
<1>3. ASSUME NEW t \in Clients, Step(t) PROVE TInv' /\ Mapped
  <2>1. \E k : Becomes(t, k)
    BY <1>3, Zenon
       DEF Step, Ask, ReadSource, FindLock, TakeLock, ReadGraph, TakeNames, CheckName,
           WriteUpdate, WriteNew, WriteFails, SeedOne, SeedEnds, SetHead, Unlink, DropHead,
           DropLock, Return, Goes, Ends
  <2>2. \A u \in Clients \ {t} : job'[u] = job[u]
    BY <2>1 DEF Becomes, TInv, IInv, TypeOK
  <2> QED
    BY <1>1, <1>2, <1>3, <2>2 DEF TInv
<1>4. CASE UNCHANGED vars
  BY <1>1, <1>4 DEF vars, TInv, Mapped, Served!vars, Request
<1>5. ASSUME NEW g \in Graphs, Damage(g) PROVE TInv' /\ Mapped
  <2>1. job' = job
    BY <1>5 DEF Damage
  <2> QED
    BY <1>1, <1>5, <2>1, DamageMaps DEF TInv
<1>6. CASE Crash
  BY <1>1, <1>6, CrashMaps DEF TInv
<1> QED
  BY <1>3, <1>4, <1>5, <1>6 DEF Next

\* The store implements GraphServer: whatever requests overlap, fail or are cut off by a
\* restart, each one is served as a whole at the write that decides it, or refused for a
\* reason that holds at that moment (storage.py create, update, delete, seed).
THEOREM Implements == Spec => Linearizable
<1>1. Init => Served!Init
  BY InitMaps
<1>2. Spec => []TInv
  BY InitMaps, StepMaps, PTL DEF Spec
<1>3. TInv /\ [Next]_vars => [Served!Next]_Served!vars
  BY StepMaps DEF Mapped
<1> QED
  BY <1>1, <1>2, <1>3, PTL DEF Spec, Linearizable, Served!Spec
=============================================================================
