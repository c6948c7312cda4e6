----------------------------- MODULE GraphStore -----------------------------
(***************************************************************************)
(* The graphs of the node builder on the server: GraphStore in              *)
(* nodebuilder/storage.py.  Requests run on threads; a lock per graph guards *)
(* its file, one lock guards the names, and an index in memory holds the rev  *)
(* and name of every graph.  Locks are objects: the one of a deleted graph   *)
(* is forgotten, though a request may still hold it or wait for it.          *)
(***************************************************************************)
EXTENDS Naturals, FiniteSets

CONSTANTS
    Clients,     \* request threads
    Graphs,      \* ids, in use or yet to be drawn
    First,       \* the graphs stored at first, some of them perhaps damaged: id -> name
    Names,       \* graph names, compared without case
    Contents,    \* what a graph computes
    Legacy,      \* names of the graphs of the old localStorage key, which are their contents
    SeedNames,   \* the names the store tries for each of them
    Locks,       \* lock objects
    None,
    Damaged,     \* a file that cannot be read
    EarlyUse,    \* a graph may be used before the request that makes it is answered
    MaxRev,      \* bound: revs of one graph
    MaxFault     \* bound: damaged files and restarts

Env == [rev: Nat, name: Names, data: Contents]

ASSUME NoneAssumption ==
    /\ None \notin Graphs \cup Names \cup Locks \cup Clients \cup Env \cup {Damaged}
    /\ Damaged \notin Env
ASSUME FirstAssumption ==
    /\ DOMAIN First \subseteq Graphs /\ First \in [DOMAIN First -> Names]
    /\ \A g, h \in DOMAIN First : First[g] = First[h] => g = h
ASSUME LegacyAssumption == Legacy \subseteq Contents /\ SeedNames \in [Legacy -> SUBSET Names]
ASSUME ContentsAssumption == Contents # {} /\ None \notin Contents
ASSUME BoundAssumption == EarlyUse \in BOOLEAN /\ {MaxRev, MaxFault} \subseteq Nat

VARIABLES
    file,     \* graphs/<id>.json: None, Damaged or [rev, name, data]
    heads,    \* _heads: id -> None or [rev, name]
    lockOf,   \* _locks: id -> None or a lock object
    names,    \* who holds _names_lock
    job,      \* the requests
    hist      \* history: the ids given out, and the faults, for their bound

vars == <<file, heads, lockOf, names, job, hist>>

HeadOf(f) == IF f \in {None, Damaged} THEN None ELSE [rev |-> f.rev, name |-> f.name]

Ops == {"none", "create", "copy", "update", "delete", "seed"}
Steps == {"idle", "source", "lock", "wait", "read", "names", "check", "write", "unlink",
          "unhead", "drop", "head", "done"}
Kinds == {"none", "ok", "taken", "missing", "corrupt", "conflict", "failed"}
NoAnswer == [kind |-> "none", rev |-> 0]
Says(kind, rev) == [kind |-> kind, rev |-> rev]

\* g is the graph asked about, new the one written, old the name it had or seed gave it;
\* seen holds the envelopes seed has read and added, left the legacy graphs it has not done.
Idle == [at |-> "idle", op |-> "none", g |-> None, rev |-> 0, name |-> None, data |-> None,
         lock |-> None, new |-> None, old |-> None, left |-> {}, seen |-> {}, ans |-> NoAnswer]

Seen == [name: Names, data: Contents]

Jobs == [at: Steps, op: Ops, g: Graphs \cup {None}, rev: Nat, name: Names \cup {None},
         data: Contents \cup {None}, lock: Locks \cup {None}, new: Graphs \cup {None},
         old: Names \cup {None}, left: SUBSET Legacy, seen: SUBSET Seen,
         ans: [kind: Kinds, rev: Nat]]

\* What the client of a request knows of it (GraphServer).
Calls == [op: Ops, g: Graphs \cup {None}, rev: Nat, name: Names \cup {None},
          data: Contents \cup {None}, ans: [kind: Kinds, rev: Nat]]

ASSUME NoCallAssumption == None \notin Calls

TypeOK ==
    /\ file \in [Graphs -> Env \cup {None, Damaged}]
    /\ heads \in [Graphs -> [rev: Nat, name: Names] \cup {None}]
    /\ lockOf \in [Graphs -> Locks \cup {None}]
    /\ names \in Clients \cup {None}
    /\ job \in [Clients -> Jobs]
    /\ hist \in [made: SUBSET Graphs, faults: 0..MaxFault]

Readable(g) == file[g] \notin {None, Damaged}
Owners(name) == {g \in Graphs : Readable(g) /\ file[g].name = name}
Stored == {[name |-> file[g].name, data |-> file[g].data] : g \in {h \in Graphs : Readable(h)}}

\* The server starts; files may have been damaged before.
Init ==
    /\ \E bad \in SUBSET DOMAIN First :
          file = [g \in Graphs |->
                    IF g \in bad THEN Damaged
                    ELSE IF g \in DOMAIN First
                    THEN [rev |-> 1, name |-> First[g], data |-> CHOOSE d \in Contents : TRUE]
                    ELSE None]
    /\ heads = [g \in Graphs |-> HeadOf(file[g])]
    /\ lockOf = [g \in Graphs |-> None] /\ names = None
    /\ job = [t \in Clients |-> Idle]
    /\ hist = [made |-> DOMAIN First, faults |-> 0]

-----------------------------------------------------------------------------
(* Steps of a request.                                                     *)

Becomes(t, j) == job' = [job EXCEPT ![t] = j]
Goes(t, at) == Becomes(t, [job[t] EXCEPT !.at = at])
Ends(t, answer) ==
    Becomes(t, [job[t] EXCEPT !.at = "done", !.ans = answer, !.lock = None,
                              !.new = None, !.old = None, !.left = {}, !.seen = {}])
Drops(t) == IF names = t THEN None ELSE names
Inside(t) == job[t].lock # None /\ job[t].at # "wait"

\* Between the write of a new file and the answer to its create.
Making(g) == \E t \in Clients : job[t].at = "head" /\ job[t].op # "update" /\ job[t].new = g
Usable(g) == g \in hist.made /\ (EarlyUse \/ ~Making(g))

Ask(t) ==
    /\ job[t].at = "idle"
    /\ \/ \E name \in Names, data \in Contents :
             Becomes(t, [Idle EXCEPT !.at = "names", !.op = "create", !.name = name,
                                     !.data = data])
       \/ \E name \in Names, g \in Graphs :
             /\ Usable(g)
             /\ Becomes(t, [Idle EXCEPT !.at = "source", !.op = "copy", !.name = name, !.g = g])
       \/ \E name \in Names \cup {None}, g \in Graphs, rev \in 1..MaxRev, data \in Contents :
             /\ Usable(g) /\ (Readable(g) => rev <= file[g].rev)
             /\ Becomes(t, [Idle EXCEPT !.at = "lock", !.op = "update", !.g = g, !.rev = rev,
                                        !.name = name, !.data = data])
       \/ \E g \in Graphs, rev \in 1..MaxRev :
             /\ Usable(g) /\ (Readable(g) => rev <= file[g].rev)
             /\ Becomes(t, [Idle EXCEPT !.at = "lock", !.op = "delete", !.g = g, !.rev = rev])
       \/ Becomes(t, [Idle EXCEPT !.at = "names", !.op = "seed", !.left = Legacy])
    /\ UNCHANGED <<file, heads, lockOf, names, hist>>

\* duplicate_of: the source is read before any lock is taken.
ReadSource(t) ==
    /\ job[t].at = "source"
    /\ LET f == file[job[t].g] IN
       IF f \in {None, Damaged}
       THEN Ends(t, Says(IF f = None THEN "missing" ELSE "corrupt", 0))
       ELSE Becomes(t, [job[t] EXCEPT !.at = "names", !.data = f.data])
    /\ UNCHANGED <<file, heads, lockOf, names, hist>>

\* _lock_for: the lock in the map, or a new one.
Unused == {l \in Locks : /\ \A g \in Graphs : lockOf[g] # l
                         /\ \A t \in Clients : job[t].lock # l}

FindLock(t) ==
    /\ job[t].at = "lock"
    /\ LET g == job[t].g
           l == IF lockOf[g] # None THEN lockOf[g] ELSE CHOOSE new \in Unused : TRUE
       IN  /\ lockOf[g] = None => Unused # {}
           /\ lockOf' = [lockOf EXCEPT ![g] = l]
           /\ Becomes(t, [job[t] EXCEPT !.at = "wait", !.lock = l])
    /\ UNCHANGED <<file, heads, names, hist>>

\* Mutant: nobody waits for the graph's lock.
TakeLockFree(t) ==
    /\ job[t].at = "wait"
    /\ Goes(t, "read")
    /\ UNCHANGED <<file, heads, lockOf, names, hist>>

TakeLock(t) ==
    /\ job[t].at = "wait"
    /\ \A u \in Clients : Inside(u) => job[u].lock # job[t].lock
    /\ Goes(t, "read")
    /\ UNCHANGED <<file, heads, lockOf, names, hist>>

\* update and delete, once the graph's lock is held: a missing graph takes its lock out
\* of the map; a damaged one can only be deleted, which moves its file aside.
ReadGraph(t) ==
    /\ job[t].at = "read"
    /\ LET g == job[t].g  f == file[g] IN
       \/ /\ f = None /\ Ends(t, Says("missing", 0))
          /\ lockOf' = [lockOf EXCEPT ![g] = None] /\ file' = file
       \/ /\ f = Damaged /\ job[t].op = "update" /\ Ends(t, Says("corrupt", 0))
          /\ UNCHANGED <<file, lockOf>>
       \/ /\ f = Damaged /\ job[t].op = "delete"
          /\ file' = [file EXCEPT ![g] = None]
          /\ Becomes(t, [job[t] EXCEPT !.at = "unhead", !.ans = Says("ok", 0)])
          /\ UNCHANGED lockOf
       \/ /\ Readable(g) /\ f.rev # job[t].rev /\ Ends(t, Says("conflict", f.rev))
          /\ UNCHANGED <<file, lockOf>>
       \/ /\ Readable(g) /\ f.rev = job[t].rev /\ job[t].op = "delete" /\ Goes(t, "unlink")
          /\ UNCHANGED <<file, lockOf>>
       \/ /\ Readable(g) /\ f.rev = job[t].rev /\ job[t].op = "update"
          /\ Becomes(t, [job[t] EXCEPT
                           !.at = IF job[t].name \in {None, f.name} THEN "write" ELSE "names",
                           !.old = f.name, !.new = g])
          /\ UNCHANGED <<file, lockOf>>
    /\ UNCHANGED <<heads, names, hist>>

\* Mutant: the names are looked at without their lock.
TakeNamesFree(t) ==
    /\ job[t].at = "names" /\ names' = t
    /\ Becomes(t, [job[t] EXCEPT !.at = IF job[t].op = "seed" THEN "write" ELSE "check",
                                  !.seen = IF job[t].op = "seed" THEN Stored ELSE {}])
    /\ UNCHANGED <<file, heads, lockOf, hist>>

\* Every graph file is read while the names lock is held.
TakeNames(t) ==
    /\ job[t].at = "names" /\ names = None /\ names' = t
    /\ Becomes(t, [job[t] EXCEPT !.at = IF job[t].op = "seed" THEN "write" ELSE "check",
                                  !.seen = IF job[t].op = "seed" THEN Stored ELSE {}])
    /\ UNCHANGED <<file, heads, lockOf, hist>>

CheckName(t) ==
    /\ job[t].at = "check"
    /\ IF Owners(job[t].name) \ {job[t].new} # {}
       THEN Ends(t, Says("taken", 0)) /\ names' = None
       ELSE Goes(t, "write") /\ UNCHANGED names
    /\ UNCHANGED <<file, heads, lockOf, hist>>

\* The file of update: the next rev, under the new name or the one it had.
WriteUpdate(t) ==
    /\ job[t].at = "write" /\ job[t].op = "update" /\ job[t].rev < MaxRev
    /\ file' = [file EXCEPT ![job[t].g] =
                  [rev |-> job[t].rev + 1, data |-> job[t].data,
                   name |-> IF job[t].name = None THEN job[t].old ELSE job[t].name]]
    /\ Becomes(t, [job[t] EXCEPT !.at = "head", !.ans = Says("ok", job[t].rev + 1)])
    /\ UNCHANGED <<heads, lockOf, names, hist>>

\* _create_locked: an id never drawn before.
WriteNew(t) ==
    /\ job[t].at = "write" /\ job[t].op \in {"create", "copy"}
    /\ \E g \in Graphs \ hist.made :
          /\ file' = [file EXCEPT ![g] = [rev |-> 1, name |-> job[t].name, data |-> job[t].data]]
          /\ hist' = [hist EXCEPT !.made = @ \cup {g}]
          /\ Becomes(t, [job[t] EXCEPT !.at = "head", !.new = g, !.ans = Says("ok", 1)])
    /\ UNCHANGED <<heads, lockOf, names>>

\* The file cannot be written: the request fails and nothing has changed.
WriteFails(t) ==
    /\ job[t].at = "write" /\ job[t].op # "seed"
    /\ Ends(t, Says("failed", 0)) /\ names' = Drops(t)
    /\ UNCHANGED <<file, heads, lockOf, hist>>

\* seed, one legacy graph: skipped when one of its names holds the same contents, else
\* stored under a name no envelope it has seen uses.
SeedOne(t) ==
    /\ job[t].at = "write" /\ job[t].op = "seed"
    /\ \E n \in job[t].left :
          IF \E e \in job[t].seen : e.name \in SeedNames[n] /\ e.data = n
          THEN /\ Becomes(t, [job[t] EXCEPT !.left = @ \ {n}])
               /\ UNCHANGED <<file, hist>>
          ELSE \E g \in Graphs \ hist.made, name \in SeedNames[n] :
                  /\ \A e \in job[t].seen : e.name # name
                  /\ file' = [file EXCEPT ![g] = [rev |-> 1, name |-> name, data |-> n]]
                  /\ hist' = [hist EXCEPT !.made = @ \cup {g}]
                  /\ Becomes(t, [job[t] EXCEPT !.at = "head", !.new = g, !.old = name,
                                                !.left = @ \ {n},
                                                !.seen = @ \cup {[name |-> name, data |-> n]}])
    /\ UNCHANGED <<heads, lockOf, names>>

SeedEnds(t) ==
    /\ job[t].at = "write" /\ job[t].op = "seed"
    /\ \/ job[t].left = {} /\ Ends(t, Says("ok", 0))
       \/ Ends(t, Says("failed", 0))
    /\ names' = None /\ UNCHANGED <<file, heads, lockOf, hist>>

\* _set_head, with what was written; the locks go with the end of the request.
SetHead(t) ==
    /\ job[t].at = "head"
    /\ LET g == job[t].new
           name == IF job[t].name = None THEN job[t].old ELSE job[t].name
       IN  heads' = [heads EXCEPT ![g] =
                       [rev |-> IF job[t].op = "update" THEN job[t].rev + 1 ELSE 1,
                        name |-> name]]
    /\ IF job[t].op = "seed" THEN Goes(t, "write") ELSE Ends(t, job[t].ans)
    /\ names' = IF job[t].op = "seed" THEN names ELSE Drops(t)
    /\ UNCHANGED <<file, lockOf, hist>>

Unlink(t) ==
    /\ job[t].at = "unlink"
    /\ file' = [file EXCEPT ![job[t].g] = None]
    /\ Becomes(t, [job[t] EXCEPT !.at = "unhead", !.ans = Says("ok", 0)])
    /\ UNCHANGED <<heads, lockOf, names, hist>>

\* Mutant: the head outlives its file.
DropHeadNot(t) ==
    /\ job[t].at = "unhead"
    /\ Goes(t, "drop")
    /\ UNCHANGED <<file, heads, lockOf, names, hist>>

DropHead(t) ==
    /\ job[t].at = "unhead"
    /\ heads' = [heads EXCEPT ![job[t].g] = None]
    /\ Goes(t, "drop")
    /\ UNCHANGED <<file, lockOf, names, hist>>

\* _drop_lock: the map forgets the lock; who waits for it still has it.
DropLock(t) ==
    /\ job[t].at = "drop"
    /\ lockOf' = [lockOf EXCEPT ![job[t].g] = None]
    /\ Ends(t, job[t].ans)
    /\ UNCHANGED <<file, heads, names, hist>>

Return(t) ==
    /\ job[t].at = "done" /\ Becomes(t, Idle)
    /\ UNCHANGED <<file, heads, lockOf, names, hist>>

-----------------------------------------------------------------------------

\* Something outside the store damages a file no request is on.
Damage(g) ==
    /\ Readable(g) /\ hist.faults < MaxFault
    /\ \A t \in Clients : g \in {job[t].g, job[t].new} => job[t].at \in {"lock", "wait", "done"}
    /\ file' = [file EXCEPT ![g] = Damaged]
    /\ hist' = [hist EXCEPT !.faults = @ + 1]
    /\ UNCHANGED <<heads, lockOf, names, job>>

\* The server dies; the next one fills its index from the files.
Crash ==
    /\ hist.faults < MaxFault
    /\ hist' = [hist EXCEPT !.faults = @ + 1]
    /\ heads' = [g \in Graphs |-> HeadOf(file[g])]
    /\ lockOf' = [g \in Graphs |-> None] /\ names' = None
    /\ job' = [t \in Clients |-> Idle]
    /\ UNCHANGED file

Step(t) ==
    \/ Ask(t) \/ ReadSource(t) \/ FindLock(t) \/ TakeLock(t) \/ ReadGraph(t)
    \/ TakeNames(t) \/ CheckName(t)
    \/ WriteUpdate(t) \/ WriteNew(t) \/ WriteFails(t) \/ SeedOne(t) \/ SeedEnds(t)
    \/ SetHead(t) \/ Unlink(t) \/ DropHead(t) \/ DropLock(t) \/ Return(t)

Next == (\E t \in Clients : Step(t)) \/ (\E g \in Graphs : Damage(g)) \/ Crash

Spec == Init /\ [][Next]_vars

-----------------------------------------------------------------------------
(* Properties.                                                             *)

\* No two requests are past the lock of one stored graph at the same time, though a
\* delete or a miss takes the lock out of the map while others hold it or wait for it
\* (storage.py _lock_for, _drop_lock).
OneInside ==
    \A t, u \in Clients :
        Inside(t) /\ Inside(u) /\ job[t].g = job[u].g /\ file[job[t].g] # None => t = u

\* No two stored graphs share a name, whatever creates, renames, copies and imports
\* overlap (storage.py _names_lock).
NamesUnique ==
    \A g, h \in Graphs : Readable(g) /\ Readable(h) /\ file[g].name = file[h].name => g = h

\* When no request is on a graph, the index says of it what its file says; of a damaged
\* file it may still hold what it held (storage.py _set_head, _drop_head, graph_head).
Quiet(g) == \A t \in Clients : job[t].at \in {"idle", "done"} \/ g \notin {job[t].g, job[t].new}
HeadsInStep == \A g \in Graphs : Quiet(g) /\ file[g] # Damaged => heads[g] = HeadOf(file[g])

\* Every request is as if it had been served at one moment (GraphServer).
Request(t) ==
    IF job[t].at = "idle" THEN None
    ELSE [op |-> job[t].op, g |-> job[t].g, rev |-> job[t].rev, name |-> job[t].name,
          data |-> IF job[t].op = "copy" THEN None ELSE job[t].data, ans |-> job[t].ans]

Served == INSTANCE GraphServer WITH
              graphs <- file, made <- hist.made, call <- [t \in Clients |-> Request(t)]
Linearizable == Served!Spec
=============================================================================
