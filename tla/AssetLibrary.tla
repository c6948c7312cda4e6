---------------------------- MODULE AssetLibrary ----------------------------
(***************************************************************************)
(* The asset library of the node builder: AssetLibrary in                   *)
(* nodebuilder/storage.py.  An asset's versions are files that are written   *)
(* once; a delete leaves a marker in place of the file.  Parsed files are     *)
(* cached.  Requests run on threads, a second process may add versions, and   *)
(* the server may die at any step.                                          *)
(***************************************************************************)
EXTENDS Naturals, Sequences, FiniteSets, SequencesExt, FiniteSetsExt

CONSTANTS
    Threads,
    Assets,
    None,
    CacheMax,    \* CACHE_MAX
    MaxVersion,  \* bound: versions of one asset
    MaxRestart   \* bound: restarts


Versions == 1..MaxVersion
Keys == Assets \X Versions

VARIABLES
    files,    \* the .json files: the keys that have one
    markers,  \* the .deleted files
    cache,    \* _cache, oldest first, a key at most once
    gen,      \* _generation
    lock,     \* who holds _lock
    th,       \* the requests: at, op, the key, and the generation a read saw
    past      \* history: keys ever written, keys whose delete was answered, restarts

vars == <<files, markers, cache, gen, lock, th, past>>

Idle == [at |-> "idle", op |-> "none", key |-> None, gen |-> 0, late |-> FALSE]
Steps == {"idle", "lock", "pick", "link", "keep", "look", "mark", "unlink", "forget",
          "read", "open", "fill", "served", "refused"}

TypeOK ==
    /\ files \subseteq Keys /\ markers \subseteq Keys
    /\ cache \in Seq(Keys) /\ Len(cache) <= CacheMax
    /\ gen \in Nat /\ lock \in Threads \cup {None}
    /\ th \in [Threads -> [at: Steps, op: {"none", "create", "delete", "get"},
                           key: Keys \cup {None} \cup (Assets \X {0}), gen: Nat,
                           late: BOOLEAN]]
    /\ past \in [given: SUBSET Keys, deleted: SUBSET Keys, restarts: 0..MaxRestart]

Init ==
    /\ files = {} /\ markers = {} /\ cache = <<>> /\ gen = 0 /\ lock = None
    /\ th = [t \in Threads |-> Idle]
    /\ past = [given |-> {}, deleted |-> {}, restarts |-> 0]

-----------------------------------------------------------------------------

Goes(t, at) == th' = [th EXCEPT ![t].at = at]
Frees(t) == lock' = IF lock = t THEN None ELSE lock

\* _remember: newest last, oldest out.
Remembered(key) ==
    LET s == Append(RemoveFirst(cache, key), key)
    IN  IF Len(s) > CacheMax THEN Tail(s) ELSE s

Cached(key) == \E i \in DOMAIN cache : cache[i] = key

\* Mutant: only the files that are left count.
HighWaterLeft(a) == Max({0} \cup {k[2] : k \in {j \in files : j[1] = a}})

\* _high_water, deleted versions included.
HighWater(a) == Max({0} \cup {k[2] : k \in {j \in files \cup markers : j[1] = a}})

Ask(t) ==
    /\ th[t].at = "idle"
    /\ \/ \E a \in Assets :
             th' = [th EXCEPT ![t] = [Idle EXCEPT !.at = "lock", !.op = "create", !.key = <<a, 0>>]]
       \/ \E k \in past.given :
             th' = [th EXCEPT ![t] = [Idle EXCEPT !.at = "lock", !.op = "delete", !.key = k]]
       \/ \E k \in past.given :
             th' = [th EXCEPT ![t] = [Idle EXCEPT !.at = "read", !.op = "get", !.key = k,
                                                  !.late = k \in past.deleted]]
    /\ UNCHANGED <<files, markers, cache, gen, lock, past>>

TakeLock(t) ==
    /\ th[t].at = "lock" /\ lock = None /\ lock' = t
    /\ Goes(t, IF th[t].op = "create" THEN "pick" ELSE "look")
    /\ UNCHANGED <<files, markers, cache, gen, past>>

\* create: the next number, then a write that refuses an existing file.
Pick(t) ==
    /\ th[t].at = "pick"
    /\ LET a == th[t].key[1] IN
       /\ HighWater(a) < MaxVersion
       /\ th' = [th EXCEPT ![t].at = "link", ![t].key = <<a, HighWater(a) + 1>>]
    /\ UNCHANGED <<files, markers, cache, gen, lock, past>>

Link(t) ==
    /\ th[t].at = "link"
    /\ \/ /\ th[t].key \notin files
          /\ files' = files \cup {th[t].key}
          /\ past' = [past EXCEPT !.given = @ \cup {th[t].key}]
          /\ Goes(t, "keep") /\ UNCHANGED lock
       \/ \* AssetVersionTakenError, or the disk refuses
          Goes(t, "refused") /\ Frees(t) /\ UNCHANGED <<files, past>>
    /\ UNCHANGED <<markers, cache, gen>>

Keep(t) ==
    /\ th[t].at = "keep"
    /\ cache' = Remembered(th[t].key)
    /\ Goes(t, "served") /\ Frees(t)
    /\ UNCHANGED <<files, markers, gen, past>>

\* delete: the marker first, then the file, then the cache.
Look(t) ==
    /\ th[t].at = "look"
    /\ IF th[t].key \in files THEN Goes(t, "mark") /\ UNCHANGED lock
       ELSE Goes(t, "refused") /\ Frees(t)
    /\ UNCHANGED <<files, markers, cache, gen, past>>

Mark(t) ==
    /\ th[t].at = "mark"
    /\ markers' = markers \cup {th[t].key} /\ Goes(t, "unlink")
    /\ UNCHANGED <<files, cache, gen, lock, past>>

Unlink(t) ==
    /\ th[t].at = "unlink"
    /\ \/ files' = files \ {th[t].key} /\ Goes(t, "forget") /\ UNCHANGED lock
       \/ UNCHANGED files /\ Goes(t, "refused") /\ Frees(t)
    /\ UNCHANGED <<markers, cache, gen, past>>

Forget(t) ==
    /\ th[t].at = "forget"
    /\ gen' = gen + 1
    /\ cache' = RemoveFirst(cache, th[t].key)
    /\ past' = [past EXCEPT !.deleted = @ \cup {th[t].key}]
    /\ Goes(t, "served") /\ Frees(t)
    /\ UNCHANGED <<files, markers>>

\* _read: the cached copy, or the file; what it parsed is cached only when no delete ran
\* since it missed the cache.
LookInCache(t) ==
    /\ th[t].at = "read"
    /\ IF Cached(th[t].key)
       THEN cache' = Remembered(th[t].key) /\ Goes(t, "served")
       ELSE /\ th' = [th EXCEPT ![t].at = "open", ![t].gen = gen]
            /\ UNCHANGED cache
    /\ UNCHANGED <<files, markers, gen, lock, past>>

ReadFile(t) ==
    /\ th[t].at = "open"
    /\ Goes(t, IF th[t].key \in files THEN "fill" ELSE "refused")
    /\ UNCHANGED <<files, markers, cache, gen, lock, past>>

\* Mutant: what was parsed is cached whatever was deleted meanwhile.
FillAnyway(t) ==
    /\ th[t].at = "fill"
    /\ cache' = Remembered(th[t].key)
    /\ Goes(t, "served")
    /\ UNCHANGED <<files, markers, gen, lock, past>>

Fill(t) ==
    /\ th[t].at = "fill"
    /\ cache' = IF gen = th[t].gen THEN Remembered(th[t].key) ELSE cache
    /\ Goes(t, "served")
    /\ UNCHANGED <<files, markers, gen, lock, past>>

Return(t) ==
    /\ th[t].at \in {"served", "refused"} /\ th' = [th EXCEPT ![t] = Idle]
    /\ UNCHANGED <<files, markers, cache, gen, lock, past>>

\* Another process saves an asset in the same folder.
Outside(a) ==
    /\ HighWater(a) < MaxVersion
    /\ LET key == <<a, HighWater(a) + 1>> IN
       files' = files \cup {key} /\ past' = [past EXCEPT !.given = @ \cup {key}]
    /\ UNCHANGED <<markers, cache, gen, lock, th>>

Restart ==
    /\ past.restarts < MaxRestart
    /\ past' = [past EXCEPT !.restarts = @ + 1]
    /\ cache' = <<>> /\ gen' = 0 /\ lock' = None /\ th' = [t \in Threads |-> Idle]
    /\ UNCHANGED <<files, markers>>

Step(t) ==
    \/ Ask(t) \/ TakeLock(t) \/ Pick(t) \/ Link(t) \/ Keep(t)
    \/ Look(t) \/ Mark(t) \/ Unlink(t) \/ Forget(t)
    \/ LookInCache(t) \/ ReadFile(t) \/ Fill(t) \/ Return(t)

Next == (\E t \in Threads : Step(t)) \/ (\E a \in Assets : Outside(a)) \/ Restart

Spec == Init /\ [][Next]_vars

-----------------------------------------------------------------------------
(* Properties.                                                             *)

\* A version number is given out once: a file never appears under a number that had one,
\* deleted or not, whatever deletes, restarts and other writers came between (the class
\* comment's "the number is never given out again").
NumberGivenOnce == [][(files' \ files) \cap past.given = {}]_vars

\* A request that begins after a delete was answered is not served the deleted version,
\* from the cache or otherwise ("a DELETE wins over a read in flight").
DeletedIsGone == \A t \in Threads : th[t].at = "served" => ~th[t].late

\* Without a delete on its way out, what is cached has its file: no read in flight
\* brings a deleted version back (_generation).
CacheHasFiles ==
    \A k \in ToSet(cache) :
        k \in files \/ \E t \in Threads : th[t].at = "forget" /\ th[t].key = k
=============================================================================
