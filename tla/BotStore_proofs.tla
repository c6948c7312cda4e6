---------------------------- MODULE BotStore_proofs ----------------------------
(* Proofs about what the bots keep together.  bots.json, for any number of         *)
(* threads, bots, rows, changes and restarts: it implements VersionedStore, so      *)
(* that the saves that land are states memory really had, each newer than the one   *)
(* before, and only a power loss brings an older one back; no row that load cannot  *)
(* read is lost or doubled; and an add that failed leaves nothing behind.  The fund, *)
(* for any number of threads, bots and restarts: what the bots take stays within it, *)
(* but for what edits add, and a spawned bot conflicts with no other when it joins. *)
EXTENDS MCStore, SequenceTheorems, FiniteSetTheorems, NaturalsInduction, WellFoundedInduction, TLAPS

-----------------------------------------------------------------------------
(* bots.json.                                                              *)

\* Which fields the records have.
IsMem(m) == m \in [ver: Nat, bots: {m.bots}, bad: {m.bad}]
IsJob(x) == x \in [at: {x.at}, op: {x.op}, bot: {x.bot}, order: {x.order}, snap: {x.snap}]
IsTemp(x) == x \in [content: {x.content}, synced: {x.synced}]
IsHist(h) ==
    h \in [downs: {h.downs}, losses: {h.losses}, unread: {h.unread}, added: {h.added},
           refused: {h.refused}, deleted: {h.deleted}]

Shaped ==
    /\ IsMem(mem) /\ IsHist(hist)
    /\ DOMAIN th = Threads /\ th = [t \in Threads |-> th[t]] /\ \A t \in Threads : IsJob(th[t])
    /\ DOMAIN temp = Threads /\ temp = [t \in Threads |-> temp[t]] /\ \A t \in Threads : IsTemp(temp[t])

\* Numbers of states.  What a power loss may leave is no newer than the file, and the
\* file is no newer than memory.
Numbered ==
    /\ up \in BOOLEAN /\ mem.ver \in Nat /\ file.ver \in Nat
    /\ \A c \in safe : c.ver \in 0..file.ver
    /\ up => file.ver <= mem.ver

\* Whoever saves holds the lock, and so the snapshot of a save that is being written is
\* no older than the file, although memory may have gone on.
Saving(t) ==
    /\ th[t].at \in {"snap", "write", "sync", "replace"} => lock = t
    /\ th[t].at \in {"write", "sync", "replace"} =>
          th[t].snap.ver \in Nat /\ file.ver <= th[t].snap.ver /\ th[t].snap.ver <= mem.ver
    /\ th[t].at \in {"sync", "replace"} => temp[t].content = th[t].snap
    /\ ~up => th[t].at = "idle"

IInv ==
    /\ Shaped /\ Numbered
    /\ lock \in Threads \cup {Free} /\ (~up => lock = Free)
    /\ \A t \in Threads : Saving(t)

\* What a step is to VersionedStore.
Mapped == [Store!Next]_(<<IF up THEN mem.ver ELSE file.ver, file.ver, hist.losses>>)

----------------------------------------------------------------------------

LEMMA InitMaps == Init => IInv /\ Store!Init
<1> SUFFICES ASSUME Init PROVE IInv /\ Store!Init
    OBVIOUS
<1>1. mem.ver = 0 /\ file.ver = 0 /\ safe = {file} /\ up = TRUE
    BY DEF Init, Loaded
<1>2. Shaped
    BY DEF Init, Loaded, Shaped, NoTemp, Idle, IsMem, IsJob, IsTemp, IsHist
<1>3. \A t \in Threads : Saving(t)
    BY DEF Init, Saving, Idle
<1> QED
    BY <1>1, <1>2, <1>3 DEF Init, IInv, Numbered, Store!Init

\* A thread that moves alone leaves the others as they were: those that save hold the
\* lock, so it can neither take it nor replace the file.
LEMMA OthersSave ==
    ASSUME IInv, NEW t \in Threads, NEW x, th' = [th EXCEPT ![t] = x], up, up' = up,
           mem'.ver \in Nat, mem.ver <= mem'.ver,
           \A u \in Threads \ {t} : temp'[u] = temp[u],
           file' = file \/ lock = t, lock' = lock \/ lock \in {t, Free}
    PROVE  \A u \in Threads \ {t} : Saving(u)'
<1> SUFFICES ASSUME NEW u \in Threads, u # t PROVE Saving(u)'
    OBVIOUS
<1>1. th'[u] = th[u] /\ temp'[u] = temp[u] /\ Saving(u)
    BY DEF IInv, Shaped
<1>2. CASE th[u].at \notin {"snap", "write", "sync", "replace"}
    BY <1>1, <1>2 DEF Saving
<1>3. CASE th[u].at \in {"snap", "write", "sync", "replace"}
    <2>1. lock = u /\ lock' = u /\ file' = file
        BY <1>1, <1>3, ThreadsAssumption DEF Saving
    <2> QED
        BY <1>1, <1>3, <2>1 DEF Saving, IInv, Numbered
<1> QED
    BY <1>2, <1>3

\* Memory changes, or nothing that VersionedStore sees.
LEMMA Quiet ==
    ASSUME IInv, up, up' = up, file' = file, safe' = safe, hist'.losses = hist.losses,
           mem'.ver \in {mem.ver, mem.ver + 1}
    PROVE  Numbered' /\ Mapped
BY DEF IInv, Numbered, Mapped, Store!Next, Store!Change

LEMMA Changes ==
    ASSUME IInv, NEW order
    PROVE  /\ IsMem(Changed(order)) /\ Changed(order).ver = mem.ver + 1
           /\ Changed(order).bots = order /\ Changed(order).bad = mem.bad
<1> DEFINE next == mem.ver + 1
<1>1. IsMem(mem) /\ mem.ver \in Nat /\ next \in Nat
    BY DEF IInv, Shaped, Numbered
<1>2. Changed(order) = [mem EXCEPT !.bots = order, !.ver = next]
    BY DEF Changed
<1> HIDE DEF next
<1>3. /\ IsMem(Changed(order)) /\ Changed(order).ver = next
      /\ Changed(order).bots = order /\ Changed(order).bad = mem.bad
    BY <1>1, <1>2 DEF IsMem
<1> QED
    BY <1>3 DEF next

LEMMA SetAt ==
    ASSUME IInv, NEW t \in Threads, NEW op, NEW at, Goes(t, op, at)
    PROVE  \E x : /\ th' = [th EXCEPT ![t] = x] /\ IsJob(x) /\ x.at = at /\ x.op = op
                  /\ x.bot = th[t].bot /\ x.snap = th[t].snap
<1> DEFINE x == [th[t] EXCEPT !.op = op, !.at = at]
<1>1. th' = [th EXCEPT ![t] = x]
    BY DEF Goes, IInv, Shaped
<1>2. IsJob(x) /\ x.at = at /\ x.op = op /\ x.bot = th[t].bot /\ x.snap = th[t].snap
    BY DEF IInv, Shaped, IsJob
<1> QED
    BY <1>1, <1>2

LEMMA ChangeMaps ==
    ASSUME IInv, NEW t \in Threads,
           BeginChange(t) \/ BeginDelete(t) \/ BeginAdd(t) \/ BeginReorder(t) \/ AssignOrder(t)
    PROVE  IInv' /\ Mapped
<1>1. up /\ UNCHANGED <<up, file, safe, temp, lock>>
    BY DEF BeginChange, BeginDelete, BeginAdd, BeginReorder, AssignOrder, Free2
<1>0. PICK x : th' = [th EXCEPT ![t] = x] /\ IsJob(x) /\ x.at \in {"ask", "insert", "assign"}
    <2>1. CASE BeginChange(t) \/ BeginDelete(t)
        <3>1. \/ Goes(t, "change", "ask")
              \/ Goes(t, "delete", "ask")
            BY <2>1 DEF BeginChange, BeginDelete
        <3>2. CASE Goes(t, "change", "ask")
            BY <3>2, SetAt
        <3>3. CASE Goes(t, "delete", "ask")
            BY <3>3, SetAt
        <3> QED
            BY <3>1, <3>2, <3>3
    <2>2. CASE BeginAdd(t)
        <3>1. PICK b : th' = [th EXCEPT ![t].op = "add", ![t].bot = b, ![t].at = "insert"]
            BY <2>2 DEF BeginAdd
        <3>2. th' = [th EXCEPT ![t] = [th[t] EXCEPT !.op = "add", !.bot = b, !.at = "insert"]]
            BY <3>1 DEF IInv, Shaped
        <3>3. IsJob([th[t] EXCEPT !.op = "add", !.bot = b, !.at = "insert"])
            BY DEF IInv, Shaped, IsJob
        <3> QED
            BY <3>2, <3>3 DEF IInv, Shaped, IsJob
    <2>3. CASE BeginReorder(t)
        <3>1. PICK o : th' = [th EXCEPT ![t].op = "reorder", ![t].at = "assign", ![t].order = o]
            BY <2>3 DEF BeginReorder
        <3>2. th' = [th EXCEPT ![t] = [th[t] EXCEPT !.op = "reorder", !.at = "assign", !.order = o]]
            BY <3>1 DEF IInv, Shaped
        <3>3. IsJob([th[t] EXCEPT !.op = "reorder", !.at = "assign", !.order = o])
            BY DEF IInv, Shaped, IsJob
        <3> QED
            BY <3>2, <3>3 DEF IInv, Shaped, IsJob
    <2>4. CASE AssignOrder(t)
        <3>1. th' = [th EXCEPT ![t] = [th[t] EXCEPT !.at = "ask", !.order = <<>>]]
            BY <2>4 DEF AssignOrder, IInv, Shaped
        <3>2. IsJob([th[t] EXCEPT !.at = "ask", !.order = <<>>])
            BY DEF IInv, Shaped, IsJob
        <3> QED
            BY <3>1, <3>2 DEF IInv, Shaped, IsJob
    <2> QED
        BY <2>1, <2>2, <2>3, <2>4
<1>2. /\ mem'.ver \in {mem.ver, mem.ver + 1}
      /\ IsMem(mem')
    <2>1. mem' = mem \/ \E order : mem' = Changed(order)
        <3>1. CASE BeginChange(t)
            BY <3>1 DEF BeginChange
        <3>2. CASE BeginDelete(t)
            BY <3>2 DEF BeginDelete
        <3>3. CASE BeginAdd(t) \/ BeginReorder(t)
            BY <3>3 DEF BeginAdd, BeginReorder
        <3>4. CASE AssignOrder(t)
            BY <3>4 DEF AssignOrder
        <3> QED
            BY <3>1, <3>2, <3>3, <3>4
    <2>2. IsMem(mem)
        BY DEF IInv, Shaped
    <2> QED
        BY <2>1, <2>2, Changes
<1>3. /\ hist'.losses = hist.losses
      /\ IsHist(hist')
    BY DEF IInv, Shaped, IsHist, BeginChange, BeginDelete, BeginAdd, BeginReorder, AssignOrder
<1>4. Shaped'
    BY <1>1, <1>2, <1>3, <1>0 DEF IInv, Shaped
<1>5. Saving(t)' /\ \A u \in Threads \ {t} : Saving(u)'
    BY <1>1, <1>2, <1>0, OthersSave DEF IInv, Shaped, Numbered, Saving
<1> QED
    BY <1>1, <1>2, <1>3, <1>4, <1>5, Quiet DEF IInv

\* A save: nothing that VersionedStore sees changes before the file is replaced.
LEMMA SaveMaps ==
    ASSUME IInv, NEW t \in Threads, Acquire(t) \/ Snapshot(t) \/ WriteTemp(t) \/ SyncTemp(t)
    PROVE  IInv' /\ Mapped
<1>1. up /\ UNCHANGED <<up, mem, file, safe, hist>>
    BY DEF Acquire, Snapshot, WriteTemp, SyncTemp
<1>2. IsJob(th[t]) /\ IsTemp(temp[t]) /\ Saving(t) /\ mem.ver \in Nat /\ file.ver \in Nat
      /\ file.ver <= mem.ver
    BY <1>1 DEF IInv, Shaped, Numbered
<1>3. PICK x : /\ th' = [th EXCEPT ![t] = x] /\ IsJob(x)
               /\ DOMAIN temp' = Threads /\ IsTemp(temp'[t])
               /\ \A u \in Threads \ {t} : temp'[u] = temp[u]
               /\ temp' = [u \in Threads |-> temp'[u]]
               /\ lock' = t
               /\ x.at \in {"snap", "write", "sync", "replace"}
               /\ x.at # "snap" => x.snap.ver \in Nat /\ file.ver <= x.snap.ver /\ x.snap.ver <= mem.ver
               /\ x.at \in {"sync", "replace"} => temp'[t].content = x.snap
               /\ lock \in {t, Free}
    <2>1. CASE Acquire(t)
        <3>1. Goes(t, th[t].op, "snap")
            BY <2>1 DEF Acquire
        <3>2. PICK x : th' = [th EXCEPT ![t] = x] /\ IsJob(x) /\ x.at = "snap"
            BY <3>1, SetAt
        <3> QED
            BY <1>2, <2>1, <3>2 DEF Acquire, IInv, Shaped
    <2>2. CASE Snapshot(t)
        <3> DEFINE c == [ver |-> mem.ver, rows |-> RowsToSave(mem)]
                   x == [th[t] EXCEPT !.at = "write", !.snap = c]
        <3>1. th' = [th EXCEPT ![t] = x]
            BY <2>2 DEF Snapshot, IInv, Shaped
        <3>2. c.ver = mem.ver
            OBVIOUS
        <3> HIDE DEF c
        <3>3. IsJob(x) /\ x.at = "write" /\ x.snap = c
            BY <1>2 DEF IsJob
        <3>4. lock = t /\ UNCHANGED <<temp, lock>>
            BY <1>2, <2>2 DEF Snapshot, Saving
        <3>5. IsTemp(temp'[t]) /\ DOMAIN temp' = Threads /\ temp' = [u \in Threads |-> temp'[u]]
              /\ \A u \in Threads \ {t} : temp'[u] = temp[u]
            BY <3>4 DEF IInv, Shaped
        <3>6. x.snap.ver \in Nat /\ file.ver <= x.snap.ver /\ x.snap.ver <= mem.ver
            BY <1>2, <3>2, <3>3
        <3> HIDE DEF x
        <3> QED
            BY <3>1, <3>3, <3>4, <3>5, <3>6
    <2>3. CASE WriteTemp(t)
        <3>1. Goes(t, th[t].op, "sync")
            BY <2>3 DEF WriteTemp
        <3>2. PICK x : th' = [th EXCEPT ![t] = x] /\ IsJob(x) /\ x.at = "sync" /\ x.snap = th[t].snap
            BY <3>1, SetAt
        <3>3. temp' = [temp EXCEPT ![t] = [content |-> th[t].snap, synced |-> FALSE]]
            BY <2>3 DEF WriteTemp
        <3>4. temp'[t].content = th[t].snap /\ IsTemp(temp'[t]) /\ DOMAIN temp' = Threads
              /\ temp' = [u \in Threads |-> temp'[u]] /\ \A u \in Threads \ {t} : temp'[u] = temp[u]
            BY <3>3 DEF IInv, Shaped, IsTemp
        <3>5. lock = t /\ lock' = lock
            BY <1>2, <2>3 DEF WriteTemp, Saving
        <3> QED
            BY <1>2, <2>3, <3>2, <3>4, <3>5 DEF Saving, WriteTemp
    <2>4. CASE SyncTemp(t)
        <3>1. Goes(t, th[t].op, "replace")
            BY <2>4 DEF SyncTemp
        <3>2. PICK x : th' = [th EXCEPT ![t] = x] /\ IsJob(x) /\ x.at = "replace" /\ x.snap = th[t].snap
            BY <3>1, SetAt
        <3>3. temp' = [temp EXCEPT ![t] = [temp[t] EXCEPT !.synced = TRUE]]
            BY <2>4 DEF SyncTemp, IInv, Shaped
        <3>4. temp'[t].content = temp[t].content /\ IsTemp(temp'[t]) /\ DOMAIN temp' = Threads
              /\ temp' = [u \in Threads |-> temp'[u]] /\ \A u \in Threads \ {t} : temp'[u] = temp[u]
            BY <1>2, <3>3 DEF IInv, Shaped, IsTemp
        <3>5. lock = t /\ lock' = lock
            BY <1>2, <2>4 DEF SyncTemp, Saving
        <3> QED
            BY <1>2, <2>4, <3>2, <3>4, <3>5 DEF Saving, SyncTemp
    <2> QED
        BY <2>1, <2>2, <2>3, <2>4
<1>4. Shaped'
    BY <1>1, <1>3 DEF IInv, Shaped
<1>5. Saving(t)'
    BY <1>1, <1>3 DEF IInv, Shaped, Saving
<1>6. \A u \in Threads \ {t} : Saving(u)'
    <2>1. mem'.ver \in Nat /\ mem.ver <= mem'.ver
        BY <1>1, <1>2
    <2>2. file' = file \/ lock = t
        BY <1>1
    <2>3. up' = up
        BY <1>1
    <2> QED
        BY <1>1, <1>3, <2>1, <2>2, <2>3, OthersSave
<1>7. Numbered' /\ Mapped
    BY <1>1, Quiet
<1> QED
    BY <1>1, <1>3, <1>4, <1>5, <1>6, <1>7 DEF IInv

\* os.replace: what lands is the snapshot, no older than the file.
LEMMA ReplaceMaps ==
    ASSUME IInv, NEW t \in Threads, Replace(t) PROVE IInv' /\ Mapped
<1> DEFINE left == IF temp[t].synced THEN temp[t].content ELSE Torn
<1>1. /\ up /\ up' = up /\ mem' = mem /\ mem.ver \in Nat /\ file.ver \in Nat
      /\ lock = t /\ lock' = Free /\ file' = th[t].snap /\ file'.ver \in Nat
      /\ file.ver <= file'.ver /\ file'.ver <= mem.ver
    BY DEF Replace, Finish, IInv, Numbered, Saving
<1>2. th' = [th EXCEPT ![t] = Idle] /\ temp' = [temp EXCEPT ![t] = NoTemp]
    BY DEF Replace, Finish
<1>3. IsHist(hist') /\ hist'.losses = hist.losses
    <2>1. hist' = [hist EXCEPT !.added = IF th[t].op = "add" THEN @ \cup {th[t].bot} ELSE @]
        BY DEF Replace
    <2> QED
        BY <2>1 DEF IInv, Shaped, IsHist
<1>4. Shaped'
    BY <1>1, <1>2, <1>3 DEF IInv, Shaped, IsJob, IsTemp, Idle, NoTemp
<1>5. Saving(t)'
    BY <1>1, <1>2 DEF IInv, Shaped, Saving, Idle
<1>6. \A u \in Threads \ {t} : temp'[u] = temp[u]
    BY <1>2 DEF IInv, Shaped
<1>7. \A u \in Threads \ {t} : Saving(u)'
    <2>1. mem'.ver \in Nat /\ mem.ver <= mem'.ver
        BY <1>1
    <2>2. up /\ up' = up /\ (file' = file \/ lock = t) /\ (lock' = lock \/ lock \in {t, Free})
        BY <1>1
    <2> QED
        BY <1>2, <1>6, <2>1, <2>2, OthersSave
<1>8. safe' = safe \cup {left} /\ left.ver \in 0..file'.ver
    <2>1. temp[t].content = file'
        BY DEF Replace
    <2> QED
        BY <1>1, <2>1 DEF Replace, Torn
<1> HIDE DEF left
<1>9. Numbered'
    BY <1>1, <1>8 DEF IInv, Numbered
<1>10. Mapped
    BY <1>1, <1>3 DEF Mapped, Store!Next, Store!Land
<1> QED
    BY <1>1, <1>4, <1>5, <1>7, <1>9 , <1>10 DEF IInv

LEMMA InsertMaps ==
    ASSUME IInv, NEW t \in Threads, Insert(t) PROVE IInv' /\ Mapped
<1>1. /\ up /\ UNCHANGED <<up, file, safe, temp, hist>> /\ lock = Free /\ lock' = t
    BY DEF Insert
<1>2. IsMem(mem') /\ mem'.ver = mem.ver + 1 /\ mem.ver \in Nat
    BY Changes DEF Insert, IInv, Numbered
<1>3. PICK x : th' = [th EXCEPT ![t] = x] /\ IsJob(x) /\ x.at = "snap"
    BY SetAt DEF Insert
<1>4. Shaped'
    BY <1>1, <1>2, <1>3 DEF IInv, Shaped
<1>5. Saving(t)'
    BY <1>1, <1>3 DEF IInv, Shaped, Saving
<1>6. mem'.ver \in Nat /\ mem.ver <= mem'.ver
    BY <1>2
<1>7. \A u \in Threads \ {t} : Saving(u)'
    BY <1>1, <1>3, <1>6, OthersSave
<1>8. Numbered' /\ Mapped
    BY <1>1, <1>2, Quiet
<1> QED
    BY <1>1, <1>4, <1>5, <1>7, <1>8 DEF IInv

\* A write fails: an add takes its bot out again, which is a change like any other.
LEMMA FailMaps ==
    ASSUME IInv, NEW t \in Threads, Fail(t) PROVE IInv' /\ Mapped
<1>1. /\ up /\ UNCHANGED <<up, file, safe>> /\ lock = t /\ lock' = Free
      /\ th' = [th EXCEPT ![t] = Idle] /\ temp' = [temp EXCEPT ![t] = NoTemp]
    BY DEF Fail, Finish, IInv, Saving
<1>2. IsMem(mem') /\ mem'.ver \in {mem.ver, mem.ver + 1} /\ mem.ver \in Nat
    BY Changes DEF Fail, IInv, Numbered, Shaped
<1>3. IsHist(hist') /\ hist'.losses = hist.losses
    BY DEF Fail, IInv, Shaped, IsHist
<1>4. Shaped'
    BY <1>1, <1>2, <1>3 DEF IInv, Shaped, IsJob, IsTemp, Idle, NoTemp
<1>5. Saving(t)'
    BY <1>1 DEF IInv, Shaped, Saving, Idle
<1>6. mem'.ver \in Nat /\ mem.ver <= mem'.ver
    BY <1>2
<1>7. \A u \in Threads \ {t} : temp'[u] = temp[u]
    BY <1>1 DEF IInv, Shaped
<1>8. \A u \in Threads \ {t} : Saving(u)'
    BY <1>1, <1>6, <1>7, OthersSave
<1>9. Numbered' /\ Mapped
    BY <1>1, <1>2, <1>3, Quiet
<1> QED
    BY <1>1, <1>4, <1>5, <1>8, <1>9 DEF IInv

\* The process goes down and comes back.
LEMMA DownMaps ==
    ASSUME IInv, Crash \/ PowerLost PROVE IInv' /\ Mapped
<1>1. /\ up /\ up' = FALSE /\ th' = [t \in Threads |-> Idle] /\ lock' = Free
      /\ temp' = [t \in Threads |-> NoTemp] /\ mem' = mem
    BY DEF Crash, PowerLost, Gone
<1>2. CASE Crash
    <2>1. UNCHANGED <<file, safe>> /\ IsHist(hist') /\ hist'.losses = hist.losses
        BY <1>2 DEF Crash, IInv, Shaped, IsHist
    <2>2. Shaped' /\ \A t \in Threads : Saving(t)'
        BY <1>1, <2>1 DEF IInv, Shaped, Saving, IsJob, IsTemp, Idle, NoTemp
    <2>3. Numbered'
        BY <1>1, <2>1 DEF IInv, Numbered
    <2>4. Mapped
        BY <1>1, <2>1 DEF Mapped, Store!Next, Store!Restart
    <2> QED
        BY <1>1, <2>2, <2>3, <2>4 DEF IInv
<1>3. CASE PowerLost
    <2>1. IsHist(hist') /\ hist'.losses = hist.losses + 1
        <3>1. hist' = [hist EXCEPT !.downs = @ + 1, !.losses = @ + 1]
            BY <1>3 DEF PowerLost
        <3> QED
            BY <3>1 DEF IInv, Shaped, IsHist
    <2>2. Shaped' /\ \A t \in Threads : Saving(t)'
        BY <1>1, <2>1 DEF IInv, Shaped, Saving, IsJob, IsTemp, Idle, NoTemp
    <2>3. PICK c \in safe : file' = c /\ safe' = {c}
        BY <1>3 DEF PowerLost
    <2>4. c.ver \in 0..file.ver /\ c.ver \in Nat
        BY DEF IInv, Numbered
    <2>5. Numbered'
        <3>1. file'.ver \in Nat /\ mem'.ver \in Nat
            BY <1>1, <2>3, <2>4 DEF IInv, Numbered
        <3>2. \A d \in safe' : d.ver \in 0..file'.ver
            BY <2>3, <2>4
        <3> QED
            BY <1>1, <3>1, <3>2 DEF Numbered
    <2>6. Mapped
        BY <1>1, <2>1, <2>3, <2>4 DEF Mapped, Store!Next, Store!Lose
    <2> QED
        BY <1>1, <2>2, <2>5, <2>6 DEF IInv
<1> QED
    BY <1>2, <1>3

LEMMA BootMaps ==
    ASSUME IInv, Boot PROVE IInv' /\ Mapped
<1>1. ~up /\ up' = TRUE /\ UNCHANGED <<file, safe, temp, lock>> /\ lock = Free /\ file.ver \in Nat
    BY DEF Boot, IInv, Numbered
<1>2. IsMem(mem') /\ mem'.ver = file.ver
    BY <1>1 DEF Boot, Loaded, IsMem
<1>3. IsHist(hist') /\ hist'.losses = hist.losses
    BY DEF Boot, IInv, Shaped, IsHist
<1>4. \A t \in Threads : th[t].at = "idle"
    BY <1>1 DEF IInv, Saving
<1>5. /\ DOMAIN th' = Threads /\ th' = [t \in Threads |-> th'[t]]
      /\ \A t \in Threads : IsJob(th'[t]) /\ th'[t].at \in {"idle", "ask"}
    <2>1. CASE th' = th
        BY <1>4, <2>1 DEF IInv, Shaped
    <2>2. ASSUME NEW t \in Threads, Goes(t, "change", "ask")
          PROVE  <1>5
        <3>1. PICK x : th' = [th EXCEPT ![t] = x] /\ IsJob(x) /\ x.at = "ask"
            BY <2>2, SetAt
        <3> QED
            BY <1>4, <3>1 DEF IInv, Shaped
    <2> QED
        BY <2>1, <2>2 DEF Boot, Goes
<1>6. Shaped'
    BY <1>1, <1>2, <1>3, <1>5 DEF IInv, Shaped
<1>7. \A t \in Threads : Saving(t)'
    BY <1>1, <1>5 DEF Saving
<1>8. Numbered'
    BY <1>1, <1>2 DEF IInv, Numbered
<1>9. Mapped
    BY <1>1, <1>2, <1>3 DEF Mapped
<1> QED
    BY <1>1, <1>6, <1>7, <1>8, <1>9 DEF IInv

LEMMA WrittenBackMaps ==
    ASSUME IInv, WrittenBack PROVE IInv' /\ Mapped
<1>1. up /\ UNCHANGED <<up, mem, file, temp, lock, th, hist>> /\ safe' = {file}
    BY DEF WrittenBack
<1>2. Shaped' /\ \A t \in Threads : Saving(t)'
    BY <1>1 DEF IInv, Shaped, Saving
<1>3. Numbered' /\ Mapped
    BY <1>1 DEF IInv, Numbered, Mapped
<1> QED
    BY <1>1, <1>2, <1>3 DEF IInv

\* bots.json implements VersionedStore (NewestLands): save takes its snapshot under the
\* lock and replaces the file under the same lock, so an older state never lands on a newer
\* one, whatever writes fail and wherever the process dies.
THEOREM StoreImplements == Spec => NewestLands
<1>1. IInv /\ [Next]_vars => IInv' /\ Mapped
    <2> SUFFICES ASSUME IInv, [Next]_vars PROVE IInv' /\ Mapped
        OBVIOUS
    <2>1. CASE UNCHANGED vars
        BY <2>1 DEF vars, IInv, Shaped, Numbered, Saving, Mapped
    <2>2. ASSUME NEW t \in Threads, ThreadStep(t) PROVE IInv' /\ Mapped
        BY <2>2, ChangeMaps, SaveMaps, ReplaceMaps, InsertMaps, FailMaps DEF ThreadStep
    <2> QED
        BY <2>1, <2>2, DownMaps, BootMaps, WrittenBackMaps DEF Next
<1>2. Mapped => [Store!Next]_(<<IF up THEN mem.ver ELSE file.ver, file.ver, hist.losses>>)
    BY DEF Mapped
<1> QED
    BY <1>1, <1>2, InitMaps, PTL DEF Spec, NewestLands, Store!Spec

-----------------------------------------------------------------------------
(* Sequences joined from pieces, as FlattenSeq does it.  The library's         *)
(* inductions take an operator, so a fact about every prefix is proved by      *)
(* looking at the shortest prefix for which it fails (Least).                  *)

\* No element twice.
Once(s) == \A i, j \in DOMAIN s : s[i] = s[j] => i = j

\* Numbers have a least one.
LEMMA Least ==
    ASSUME NEW N, N \subseteq Nat, N # {} PROVE \E n \in N : \A m \in N : n <= m
<1> DEFINE R == OpToRel(<, Nat)
<1>1. IsWellFoundedOn(R, Nat)
  BY NatLessThanWellFounded, Zenon
<1>2. \A x, y \in Nat : <<x, y>> \in R <=> x < y
  BY DEF OpToRel
<1> HIDE DEF R
<1>3. PICK n \in N : \A m \in N : ~ (<<m, n>> \in R)
  BY <1>1, WFMin, Zenon
<1>4. ASSUME NEW m \in N PROVE n <= m
  <2>1. n \in Nat /\ m \in Nat /\ ~ (m < n)
    BY <1>2, <1>3, <1>4
  <2> QED
    BY <2>1
<1> QED
  BY <1>4

\* f joins the first n pieces of q.
Joins(f, q, n) == f = [i \in 1..n |-> IF i = 1 THEN q[i] ELSE f[i - 1] \o q[i]]

\* Each prefix is the one before and a piece more.
LEMMA JoinsAt ==
    ASSUME NEW q, NEW n \in Nat, NEW f, Joins(f, q, n)
    PROVE  /\ DOMAIN f = 1..n
           /\ \A i \in 1..n : f[i] = IF i = 1 THEN q[i] ELSE f[i - 1] \o q[i]
<1> DEFINE g == [i \in 1..n |-> IF i = 1 THEN q[i] ELSE f[i - 1] \o q[i]]
<1>1. f = g
  BY DEF Joins
<1>2. DOMAIN g = 1..n /\ \A i \in 1..n : g[i] = IF i = 1 THEN q[i] ELSE f[i - 1] \o q[i]
  OBVIOUS
<1> HIDE DEF g
<1> QED
  BY <1>1, <1>2

\* Such a function exists, as the definition by recursion needs.
LEMMA SomeJoins ==
    ASSUME NEW q, NEW l \in Nat PROVE \E f : Joins(f, q, l)
<1> DEFINE N == {n \in Nat : ~ \E f : Joins(f, q, n)}
<1>1. SUFFICES ASSUME N # {} PROVE FALSE
  OBVIOUS
<1>2. PICK n \in N : \A m \in N : n <= m
  <2> N \subseteq Nat
    OBVIOUS
  <2> HIDE DEF N
  <2> QED
    BY <1>1, Least
<1>3. n # 0
  <2> SUFFICES ASSUME n = 0 PROVE FALSE
    OBVIOUS
  <2>1. Joins(<<>>, q, 0)
    BY DEF Joins
  <2> QED
    BY <2>1
<1>4. n \in Nat /\ n - 1 \in Nat /\ n - 1 \notin N
  BY <1>2, <1>3
<1>5. PICK f : Joins(f, q, n - 1)
  BY <1>4
<1> DEFINE g == [i \in 1..n |-> IF i = 1 THEN q[i] ELSE f[i - 1] \o q[i]]
<1>6. ASSUME NEW i \in 1..n - 1 PROVE g[i] = f[i]
  BY <1>4, <1>5, JoinsAt
<1>7. g = [i \in 1..n |-> IF i = 1 THEN q[i] ELSE g[i - 1] \o q[i]]
  <2>1. ASSUME NEW i \in 1..n, i # 1 PROVE g[i - 1] = f[i - 1]
    <3>1. i - 1 \in 1..n - 1
      BY <1>4, <2>1
    <3> HIDE DEF g
    <3> QED
      BY <3>1, <1>6
  <2> DEFINE G(i) == IF i = 1 THEN q[i] ELSE g[i - 1] \o q[i]
             F(i) == IF i = 1 THEN q[i] ELSE f[i - 1] \o q[i]
  <2>2. \A i \in 1..n : G(i) = F(i)
    <3> HIDE DEF g
    <3> QED
      BY <2>1
  <2>3. g = [i \in 1..n |-> F(i)]
    OBVIOUS
  <2> HIDE DEF g, F, G
  <2>4. g = [i \in 1..n |-> G(i)]
    BY <2>2, <2>3
  <2> QED
    BY <2>4 DEF G
<1>8. Joins(g, q, n)
  BY <1>7 DEF Joins
<1> QED
  BY <1>8

LEMMA FlattenJoins ==
    ASSUME NEW S, NEW q \in Seq(S), q # <<>>
    PROVE  \E f : Joins(f, q, Len(q)) /\ FlattenSeq(q) = f[Len(q)]
<1>1. Len(q) \in Nat /\ Len(q) # 0
  BY EmptySeq
<1> DEFINE f == CHOOSE f : Joins(f, q, Len(q))
<1>2. Joins(f, q, Len(q))
  BY <1>1, SomeJoins
<1>3. FlattenSeq(q) = f[Len(q)]
  BY <1>1 DEF FlattenSeq, Joins
<1> QED
  BY <1>2, <1>3

\* Two sequences after one another.
LEMMA Concat ==
    ASSUME NEW S, NEW s \in Seq(S), NEW t \in Seq(S)
    PROVE  /\ s \o t \in Seq(S)
           /\ Elems(s \o t) = Elems(s) \cup Elems(t)
           /\ Once(s) /\ Once(t) /\ Elems(s) \cap Elems(t) = {} => Once(s \o t)
<1> DEFINE n == Len(s)  m == Len(t)  u == s \o t
<1>1. /\ n \in Nat /\ m \in Nat /\ DOMAIN s = 1..n /\ DOMAIN t = 1..m
      /\ u \in Seq(S) /\ DOMAIN u = 1..n + m
      /\ \A i \in 1..n + m : u[i] = IF i <= n THEN s[i] ELSE t[i - n]
  <2>1. u \in Seq(S) /\ Len(u) = n + m
    BY ConcatProperties
  <2> QED
    BY <2>1, ConcatProperties, LenProperties
<1> HIDE DEF n, m, u
<1>2. ASSUME NEW i \in 1..n PROVE i \in 1..n + m /\ u[i] = s[i]
  BY <1>1
<1>3. ASSUME NEW i \in 1..m PROVE i + n \in 1..n + m /\ u[i + n] = t[i]
  <2>1. i + n \in 1..n + m /\ ~ (i + n <= n) /\ (i + n) - n = i
    BY <1>1
  <2> QED
    BY <1>1, <2>1
<1>4. ASSUME NEW i \in 1..n + m PROVE (i \in 1..n /\ u[i] = s[i]) \/ (i - n \in 1..m /\ u[i] = t[i - n])
  BY <1>1
<1>5. Elems(u) = Elems(s) \cup Elems(t)
  <2>1. /\ Elems(u) = {u[i] : i \in 1..n + m}
        /\ Elems(s) = {s[i] : i \in 1..n} /\ Elems(t) = {t[i] : i \in 1..m}
    BY <1>1 DEF Elems
  <2>2. ASSUME NEW x \in Elems(u) PROVE x \in Elems(s) \cup Elems(t)
    BY <1>4, <2>1, <2>2
  <2>3. ASSUME NEW x \in Elems(s) PROVE x \in Elems(u)
    BY <1>2, <2>1, <2>3
  <2>4. ASSUME NEW x \in Elems(t) PROVE x \in Elems(u)
    BY <1>3, <2>1, <2>4
  <2> QED
    BY <2>2, <2>3, <2>4
<1>6. ASSUME Once(s), Once(t), Elems(s) \cap Elems(t) = {} PROVE Once(u)
  <2> SUFFICES ASSUME NEW i \in 1..n + m, NEW j \in 1..n + m, u[i] = u[j] PROVE i = j
    BY <1>1 DEF Once
  <2>1. CASE i \in 1..n /\ j \in 1..n
    BY <1>1, <1>6, <2>1, <1>2 DEF Once
  <2>2. CASE i - n \in 1..m /\ j - n \in 1..m
    <3>1. u[i] = t[i - n] /\ u[j] = t[j - n]
      BY <1>1, <2>2
    <3>2. i - n = j - n
      BY <1>1, <1>6, <2>2, <3>1 DEF Once
    <3> QED
      BY <1>1, <3>2
  <2>3. ASSUME NEW k \in 1..n, NEW l \in 1..n + m, l - n \in 1..m PROVE u[k] # u[l]
    <3>1. u[k] \in Elems(s)
      BY <1>1, <1>2 DEF Elems
    <3>2. u[l] \in Elems(t)
      BY <1>1, <2>3 DEF Elems
    <3> QED
      BY <1>6, <3>1, <3>2
  <2> QED
    BY <1>4, <2>1, <2>2, <2>3
<1> QED
  BY <1>1, <1>5, <1>6 DEF u

\* No element twice in a piece, or in two pieces.
Apiece(q) ==
    /\ \A i \in DOMAIN q : Once(q[i])
    /\ \A i, j \in DOMAIN q : i # j => Elems(q[i]) \cap Elems(q[j]) = {}

\* All pieces after one another.
LEMMA Flattened ==
    ASSUME NEW S, NEW q \in Seq(Seq(S))
    PROVE  /\ FlattenSeq(q) \in Seq(S)
           /\ Elems(FlattenSeq(q)) = UNION {Elems(q[i]) : i \in DOMAIN q}
           /\ Apiece(q) => Once(FlattenSeq(q))
<1>1. CASE q = <<>>
  BY <1>1 DEF FlattenSeq, Elems, Once
<1>2. CASE q # <<>>
  <2> DEFINE l == Len(q)
  <2>1. PICK f : Joins(f, q, l) /\ FlattenSeq(q) = f[l]
    BY <1>2, FlattenJoins
  <2>2. l \in Nat \ {0} /\ DOMAIN q = 1..l /\ \A i \in 1..l : q[i] \in Seq(S)
    BY <1>2, EmptySeq, LenProperties, ElementOfSeq
  <2>3. \A i \in 1..l : f[i] = IF i = 1 THEN q[i] ELSE f[i - 1] \o q[i]
    BY <2>1, <2>2, JoinsAt
  <2> DEFINE Upto(i) == UNION {Elems(q[j]) : j \in 1..i}
             Ok(i) == /\ f[i] \in Seq(S) /\ Elems(f[i]) = Upto(i)
                      /\ Apiece(q) => Once(f[i])
             N == {i \in 1..l : ~ Ok(i)}
  <2> HIDE DEF l
  <2>4. SUFFICES ASSUME N # {} PROVE FALSE
    <3>1. l \in 1..l /\ (N = {} => Ok(l))
      BY <2>2
    <3> QED
      BY <2>1, <2>2, <3>1
  <2>5. PICK n \in N : \A m \in N : n <= m
    <3> N \subseteq Nat
      BY <2>2
    <3> HIDE DEF N
    <3> QED
      BY <2>4, Least
  <2>6. n \in 1..l /\ ~ Ok(n)
    OBVIOUS
  <2>7. CASE n = 1
    <3>1. f[n] = q[1] /\ Elems(q[1]) = Upto(1)
      BY <2>2, <2>3, <2>6, <2>7
    <3> QED
      BY <2>2, <2>6, <2>7, <3>1 DEF Apiece
  <2>8. CASE n # 1
    <3> DEFINE k == n - 1
    <3>1. k \in 1..l /\ ~ (n <= k)
      BY <2>2, <2>6, <2>8
    <3>2. Ok(k)
      <4>1. k \notin N
        <5> HIDE DEF N, k
        <5> QED
          BY <2>5, <3>1
      <4> QED
        BY <3>1, <4>1
    <3>3. f[n] = f[k] \o q[n] /\ q[n] \in Seq(S)
      BY <2>2, <2>3, <2>6, <2>8
    <3>4. /\ f[n] \in Seq(S) /\ Elems(f[n]) = Elems(f[k]) \cup Elems(q[n])
          /\ Once(f[k]) /\ Once(q[n]) /\ Elems(f[k]) \cap Elems(q[n]) = {} => Once(f[n])
      <4>1. f[k] \in Seq(S)
        BY <3>2
      <4> HIDE DEF k
      <4> QED
        BY <4>1, <3>3, Concat
    <3>5. Upto(n) = Upto(k) \cup Elems(q[n])
      <4>1. 1..n = (1..k) \cup {n}
        BY <2>2, <2>6, <2>8
      <4> QED
        BY <4>1
    <3>6. ASSUME Apiece(q) PROVE Upto(k) \cap Elems(q[n]) = {}
      <4>1. ASSUME NEW j \in 1..k PROVE Elems(q[j]) \cap Elems(q[n]) = {}
        <5>1. j \in 1..l /\ j # n
          BY <2>2, <2>6, <2>8, <4>1
        <5> QED
          BY <5>1, <2>2, <2>6, <3>6 DEF Apiece
      <4> QED
        BY <4>1
    <3>7. ASSUME Apiece(q) PROVE Once(f[n])
      <4>1. Once(f[k]) /\ Once(q[n])
        BY <2>2, <2>6, <3>2, <3>7 DEF Apiece
      <4>2. Elems(f[k]) \cap Elems(q[n]) = {}
        BY <3>2, <3>6, <3>7
      <4> QED
        BY <3>4, <4>1, <4>2
    <3>8. Elems(f[n]) = Upto(n)
      BY <3>2, <3>4, <3>5
    <3> QED
      BY <2>6, <3>4, <3>7, <3>8
  <2> QED
    BY <2>7, <2>8
<1> QED
  BY <1>1, <1>2

LEMMA Single ==
    /\ \A x : Elems(<<x>>) = {x} /\ Once(<<x>>)
    /\ Elems(<<>>) = {} /\ Once(<<>>)
BY DEF Elems, Once

\* Each of these l pieces is empty or one element of S.
Pieces(q, l, S) ==
    /\ DOMAIN q = 1..l /\ q = [i \in 1..l |-> q[i]]
    /\ \A i \in 1..l : q[i] = <<>> \/ \E x \in S : q[i] = <<x>>

\* r has the elements of the pieces, and each once if no two pieces are the same.
Joined(r, q, l, S) ==
    /\ r \in Seq(S)
    /\ Elems(r) = {x \in S : \E i \in 1..l : q[i] = <<x>>}
    /\ (\A i, j \in 1..l : i # j => q[i] = <<>> \/ q[i] # q[j]) => Once(r)

\* What FlattenSeq makes of pieces of at most one element.
LEMMA Filtered ==
    ASSUME NEW S, NEW l \in Nat, NEW q, Pieces(q, l, S)
    PROVE  Joined(FlattenSeq(q), q, l, S)
<1> USE DEF Pieces
<1>1. q \in Seq(Seq(S))
  <2>1. q \in [1..l -> Seq(S)]
    <3>1. <<>> \in Seq(S) /\ \A x \in S : <<x>> \in Seq(S)
      OBVIOUS
    <3>2. \A i \in 1..l : q[i] \in Seq(S)
      BY <3>1
    <3>3. q = [i \in 1..l |-> q[i]]
      OBVIOUS
    <3> QED
      BY <3>2, <3>3, Zenon
  <2> QED
    BY <2>1, SeqDef
<1>2. \A i \in 1..l : \A x : q[i] = <<x>> => Elems(q[i]) = {x} /\ Once(q[i])
  BY Single
<1>3. \A i \in 1..l : q[i] = <<>> => Elems(q[i]) = {} /\ Once(q[i])
  BY Single
<1>4. \A i \in 1..l : \A x : x \in Elems(q[i]) => x \in S /\ q[i] = <<x>>
  BY <1>2, <1>3
<1>5. UNION {Elems(q[i]) : i \in DOMAIN q} = {x \in S : \E i \in 1..l : q[i] = <<x>>}
  BY <1>2, <1>4
<1>6. ASSUME \A i, j \in 1..l : i # j => q[i] = <<>> \/ q[i] # q[j] PROVE Apiece(q)
  <2>1. \A i \in DOMAIN q : Once(q[i])
    BY <1>2, <1>3
  <2>2. ASSUME NEW i \in 1..l, NEW j \in 1..l, i # j, NEW x, x \in Elems(q[i]), x \in Elems(q[j]) PROVE FALSE
    <3>1. q[i] = <<x>> /\ q[j] = <<x>> /\ x \in Elems(q[i])
      BY <1>4, <2>2
    <3>2. q[i] # <<>>
      BY <1>3, <3>1
    <3> QED
      BY <1>6, <2>2, <3>1, <3>2
  <2>3. \A i, j \in DOMAIN q : i # j => Elems(q[i]) \cap Elems(q[j]) = {}
    <3> SUFFICES ASSUME NEW i \in 1..l, NEW j \in 1..l, i # j PROVE Elems(q[i]) \cap Elems(q[j]) = {}
      OBVIOUS
    <3> QED
      BY <2>2
  <2> QED
    BY <2>1, <2>3 DEF Apiece
<1> QED
  BY <1>1, <1>5, <1>6, Flattened DEF Joined

\* Picked keeps the elements that are in S.
LEMMA PickedIs ==
    ASSUME NEW U, NEW s \in Seq(U), NEW S
    PROVE  /\ Picked(s, S) \in Seq(U \cap S)
           /\ Elems(Picked(s, S)) = Elems(s) \cap S
           /\ Once(s) => Once(Picked(s, S))
<1> DEFINE l == Len(s)
           q == [i \in 1..l |-> IF s[i] \in S THEN <<s[i]>> ELSE <<>>]
<1>1. l \in Nat /\ DOMAIN s = 1..l /\ \A i \in 1..l : s[i] \in U
  BY LenProperties, ElementOfSeq
<1>2. Picked(s, S) = FlattenSeq(q)
  BY <1>1 DEF Picked
<1>3. /\ DOMAIN q = 1..l /\ q = [i \in 1..l |-> q[i]]
      /\ \A i \in 1..l : q[i] = IF s[i] \in S THEN <<s[i]>> ELSE <<>>
  OBVIOUS
<1> HIDE DEF q, l
<1>4. \A i \in 1..l : q[i] = <<>> \/ \E x \in U \cap S : q[i] = <<x>>
  BY <1>1, <1>3
<1>5. \A x : <<x>> # <<>>
  OBVIOUS
<1>6. \A x, y : <<x>> = <<y>> => x = y
  OBVIOUS
<1>7. \A i \in 1..l : \A x : q[i] = <<x>> <=> s[i] \in S /\ s[i] = x
  BY <1>3, <1>5, <1>6
<1>8. {x \in U \cap S : \E i \in 1..l : q[i] = <<x>>} = Elems(s) \cap S
  BY <1>1, <1>7 DEF Elems
<1>9. Once(s) => \A i, j \in 1..l : i # j => q[i] = <<>> \/ q[i] # q[j]
  BY <1>1, <1>3, <1>7 DEF Once
<1> DEFINE V == U \cap S
           r == FlattenSeq(q)
<1>10. /\ r \in Seq(V) /\ Elems(r) = {x \in V : \E i \in 1..l : q[i] = <<x>>}
       /\ (\A i, j \in 1..l : i # j => q[i] = <<>> \/ q[i] # q[j]) => Once(r)
  <2>1. Pieces(q, l, V)
    BY <1>3, <1>4 DEF Pieces
  <2>2. Joined(r, q, l, V)
    <3> HIDE DEF V
    <3> QED
      BY <1>1, <2>1, Filtered
  <2> HIDE DEF V, r
  <2> QED
    BY <2>2 DEF Joined
<1>11. Picked(s, S) = r
  BY <1>2
<1> HIDE DEF r
<1> QED
  BY <1>8, <1>9, <1>10, <1>11, Zenon

BadRows == Seq([after: Bots \cup {NoBot}, row: Bad])

\* The rows of these that follow a bot of A.
Following(bad, A) == {bad[i].row : i \in {i \in DOMAIN bad : bad[i].after \in A}}
OnceEach(bad) == \A i, j \in DOMAIN bad : bad[i].row = bad[j].row => i = j

\* Kept has the rows that follow a bot of A.
LEMMA KeptIs ==
    ASSUME NEW m, m.bad \in BadRows, NEW A
    PROVE  /\ Kept(m, A) \in Seq(Bad)
           /\ Elems(Kept(m, A)) = Following(m.bad, A)
           /\ OnceEach(m.bad) => Once(Kept(m, A))
<1> DEFINE s == m.bad
           l == Len(s)
           q == [i \in 1..l |-> IF s[i].after \in A THEN <<s[i].row>> ELSE <<>>]
<1>1. l \in Nat /\ DOMAIN s = 1..l /\ \A i \in 1..l : s[i].row \in Bad
  <2>1. \A i \in 1..Len(m.bad) : m.bad[i] \in [after: Bots \cup {NoBot}, row: Bad]
    BY ElementOfSeq DEF BadRows
  <2> QED
    BY <2>1, LenProperties DEF BadRows
<1>2. Kept(m, A) = FlattenSeq(q)
  BY <1>1 DEF Kept
<1>3. /\ DOMAIN q = 1..l /\ q = [i \in 1..l |-> q[i]]
      /\ \A i \in 1..l : q[i] = IF s[i].after \in A THEN <<s[i].row>> ELSE <<>>
  OBVIOUS
<1> HIDE DEF q, l, s
<1>4. \A i \in 1..l : q[i] = <<>> \/ \E x \in Bad : q[i] = <<x>>
  BY <1>1, <1>3
<1>5. \A x : <<x>> # <<>>
  OBVIOUS
<1>6. \A x, y : <<x>> = <<y>> => x = y
  OBVIOUS
<1>7. \A i \in 1..l : \A x : q[i] = <<x>> <=> s[i].after \in A /\ s[i].row = x
  BY <1>3, <1>5, <1>6
<1>8. {x \in Bad : \E i \in 1..l : q[i] = <<x>>} = Following(s, A)
  BY <1>1, <1>7 DEF Following
<1>9. OnceEach(s) => \A i, j \in 1..l : i # j => q[i] = <<>> \/ q[i] # q[j]
  BY <1>1, <1>3, <1>7 DEF OnceEach
<1> DEFINE r == FlattenSeq(q)
<1>10. /\ r \in Seq(Bad) /\ Elems(r) = {x \in Bad : \E i \in 1..l : q[i] = <<x>>}
       /\ (\A i, j \in 1..l : i # j => q[i] = <<>> \/ q[i] # q[j]) => Once(r)
  <2>1. Pieces(q, l, Bad)
    BY <1>3, <1>4 DEF Pieces
  <2>2. Joined(r, q, l, Bad)
    BY <1>1, <2>1, Filtered
  <2> HIDE DEF r
  <2> QED
    BY <2>2 DEF Joined
<1>11. Kept(m, A) = r
  BY <1>2
<1> HIDE DEF r
<1> QED
  BY <1>8, <1>9, <1>10, <1>11, Zenon DEF s

\* A set of numbers with a bound has a largest one.
LEMMA Largest ==
    ASSUME NEW n \in Nat, NEW A, A \subseteq 1..n, A # {} PROVE Max(A) \in A
<1> DEFINE N == {k \in Nat : \A a \in A : a <= k}
<1>1. PICK k \in N : \A m \in N : k <= m
  <2>1. n \in N
    OBVIOUS
  <2> HIDE DEF N
  <2>2. N \subseteq Nat /\ N # {}
    BY <2>1 DEF N
  <2> QED
    BY <2>2, Least
<1>2. k \in A
  <2> SUFFICES ASSUME k \notin A PROVE FALSE
    OBVIOUS
  <2>1. k # 0
    <3>1. PICK a : a \in A
      OBVIOUS
    <3>2. a \in 1..n /\ a <= k
      BY <1>1, <3>1
    <3> QED
      BY <3>2
  <2>2. k - 1 \in N
    BY <1>1, <2>1
  <2> HIDE DEF N
  <2> QED
    BY <1>1, <2>1, <2>2 DEF N
<1> QED
  BY <1>1, <1>2 DEF Max

BadOf(m) == {m.bad[i].row : i \in DOMAIN m.bad}

\* load: every row of the file is a bot or kept as a row that it cannot read.
LEMMA ParsedIs ==
    ASSUME NEW rows \in Seq(Bots \cup Bad), Once(rows)
    PROVE  LET m == Parsed(rows)
           IN /\ m.bots \in Seq(Bots) /\ Once(m.bots) /\ Elems(m.bots) = Elems(rows) \cap Bots
              /\ m.bad \in BadRows /\ OnceEach(m.bad) /\ BadOf(m) = Elems(rows) \cap Bad
<1> DEFINE m == Parsed(rows)
           l == Len(rows)
           Above(i) == {j \in 1 .. i : rows[j] \in Bots}
           After(i) == IF Above(i) = {} THEN NoBot ELSE rows[Max(Above(i))]
           Row(i) == [row |-> rows[i], after |-> After(i)]
           q == [i \in 1..l |-> IF rows[i] \in Bots THEN <<>> ELSE <<Row(i)>>]
           R == [after: Bots \cup {NoBot}, row: Bad]
<1>1. l \in Nat /\ DOMAIN rows = 1..l /\ \A i \in 1..l : rows[i] \in Bots \cup Bad
  BY LenProperties, ElementOfSeq
<1>2. m.bots = Picked(rows, Bots) /\ m.bad = FlattenSeq(q)
  BY <1>1 DEF Parsed
<1>3. m.bots \in Seq(Bots) /\ Once(m.bots) /\ Elems(m.bots) = Elems(rows) \cap Bots
  <2> DEFINE U == Bots \cup Bad
  <2>1. U \cap Bots = Bots /\ rows \in Seq(U)
    OBVIOUS
  <2> HIDE DEF U
  <2>2. Picked(rows, Bots) \in Seq(U \cap Bots) /\ Once(Picked(rows, Bots))
        /\ Elems(Picked(rows, Bots)) = Elems(rows) \cap Bots
    BY <2>1, PickedIs
  <2> HIDE DEF m
  <2> QED
    BY <1>2, <2>1, <2>2
<1>4. ASSUME NEW i \in 1..l PROVE After(i) \in Bots \cup {NoBot}
  <2>1. CASE Above(i) # {}
    <3> DEFINE A == Above(i)
    <3>1. A \subseteq 1..i /\ A # {} /\ i \in Nat
      BY <1>1, <2>1
    <3>2. Max(A) \in A
      <4> HIDE DEF A
      <4> QED
        BY <3>1, Largest
    <3> QED
      BY <2>1, <3>2
  <2> QED
    BY <2>1
<1>5. ASSUME NEW i \in 1..l PROVE Row(i).row = rows[i] /\ (rows[i] \notin Bots => Row(i) \in R)
  <2> HIDE DEF After
  <2> QED
    BY <1>1, <1>4
<1>6. /\ DOMAIN q = 1..l /\ q = [i \in 1..l |-> q[i]]
      /\ \A i \in 1..l : q[i] = IF rows[i] \in Bots THEN <<>> ELSE <<Row(i)>>
  <2> HIDE DEF Row
  <2> QED
    OBVIOUS
<1> HIDE DEF Row, q, m
<1>7. Pieces(q, l, R)
  <2> HIDE DEF R
  <2> QED
    BY <1>5, <1>6 DEF Pieces
<1>8. Joined(m.bad, q, l, R)
  <2> HIDE DEF R, l
  <2> QED
    BY <1>1, <1>2, <1>7, Filtered
<1>9. \A x : <<x>> # <<>>
  OBVIOUS
<1>10. \A x, y : <<x>> = <<y>> => x = y
  OBVIOUS
<1> HIDE DEF l
<1>11. \A i \in 1..l : \A x : q[i] = <<x>> <=> rows[i] \notin Bots /\ x = Row(i)
  BY <1>6, <1>9, <1>10
<1>12. Elems(m.bad) = {x \in R : \E i \in 1..l : q[i] = <<x>>} /\ m.bad \in Seq(R)
  <2> HIDE DEF R
  <2> QED
    BY <1>8 DEF Joined
<1>13. BadOf(m) = Elems(rows) \cap Bad
  <2>1. ASSUME NEW x \in BadOf(m) PROVE x \in Elems(rows) \cap Bad
    <3>1. PICK e \in Elems(m.bad) : x = e.row
      BY <2>1 DEF BadOf, Elems
    <3>2. e \in R /\ \E i \in 1..l : q[i] = <<e>>
      BY <1>12, <3>1
    <3>3. PICK i \in 1..l : e = Row(i) /\ e \in R
      <4> HIDE DEF R
      <4> QED
        BY <1>11, <3>2
    <3> QED
      BY <1>1, <1>5, <3>1, <3>3 DEF Elems
  <2>2. ASSUME NEW x \in Elems(rows) \cap Bad PROVE x \in BadOf(m)
    <3>1. PICK i \in 1..l : x = rows[i] /\ rows[i] \notin Bots
      BY <1>1, <2>2, RowsAssumption DEF Elems
    <3>2. Row(i) \in R /\ q[i] = <<Row(i)>> /\ Row(i).row = x
      BY <1>5, <1>6, <3>1
    <3>3. Row(i) \in Elems(m.bad)
      <4> HIDE DEF R
      <4> QED
        BY <1>12, <3>2
    <3> QED
      BY <3>2, <3>3 DEF BadOf, Elems
  <2> QED
    BY <2>1, <2>2
<1>14. OnceEach(m.bad)
  <2>1. Once(m.bad)
    <3>1. ASSUME NEW i \in 1..l, NEW j \in 1..l, i # j PROVE q[i] = <<>> \/ q[i] # q[j]
      BY <1>1, <1>5, <1>6, <1>11, <3>1 DEF Once
    <3> HIDE DEF R
    <3> QED
      BY <1>8, <3>1 DEF Joined
  <2>2. ASSUME NEW i \in DOMAIN m.bad, NEW j \in DOMAIN m.bad, m.bad[i].row = m.bad[j].row PROVE i = j
    <3>1. m.bad[i] \in Elems(m.bad) /\ m.bad[j] \in Elems(m.bad)
      BY DEF Elems
    <3>2. PICK a \in 1..l : q[a] = <<m.bad[i]>>
      BY <1>12, <3>1
    <3>3. PICK b \in 1..l : q[b] = <<m.bad[j]>>
      BY <1>12, <3>1
    <3>4. m.bad[i] = Row(a) /\ m.bad[j] = Row(b)
      BY <1>11, <3>2, <3>3
    <3>5. rows[a] = rows[b]
      BY <1>5, <2>2, <3>4
    <3>6. a = b
      BY <1>1, <3>5 DEF Once
    <3> QED
      BY <2>1, <3>4, <3>6 DEF Once
  <2> QED
    BY <2>2 DEF OnceEach
<1>15. m.bad \in BadRows
  BY <1>12 DEF BadRows
<1> QED
  BY <1>3, <1>13, <1>14, <1>15 DEF m

\* A row follows one bot, or none.
LEMMA FollowersApart ==
    ASSUME NEW m, m.bad \in BadRows, OnceEach(m.bad)
    PROVE  /\ \A A, B : A \cap B = {} => Following(m.bad, A) \cap Following(m.bad, B) = {}
           /\ \A A : Following(m.bad, A) \subseteq BadOf(m)
           /\ BadOf(m) \subseteq Bad
           /\ \A x \in BadOf(m) : \E a \in Bots \cup {NoBot} : x \in Following(m.bad, {a})
<1>1. \A i \in DOMAIN m.bad : m.bad[i].row \in Bad /\ m.bad[i].after \in Bots \cup {NoBot}
  <2>1. \A i \in 1..Len(m.bad) : m.bad[i] \in [after: Bots \cup {NoBot}, row: Bad]
    BY ElementOfSeq DEF BadRows
  <2> QED
    BY <2>1, LenProperties DEF BadRows
<1>2. ASSUME NEW A, NEW B, A \cap B = {}, NEW x \in Following(m.bad, A), x \in Following(m.bad, B) PROVE FALSE
  <2>1. PICK i \in DOMAIN m.bad : x = m.bad[i].row /\ m.bad[i].after \in A
    BY <1>2 DEF Following
  <2>2. PICK j \in DOMAIN m.bad : x = m.bad[j].row /\ m.bad[j].after \in B
    BY <1>2 DEF Following
  <2> QED
    BY <1>2, <2>1, <2>2 DEF OnceEach
<1>3. \A A, B : A \cap B = {} => Following(m.bad, A) \cap Following(m.bad, B) = {}
  <2> SUFFICES ASSUME NEW A, NEW B, A \cap B = {} PROVE Following(m.bad, A) \cap Following(m.bad, B) = {}
    OBVIOUS
  <2> QED
    BY <1>2
<1> QED
  BY <1>1, <1>3 DEF Following, BadOf

\* _rows_to_save: the bots and the kept rows, each once.
LEMMA SavedIs ==
    ASSUME NEW m, m.bots \in Seq(Bots), Once(m.bots), m.bad \in BadRows, OnceEach(m.bad)
    PROVE  /\ RowsToSave(m) \in Seq(Bots \cup Bad) /\ Once(RowsToSave(m))
           /\ Elems(RowsToSave(m)) = Elems(m.bots) \cup BadOf(m)
<1> DEFINE U == Bots \cup Bad
           l == Len(m.bots)
           F(A) == Following(m.bad, A)
           K(A) == Kept(m, A)
           b(i) == m.bots[i]
           q == [i \in 1..l |-> <<b(i)>> \o K({b(i)})]
           G == FlattenSeq(q)
           Rest == Bots \ Elems(m.bots)
<1>1. l \in Nat /\ DOMAIN m.bots = 1..l /\ \A i \in 1..l : b(i) \in Bots
  BY LenProperties, ElementOfSeq
<1>2. RowsToSave(m) = (K({NoBot}) \o G) \o K(Rest)
  BY <1>1 DEF RowsToSave
<1>3. \A A : K(A) \in Seq(U) /\ Elems(K(A)) = F(A) /\ Once(K(A)) /\ F(A) \subseteq Bad
  <2>1. \A A : K(A) \in Seq(Bad) /\ Elems(K(A)) = F(A) /\ Once(K(A))
    BY KeptIs
  <2> HIDE DEF K
  <2>2. \A A : K(A) \in Seq(U)
    BY <2>1, SeqMonotonic
  <2> QED
    BY <2>1, <2>2, FollowersApart
<1> HIDE DEF K, l
<1>4. ASSUME NEW i \in 1..l
      PROVE  q[i] \in Seq(U) /\ Elems(q[i]) = {b(i)} \cup F({b(i)}) /\ Once(q[i])
  <2> DEFINE s == <<b(i)>>
             t == K({b(i)})
  <2>1. s \in Seq(U) /\ Elems(s) = {b(i)} /\ Once(s)
    <3>1. b(i) \in U
      BY <1>1
    <3> HIDE DEF U, b
    <3> QED
      BY <3>1, Single
  <2>2. t \in Seq(U) /\ Elems(t) = F({b(i)}) /\ Once(t) /\ F({b(i)}) \subseteq Bad
    BY <1>3
  <2>3. q[i] = s \o t
    OBVIOUS
  <2>4. Elems(s) \cap Elems(t) = {}
    BY <1>1, <2>1, <2>2, RowsAssumption
  <2> HIDE DEF s, t, U, q, b, F
  <2> QED
    <3>0. s \in Seq(U) /\ t \in Seq(U) /\ Once(s) /\ Once(t)
      BY <2>1, <2>2, Zenon
    <3>1. s \o t \in Seq(U) /\ Elems(s \o t) = Elems(s) \cup Elems(t) /\ Once(s \o t)
      BY <2>4, <3>0, Concat
    <3> QED
      BY <2>1, <2>2, <2>3, <3>1, Zenon
<1>5. q \in Seq(Seq(U))
  <2>1. DOMAIN q = 1..l /\ q = [i \in 1..l |-> q[i]]
    OBVIOUS
  <2> HIDE DEF q, U
  <2>2. q \in [1..l -> Seq(U)]
    BY <1>4, <2>1
  <2> QED
    BY <1>1, <2>2, SeqDef
<1>6. DOMAIN q = 1..l
  OBVIOUS
<1> HIDE DEF q
<1>7. Apiece(q)
  <2>1. ASSUME NEW i \in 1..l, NEW j \in 1..l, i # j PROVE Elems(q[i]) \cap Elems(q[j]) = {}
    <3>1. b(i) # b(j)
      BY <1>1, <2>1 DEF Once
    <3>2. F({b(i)}) \cap F({b(j)}) = {}
      <4>1. {b(i)} \cap {b(j)} = {}
        BY <3>1
      <4> QED
        BY <4>1, FollowersApart
    <3>3. F({b(i)}) \subseteq Bad /\ F({b(j)}) \subseteq Bad
      BY <1>3
    <3>4. Elems(q[i]) = {b(i)} \cup F({b(i)}) /\ Elems(q[j]) = {b(j)} \cup F({b(j)})
      BY <1>4
    <3>5. b(i) \notin Bad /\ b(j) \notin Bad
      BY <1>1, RowsAssumption
    <3> HIDE DEF F, b
    <3> QED
      BY <3>1, <3>2, <3>3, <3>4, <3>5
  <2> QED
    BY <1>4, <1>6, <2>1 DEF Apiece
<1>8. G \in Seq(U) /\ Once(G) /\ Elems(G) = UNION {Elems(q[i]) : i \in 1..l}
  <2> HIDE DEF U
  <2> QED
    BY <1>5, <1>6, <1>7, Flattened
<1>9. \A x : x \in Elems(G) <=> x \in Elems(m.bots) \/ \E i \in 1..l : x \in F({b(i)})
  <2>1. \A x : x \in Elems(G) <=> \E i \in 1..l : x \in Elems(q[i])
    <3> HIDE DEF G
    <3> QED
      BY <1>8
  <2>2. \A x : x \in Elems(m.bots) <=> \E i \in 1..l : x = b(i)
    BY <1>1 DEF Elems
  <2>3. \A i \in 1..l : \A x : x \in Elems(q[i]) <=> x = b(i) \/ x \in F({b(i)})
    BY <1>4
  <2> HIDE DEF G, F, b
  <2> QED
    BY <2>1, <2>2, <2>3
<1> HIDE DEF G
<1>10. ASSUME NEW A, \A i \in 1..l : b(i) \notin A PROVE F(A) \cap Elems(G) = {}
  <2>1. ASSUME NEW x \in F(A), x \in Elems(G) PROVE FALSE
    <3>1. x \in Bad
      BY <1>3, <2>1
    <3>2. x \notin Elems(m.bots)
      BY <1>1, <3>1, RowsAssumption DEF Elems
    <3>3. PICK i \in 1..l : x \in F({b(i)})
      BY <1>9, <2>1, <3>2
    <3>4. A \cap {b(i)} = {}
      BY <1>10
    <3>5. F(A) \cap F({b(i)}) = {}
      BY <3>4, FollowersApart
    <3> QED
      BY <2>1, <3>3, <3>5
  <2> QED
    BY <2>1
<1> DEFINE s == K({NoBot})
           t == s \o G
           u == K(Rest)
<1>11. t \in Seq(U) /\ Once(t) /\ Elems(t) = F({NoBot}) \cup Elems(G)
  <2>1. \A i \in 1..l : b(i) \notin {NoBot}
    BY <1>1, NoBotAssumption
  <2>2. s \in Seq(U) /\ Elems(s) = F({NoBot}) /\ Once(s)
    BY <1>3
  <2>3. Elems(s) \cap Elems(G) = {}
    BY <1>10, <2>1, <2>2
  <2> HIDE DEF s, U, F
  <2> QED
    BY <1>8, <2>2, <2>3, Concat
<1>12. u \in Seq(U) /\ Once(u) /\ Elems(u) = F(Rest)
  BY <1>3
<1>13. Elems(t) \cap Elems(u) = {}
  <2>1. {NoBot} \cap Rest = {}
    BY NoBotAssumption
  <2>2. F({NoBot}) \cap F(Rest) = {}
    BY <2>1, FollowersApart
  <2>3. \A i \in 1..l : b(i) \notin Rest
    BY <1>1 DEF Elems
  <2>4. F(Rest) \cap Elems(G) = {}
    BY <1>10, <2>3
  <2> HIDE DEF t, u, F
  <2> QED
    BY <1>11, <1>12, <2>2, <2>4
<1>14. RowsToSave(m) \in Seq(U) /\ Once(RowsToSave(m)) /\ Elems(RowsToSave(m)) = Elems(t) \cup Elems(u)
  <2> HIDE DEF t, u, U, F
  <2>1. RowsToSave(m) = t \o u
    BY <1>2 DEF t, u
  <2> QED
    <3>0. t \in Seq(U) /\ u \in Seq(U) /\ Once(t) /\ Once(u)
      BY <1>11, <1>12, Zenon
    <3>1. t \o u \in Seq(U) /\ Elems(t \o u) = Elems(t) \cup Elems(u) /\ Once(t \o u)
      BY <1>13, <3>0, Concat
    <3> QED
      BY <2>1, <3>1, Zenon
<1>15. Elems(t) \cup Elems(u) = Elems(m.bots) \cup BadOf(m)
  <2>1. ASSUME NEW x \in Elems(t) \cup Elems(u) PROVE x \in Elems(m.bots) \cup BadOf(m)
    <3>1. \A A : F(A) \subseteq BadOf(m)
      BY FollowersApart
    <3> HIDE DEF F
    <3> QED
      BY <1>9, <1>11, <1>12, <2>1, <3>1
  <2>2. ASSUME NEW x \in BadOf(m) PROVE x \in Elems(t) \cup Elems(u)
    <3>1. PICK a \in Bots \cup {NoBot} : x \in F({a})
      BY <2>2, FollowersApart
    <3>2. CASE a = NoBot
      BY <1>11, <3>1, <3>2
    <3>3. CASE a \in Elems(m.bots)
      <4>1. PICK i \in 1..l : a = b(i)
        BY <1>1, <3>3 DEF Elems
      <4> QED
        BY <1>9, <1>11, <3>1, <4>1
    <3>4. CASE a \in Rest
      <4>1. x \in F(Rest)
        BY <3>1, <3>4 DEF Following
      <4> QED
        BY <1>12, <4>1
    <3> QED
      BY <3>2, <3>3, <3>4
  <2>3. Elems(m.bots) \subseteq Elems(t)
    BY <1>9, <1>11
  <2> HIDE DEF t, u
  <2> QED
    BY <2>1, <2>2, <2>3
<1> HIDE DEF t, u
<1> QED
  BY <1>14, <1>15

-----------------------------------------------------------------------------
(* What the file, memory and the saves hold.                               *)

\* Every bot that was in the file at first, or whose add ended.
Known == Elems(FirstRows) \cup hist.added \cup hist.refused
\* What a file may hold, and what memory may hold while an add is at work.
May == Bad \cup {b \in Known : Apart => b \notin hist.refused}
Adding(t) == th[t].op = "add" /\ th[t].at # "insert"
MayNow == May \cup {th[t].bot : t \in {u \in Threads : Adding(u)}}
\* The unreadable rows that everything must still hold.
Owed == {x \in Bad \cap Elems(FirstRows) : ~hist.unread}

RowsFit(rows, may, must) ==
    rows \in Seq(Bots \cup Bad) /\ Once(rows) /\ Elems(rows) \subseteq may /\ must \subseteq Elems(rows)
BotsFit(list, may) == list \in Seq(Bots) /\ Once(list) /\ Elems(list) \subseteq may

\* Memory, up or down; what went down with an add at work may list its bot.
MemFits ==
    /\ BotsFit(mem.bots, IF up THEN MayNow ELSE Bots)
    /\ mem.bad \in BadRows /\ OnceEach(mem.bad) /\ Owed \subseteq BadOf(mem)
    /\ Apart => Elems(mem.bots) \cap hist.refused = {}
\* The file, and whatever a power loss may leave of it.
FilesFit == hist.refused \subseteq Bots /\ \A c \in safe \cup {file} : RowsFit(c.rows, May, Owed)
\* What a thread still carries: an order it is about to put in place, a snapshot it is
\* about to write, the bot of its add, which nobody else has.
JobFits(t) ==
    /\ th[t].at = "assign" => th[t].op = "reorder" /\ BotsFit(th[t].order, MayNow)
    /\ th[t].at \in {"write", "sync", "replace"} => RowsFit(th[t].snap.rows, MayNow, Owed)
    /\ th[t].at = "replace" => temp[t].synced
    /\ th[t].op = "add" => th[t].at \in {"insert", "snap", "write", "sync", "replace"}
                           /\ th[t].bot \in Bots \ Known
    /\ th[t].at = "insert" => th[t].op = "add"
\* _add_lock.
OneAdd ==
    \A t, u \in Threads : th[t].op = "add" =>
        (th[u].op = "add" => t = u) /\ (Apart => th[u].op # "reorder")
AllJobs == \A t \in Threads : JobFits(t)

RowsInv == IInv /\ MemFits /\ FilesFit /\ OneAdd /\ AllJobs

LEMMA MoreFits ==
    ASSUME NEW may, NEW may2, may \subseteq may2, NEW must, NEW must2, must2 \subseteq must
    PROVE  /\ \A rows : RowsFit(rows, may, must) => RowsFit(rows, may2, must2)
           /\ \A list : BotsFit(list, may) => BotsFit(list, may2)
BY DEF RowsFit, BotsFit

LEMMA PickFits ==
    ASSUME NEW may, NEW list, BotsFit(list, may), NEW S
    PROVE  /\ BotsFit(Picked(list, S), may) /\ Elems(Picked(list, S)) = Elems(list) \cap S
<1>1. Picked(list, S) \in Seq(Bots \cap S) /\ Once(Picked(list, S))
      /\ Elems(Picked(list, S)) = Elems(list) \cap S
  BY PickedIs DEF BotsFit
<1>2. Picked(list, S) \in Seq(Bots)
  BY <1>1, SeqMonotonic
<1> QED
  BY <1>1, <1>2 DEF BotsFit

LEMMA RowsInit == Init => RowsInv
<1> SUFFICES ASSUME Init PROVE RowsInv
  OBVIOUS
<1>1. IInv
  BY InitMaps
<1>2. FirstRows \in Seq(Bots \cup Bad) /\ Once(FirstRows) /\ Bots \cap Bad = {}
  BY RowsAssumption DEF Once
<1>3. Elems(FirstRows) \subseteq May /\ Owed \subseteq Elems(FirstRows)
  BY DEF Init, May, Owed, Known
<1>4. FilesFit
  BY <1>2, <1>3 DEF Init, FilesFit, RowsFit
<1>5. MemFits
  <2>1. mem.bots = Parsed(FirstRows).bots /\ mem.bad = Parsed(FirstRows).bad /\ up /\ hist.refused = {}
    BY DEF Init, Loaded
  <2>2. /\ mem.bots \in Seq(Bots) /\ Once(mem.bots) /\ Elems(mem.bots) = Elems(FirstRows) \cap Bots
        /\ mem.bad \in BadRows /\ OnceEach(mem.bad)
        /\ BadOf(Parsed(FirstRows)) = Elems(FirstRows) \cap Bad
    BY <1>2, <2>1, ParsedIs
  <2>3. BadOf(mem) = Elems(FirstRows) \cap Bad
    BY <2>1, <2>2 DEF BadOf
  <2> QED
    BY <1>3, <2>1, <2>2, <2>3 DEF MemFits, BotsFit, MayNow, Owed
<1>6. OneAdd /\ AllJobs
  BY DEF Init, OneAdd, AllJobs, JobFits, Idle
<1> QED
  BY <1>1, <1>4, <1>5, <1>6 DEF RowsInv

\* Nothing that was added or refused, and no boot that could not read.
SameHist == hist'.added = hist.added /\ hist'.refused = hist.refused /\ hist'.unread = hist.unread

LEMMA SameMay ==
    ASSUME SameHist PROVE Known' = Known /\ May' = May /\ Owed' = Owed
BY DEF SameHist, Known, May, Owed

\* The other threads' jobs fit as before.
LEMMA OthersFit ==
    ASSUME RowsInv, NEW t \in Threads, NEW x, th' = [th EXCEPT ![t] = x],
           \A u \in Threads \ {t} : temp'[u] = temp[u],
           Owed' \subseteq Owed,
           \/ MayNow \subseteq MayNow'
           \/ \A u \in Threads \ {t} : th[u].at \notin {"assign", "write", "sync", "replace"},
           Known' = Known \/ \A u \in Threads \ {t} : th[u].op # "add"
    PROVE  \A u \in Threads \ {t} : JobFits(u)'
<1> SUFFICES ASSUME NEW u \in Threads, u # t PROVE JobFits(u)'
  OBVIOUS
<1>1. th'[u] = th[u] /\ temp'[u] = temp[u] /\ JobFits(u)
  BY DEF RowsInv, IInv, Shaped, AllJobs
<1>2. ASSUME th[u].at = "assign" PROVE BotsFit(th[u].order, MayNow')
  <2>1. BotsFit(th[u].order, MayNow) /\ MayNow \subseteq MayNow'
    BY <1>1, <1>2 DEF JobFits
  <2> QED
    BY <2>1 DEF BotsFit
<1>3. ASSUME th[u].at \in {"write", "sync", "replace"} PROVE RowsFit(th[u].snap.rows, MayNow', Owed')
  <2>1. RowsFit(th[u].snap.rows, MayNow, Owed) /\ MayNow \subseteq MayNow'
    BY <1>1, <1>3 DEF JobFits
  <2> QED
    BY <2>1 DEF RowsFit
<1>4. th[u].op = "add" => Known' = Known
  OBVIOUS
<1> QED
  BY <1>1, <1>2, <1>3, <1>4 DEF JobFits

\* A bot of these may be listed: it was not refused.
LEMMA NotRefused ==
    ASSUME RowsInv, Apart PROVE MayNow \cap hist.refused = {}
<1> SUFFICES ASSUME NEW b \in MayNow, b \in hist.refused PROVE FALSE
  OBVIOUS
<1>1. b \notin May
  BY RowsAssumption DEF May, RowsInv, FilesFit
<1>2. PICK u \in Threads : Adding(u) /\ b = th[u].bot
  BY <1>1 DEF MayNow
<1>3. th[u].bot \notin Known
  BY <1>2 DEF RowsInv, AllJobs, JobFits, Adding
<1> QED
  BY <1>2, <1>3 DEF Known

LEMMA MayNowGrows ==
    ASSUME RowsInv, SameHist, NEW t \in Threads, NEW x, th' = [th EXCEPT ![t] = x],
           \/ ~Adding(t)
           \/ x.op = "add" /\ x.at # "insert" /\ x.bot = th[t].bot
    PROVE  MayNow \subseteq MayNow'
<1>1. May' = May
  BY SameMay
<1>2. ASSUME NEW u \in Threads, Adding(u) PROVE Adding(u)' /\ th'[u].bot = th[u].bot
  BY <1>2 DEF Adding, RowsInv, IInv, Shaped
<1> QED
  BY <1>1, <1>2 DEF MayNow

LEMMA OneAddStays ==
    ASSUME RowsInv, NEW t \in Threads, NEW x, th' = [th EXCEPT ![t] = x],
           x.op \notin {"add", "reorder"} \/ x.op = th[t].op
    PROVE  OneAdd'
<1>1. \A u \in Threads : th'[u].op \in {"add", "reorder"} => th'[u].op = th[u].op
  BY DEF RowsInv, IInv, Shaped
<1> QED
  BY <1>1 DEF OneAdd, RowsInv

LEMMA MemChanges ==
    ASSUME RowsInv, NEW list, mem' = Changed(list), up', BotsFit(list, MayNow'),
           Owed' \subseteq Owed, Apart => Elems(list) \cap hist'.refused = {}
    PROVE  MemFits'
<1>1. mem'.bots = list /\ mem'.bad = mem.bad
  BY Changes DEF RowsInv
<1>2. BadOf(mem)' = BadOf(mem)
  BY <1>1 DEF BadOf
<1> QED
  BY <1>1, <1>2 DEF MemFits, RowsInv

LEMMA MemStays ==
    ASSUME RowsInv, mem' = mem, up, up', MayNow \subseteq MayNow', Owed' \subseteq Owed,
           hist'.refused = hist.refused
    PROVE  MemFits'
<1>1. BotsFit(mem.bots, MayNow')
  BY MoreFits DEF MemFits, RowsInv
<1>2. BadOf(mem)' = BadOf(mem)
  BY DEF BadOf
<1> QED
  BY <1>1, <1>2 DEF MemFits, RowsInv

LEMMA FilesStay ==
    ASSUME RowsInv, file' = file, safe' = safe, May \subseteq May', Owed' \subseteq Owed,
           hist'.refused \subseteq Bots
    PROVE  FilesFit'
<1>1. \A c \in safe \cup {file} : RowsFit(c.rows, May', Owed')
  BY MoreFits DEF FilesFit, RowsInv
<1> QED
  BY <1>1 DEF FilesFit

LEMMA ListFits == ASSUME RowsInv, up PROVE BotsFit(mem.bots, MayNow)
BY DEF RowsInv, MemFits

\* A runner, a delete or a reorder changes the list, and asks for a save.
LEMMA ChangeFits ==
    ASSUME RowsInv, NEW t \in Threads, BeginChange(t) \/ BeginDelete(t) \/ AssignOrder(t)
    PROVE  RowsInv'
<1>1. IInv'
  BY ChangeMaps DEF RowsInv
<1>2. up /\ up' = up /\ UNCHANGED <<file, safe, temp, lock>> /\ SameHist /\ hist'.refused \subseteq Bots
  <2>1. up /\ UNCHANGED <<up, file, safe, temp, lock>>
    BY DEF BeginChange, BeginDelete, AssignOrder, Free2
  <2>2. SameHist
    BY DEF BeginChange, BeginDelete, AssignOrder, SameHist, RowsInv, IInv, Shaped, IsHist
  <2> QED
    BY <2>1, <2>2 DEF SameHist, RowsInv, FilesFit
<1>3. PICK list : mem' = Changed(list) /\ BotsFit(list, MayNow)
  <2>1. CASE BeginChange(t)
    BY <1>2, <2>1, ListFits DEF BeginChange
  <2>2. CASE BeginDelete(t)
    <3>1. PICK b : mem' = Changed(Picked(mem.bots, Bots \ {b}))
      BY <2>2 DEF BeginDelete
    <3>2. BotsFit(Picked(mem.bots, Bots \ {b}), MayNow)
      BY <1>2, ListFits, PickFits
    <3> QED
      BY <3>1, <3>2
  <2>3. CASE AssignOrder(t)
    BY <2>3 DEF AssignOrder, RowsInv, AllJobs, JobFits
  <2> QED
    BY <2>1, <2>2, <2>3
<1>4. PICK x : /\ th' = [th EXCEPT ![t] = x] /\ x.at = "ask"
               /\ \/ x.op \in {"change", "delete"}
                  \/ x.op = "reorder" /\ th[t].op = "reorder"
  <2>1. CASE BeginChange(t)
    <3>1. Goes(t, "change", "ask") /\ IInv
      BY <2>1 DEF BeginChange, RowsInv
    <3>2. PICK x : th' = [th EXCEPT ![t] = x] /\ x.at = "ask" /\ x.op = "change"
      BY <3>1, SetAt
    <3> QED
      BY <3>2
  <2>2. CASE BeginDelete(t)
    <3>1. Goes(t, "delete", "ask") /\ IInv
      BY <2>2 DEF BeginDelete, RowsInv
    <3>2. PICK x : th' = [th EXCEPT ![t] = x] /\ x.at = "ask" /\ x.op = "delete"
      BY <3>1, SetAt
    <3> QED
      BY <3>2
  <2>3. CASE AssignOrder(t)
    <3>1. th' = [th EXCEPT ![t] = [th[t] EXCEPT !.at = "ask", !.order = <<>>]]
      BY <2>3 DEF AssignOrder, RowsInv, IInv, Shaped
    <3>2. th[t].op = "reorder"
      BY <2>3 DEF AssignOrder, RowsInv, AllJobs, JobFits
    <3>3. /\ [th[t] EXCEPT !.at = "ask", !.order = <<>>].at = "ask"
          /\ [th[t] EXCEPT !.at = "ask", !.order = <<>>].op = "reorder"
      BY <3>2 DEF RowsInv, IInv, Shaped, IsJob
    <3> QED
      BY <3>1, <3>2, <3>3
  <2> QED
    BY <2>1, <2>2, <2>3
<1>5. ~Adding(t)
  BY <1>2 DEF Adding, BeginChange, BeginDelete, AssignOrder, RowsInv, AllJobs, JobFits
<1>6. May' = May /\ Owed' = Owed /\ Known' = Known /\ MayNow \subseteq MayNow'
  BY <1>2, <1>4, <1>5, SameMay, MayNowGrows
<1>7. MemFits'
  <2>1. Apart => Elems(list) \cap hist'.refused = {}
    BY <1>2, <1>3, NotRefused DEF BotsFit, SameHist
  <2>2. BotsFit(list, MayNow')
    BY <1>3, <1>6 DEF BotsFit
  <2> QED
    BY <1>2, <1>3, <1>6, <2>1, <2>2, MemChanges
<1>8. FilesFit'
  BY <1>2, <1>6, FilesStay
<1>9. OneAdd'
  BY <1>4, OneAddStays
<1>10. AllJobs'
  <2>1. th'[t] = x
    BY <1>4 DEF RowsInv, IInv, Shaped
  <2>2. JobFits(t)'
    BY <1>4, <2>1 DEF JobFits
  <2>3. \A u \in Threads \ {t} : JobFits(u)'
    BY <1>2, <1>4, <1>6, OthersFit
  <2> QED
    BY <2>2, <2>3 DEF AllJobs
<1> QED
  BY <1>1, <1>7, <1>8, <1>9, <1>10 DEF RowsInv

\* A thread moves and nothing else does.
LEMMA JobMoves ==
    ASSUME RowsInv, IInv', NEW t \in Threads, NEW x, th' = [th EXCEPT ![t] = x],
           up, UNCHANGED <<up, mem, file, safe, hist>>,
           \A u \in Threads \ {t} : temp'[u] = temp[u],
           \/ ~Adding(t)
           \/ x.op = "add" /\ x.at # "insert" /\ x.bot = th[t].bot,
           OneAdd',
           MayNow \subseteq MayNow' /\ Known' = Known /\ Owed' = Owed => JobFits(t)'
    PROVE  RowsInv'
<1>1. SameHist /\ hist'.refused = hist.refused /\ hist'.refused \subseteq Bots
  BY DEF SameHist, RowsInv, FilesFit
<1>2. May' = May /\ Owed' = Owed /\ Known' = Known /\ MayNow \subseteq MayNow'
  BY <1>1, SameMay, MayNowGrows
<1>3. MemFits'
  BY <1>1, <1>2, MemStays
<1>4. FilesFit'
  BY <1>1, <1>2, FilesStay
<1>5. AllJobs'
  <2>1. \A u \in Threads \ {t} : JobFits(u)'
    BY <1>2, OthersFit
  <2> QED
    BY <1>2, <2>1 DEF AllJobs
<1> QED
  BY <1>3, <1>4, <1>5 DEF RowsInv

\* An add begins with a bot that no file has and nobody lists.
LEMMA BeginAddFits ==
    ASSUME RowsInv, NEW t \in Threads, BeginAdd(t) PROVE RowsInv'
<1>1. PICK b \in Bots \ (Listed \cup Elems(file.rows \o FirstRows) \cup hist.added \cup hist.refused) :
        th' = [th EXCEPT ![t].op = "add", ![t].bot = b, ![t].at = "insert"]
  BY DEF BeginAdd
<1> DEFINE x == [th[t] EXCEPT !.op = "add", !.bot = b, !.at = "insert"]
<1>2. th' = [th EXCEPT ![t] = x]
  BY <1>1 DEF RowsInv, IInv, Shaped
<1>3. x.op = "add" /\ x.bot = b /\ x.at = "insert"
  BY DEF RowsInv, IInv, Shaped, IsJob
<1> HIDE DEF x
<1>4. up /\ UNCHANGED <<up, mem, file, safe, temp, hist>> /\ IInv'
  BY ChangeMaps DEF BeginAdd, Free2, RowsInv
<1>5. b \in Bots \ Known
  <2>1. Elems(file.rows \o FirstRows) = Elems(file.rows) \cup Elems(FirstRows)
    <3>1. file.rows \in Seq(Bots \cup Bad)
      BY DEF RowsInv, FilesFit, RowsFit
    <3> QED
      BY <3>1, RowsAssumption, Concat
  <2> QED
    BY <1>1, <2>1 DEF Known
<1>6. th'[t] = x /\ \A u \in Threads \ {t} : th'[u] = th[u]
  BY <1>2 DEF RowsInv, IInv, Shaped
<1>7. OneAdd'
  <2>1. \A u \in Threads \ {t} : th'[u].op # "add" /\ (Apart => th'[u].op # "reorder")
    BY <1>6 DEF BeginAdd
  <2> QED
    BY <1>3, <1>6, <2>1 DEF OneAdd
<1>8. ~Adding(t)
  BY DEF BeginAdd, Adding
<1>9. Known' = Known => JobFits(t)'
  BY <1>3, <1>5, <1>6 DEF JobFits
<1> QED
  BY <1>2, <1>4, <1>7, <1>8, <1>9, JobMoves

\* A reorder keeps what it found.
LEMMA BeginReorderFits ==
    ASSUME RowsInv, NEW t \in Threads, BeginReorder(t) PROVE RowsInv'
<1>1. PICK first \in Listed :
        th' = [th EXCEPT ![t].op = "reorder", ![t].at = "assign",
                         ![t].order = <<first>> \o Picked(mem.bots, Bots \ {first})]
  BY DEF BeginReorder
<1> DEFINE rest == Picked(mem.bots, Bots \ {first})
           o == <<first>> \o rest
           x == [th[t] EXCEPT !.op = "reorder", !.at = "assign", !.order = o]
<1>2. th' = [th EXCEPT ![t] = x]
  BY <1>1 DEF RowsInv, IInv, Shaped
<1>3. x.op = "reorder" /\ x.order = o /\ x.at = "assign"
  <2> HIDE DEF o
  <2> QED
    BY DEF RowsInv, IInv, Shaped, IsJob
<1> HIDE DEF x
<1>4. up /\ UNCHANGED <<up, mem, file, safe, temp, hist>> /\ IInv'
  BY ChangeMaps DEF BeginReorder, Free2, RowsInv
<1>5. BotsFit(o, MayNow)
  <2>1. BotsFit(rest, MayNow) /\ Elems(rest) = Elems(mem.bots) \cap (Bots \ {first})
    BY <1>4, ListFits, PickFits
  <2>2. first \in Bots /\ first \in MayNow
    BY <1>4, ListFits, LenProperties, ElementOfSeq DEF BotsFit, Listed, Elems
  <2> DEFINE s == <<first>>
  <2>3. s \in Seq(Bots) /\ Elems(s) = {first} /\ Once(s)
    BY <2>2, Single
  <2>4. rest \in Seq(Bots) /\ Once(rest) /\ first \notin Elems(rest) /\ Elems(rest) \subseteq MayNow
    BY <2>1 DEF BotsFit
  <2>5. Elems(s) \cap Elems(rest) = {}
    BY <2>3, <2>4
  <2>6. s \in Seq(Bots) /\ Once(s) /\ rest \in Seq(Bots) /\ Once(rest)
    BY <2>3, <2>4, Zenon
  <2>7. o = s \o rest
    OBVIOUS
  <2> HIDE DEF s, o, rest
  <2>8. s \o rest \in Seq(Bots) /\ Elems(s \o rest) = Elems(s) \cup Elems(rest) /\ Once(s \o rest)
    BY <2>5, <2>6, Concat
  <2>9. Elems(s \o rest) \subseteq MayNow
    BY <2>2, <2>3, <2>4, <2>8
  <2> QED
    BY <2>7, <2>8, <2>9 DEF BotsFit
<1>6. th'[t] = x /\ \A u \in Threads \ {t} : th'[u] = th[u]
  BY <1>2 DEF RowsInv, IInv, Shaped
<1>7. OneAdd'
  <2>1. \A u \in Threads : th'[u].op = "add" => th[u].op = "add" /\ u # t
    BY <1>3, <1>6
  <2>2. Apart => \A u \in Threads : th[u].op # "add"
    BY DEF BeginReorder
  <2> QED
    BY <1>3, <1>6, <2>1, <2>2 DEF OneAdd, RowsInv
<1>8. ~Adding(t)
  BY DEF BeginReorder, Adding, RowsInv, AllJobs, JobFits
<1>9. MayNow \subseteq MayNow' => JobFits(t)'
  <2> HIDE DEF o
  <2>1. MayNow \subseteq MayNow' => BotsFit(o, MayNow')
    BY <1>5 DEF BotsFit
  <2> QED
    BY <1>3, <1>6, <2>1 DEF JobFits
<1> HIDE DEF o
<1> QED
  BY <1>2, <1>4, <1>7, <1>8, <1>9, JobMoves

\* What a save is about to write.
LEMMA SnapFits ==
    ASSUME RowsInv, up PROVE RowsFit(RowsToSave(mem), MayNow, Owed)
<1>1. /\ mem.bots \in Seq(Bots) /\ Once(mem.bots) /\ Elems(mem.bots) \subseteq MayNow
      /\ mem.bad \in BadRows /\ OnceEach(mem.bad) /\ Owed \subseteq BadOf(mem)
  BY DEF RowsInv, MemFits, BotsFit
<1>2. BadOf(mem) \subseteq Bad
  BY <1>1, FollowersApart
<1>3. /\ RowsToSave(mem) \in Seq(Bots \cup Bad) /\ Once(RowsToSave(mem))
      /\ Elems(RowsToSave(mem)) = Elems(mem.bots) \cup BadOf(mem)
  BY <1>1, SavedIs
<1>4. Elems(RowsToSave(mem)) \subseteq MayNow /\ Owed \subseteq Elems(RowsToSave(mem))
  BY <1>1, <1>2, <1>3 DEF MayNow, May
<1> QED
  BY <1>3, <1>4 DEF RowsFit

LEMMA SaveFits ==
    ASSUME RowsInv, NEW t \in Threads, Acquire(t) \/ Snapshot(t) \/ WriteTemp(t) \/ SyncTemp(t)
    PROVE  RowsInv'
<1>1. IInv'
  BY SaveMaps DEF RowsInv
<1>2. up /\ UNCHANGED <<up, mem, file, safe, hist>>
  BY DEF Acquire, Snapshot, WriteTemp, SyncTemp
<1>3. \A u \in Threads \ {t} : temp'[u] = temp[u]
  BY DEF Acquire, Snapshot, WriteTemp, SyncTemp, RowsInv, IInv, Shaped
<1>4. PICK x : /\ th' = [th EXCEPT ![t] = x] /\ x.op = th[t].op /\ x.bot = th[t].bot
               /\ x.at \in {"snap", "write", "sync", "replace"}
               /\ x.at = "snap" => th[t].at = "ask"
               /\ x.at # "snap" => th[t].at \in {"snap", "write", "sync"}
               /\ x.at # "snap" => RowsFit(x.snap.rows, MayNow, Owed)
               /\ x.at = "replace" => temp'[t].synced
  <2>1. CASE Acquire(t)
    <3>1. Goes(t, th[t].op, "snap") /\ IInv /\ th[t].at = "ask"
      BY <2>1 DEF Acquire, RowsInv
    <3>2. PICK x : th' = [th EXCEPT ![t] = x] /\ x.at = "snap" /\ x.op = th[t].op /\ x.bot = th[t].bot
      BY <3>1, SetAt
    <3> QED
      BY <3>1, <3>2
  <2>2. CASE Snapshot(t)
    <3> DEFINE c == [ver |-> mem.ver, rows |-> RowsToSave(mem)]
               x == [th[t] EXCEPT !.at = "write", !.snap = c]
    <3>1. th' = [th EXCEPT ![t] = x] /\ th[t].at = "snap"
      BY <2>2 DEF Snapshot, RowsInv, IInv, Shaped
    <3>2. c.rows = RowsToSave(mem) /\ RowsFit(RowsToSave(mem), MayNow, Owed)
      BY <1>2, SnapFits
    <3> HIDE DEF c
    <3>3. x.at = "write" /\ x.snap = c /\ x.op = th[t].op /\ x.bot = th[t].bot
      BY DEF RowsInv, IInv, Shaped, IsJob
    <3> HIDE DEF x
    <3>4. RowsFit(x.snap.rows, MayNow, Owed)
      BY <3>2, <3>3
    <3> QED
      BY <3>1, <3>3, <3>4
  <2>3. CASE WriteTemp(t)
    <3>1. Goes(t, th[t].op, "sync") /\ IInv /\ th[t].at = "write" /\ RowsFit(th[t].snap.rows, MayNow, Owed)
      BY <2>3 DEF WriteTemp, RowsInv, AllJobs, JobFits
    <3>2. PICK x : th' = [th EXCEPT ![t] = x] /\ x.at = "sync" /\ x.op = th[t].op /\ x.bot = th[t].bot
                   /\ x.snap = th[t].snap
      BY <3>1, SetAt
    <3> QED
      BY <3>1, <3>2
  <2>4. CASE SyncTemp(t)
    <3>1. Goes(t, th[t].op, "replace") /\ IInv /\ th[t].at = "sync" /\ RowsFit(th[t].snap.rows, MayNow, Owed)
      BY <2>4 DEF SyncTemp, RowsInv, AllJobs, JobFits
    <3>2. PICK x : th' = [th EXCEPT ![t] = x] /\ x.at = "replace" /\ x.op = th[t].op /\ x.bot = th[t].bot
                   /\ x.snap = th[t].snap
      BY <3>1, SetAt
    <3>3. temp'[t].synced
      BY <2>4 DEF SyncTemp, RowsInv, IInv, Shaped, IsTemp
    <3> QED
      BY <3>1, <3>2, <3>3
  <2> QED
    BY <2>1, <2>2, <2>3, <2>4
<1>5. th'[t] = x
  BY <1>4 DEF RowsInv, IInv, Shaped
<1>6. JobFits(t)
  BY DEF RowsInv, AllJobs
<1>7. ~Adding(t) \/ (x.op = "add" /\ x.at # "insert" /\ x.bot = th[t].bot)
  BY <1>4 DEF Adding
<1>8. OneAdd'
  BY <1>4, OneAddStays
<1>9. MayNow \subseteq MayNow' /\ Known' = Known /\ Owed' = Owed => JobFits(t)'
  <2>1. ASSUME MayNow \subseteq MayNow', Known' = Known, Owed' = Owed PROVE JobFits(t)'
    <3>1. x.at # "snap" => RowsFit(x.snap.rows, MayNow', Owed')
      BY <1>4, <2>1 DEF RowsFit
    <3>2. x.op = "add" => x.bot \in Bots \ Known'
      BY <1>4, <1>6, <2>1 DEF JobFits
    <3> QED
      BY <1>4, <1>5, <3>1, <3>2 DEF JobFits
  <2> QED
    BY <2>1
<1> QED
  BY <1>1, <1>2, <1>3, <1>4, <1>7, <1>8, <1>9, JobMoves

\* An add puts its bot at the end of the list: nobody else can have.
LEMMA InsertFits ==
    ASSUME RowsInv, NEW t \in Threads, Insert(t) PROVE RowsInv'
<1> DEFINE b == th[t].bot
           list == Append(mem.bots, b)
<1>1. IInv'
  BY InsertMaps DEF RowsInv
<1>2. up /\ up' = up /\ UNCHANGED <<file, safe, temp, hist>> /\ th[t].at = "insert" /\ mem' = Changed(list)
  BY DEF Insert
<1>3. th[t].op = "add" /\ b \in Bots \ Known
  BY <1>2 DEF RowsInv, AllJobs, JobFits
<1>4. PICK x : th' = [th EXCEPT ![t] = x] /\ x.at = "snap" /\ x.op = "add" /\ x.bot = b
  <2>1. Goes(t, "add", "snap") /\ IInv
    BY DEF Insert, RowsInv
  <2> QED
    BY <2>1, SetAt
<1>5. th'[t] = x
  BY <1>4 DEF RowsInv, IInv, Shaped
<1>6. SameHist /\ hist'.refused \subseteq Bots
  BY <1>2 DEF SameHist, RowsInv, FilesFit
<1>7. May' = May /\ Owed' = Owed /\ Known' = Known
  BY <1>6, SameMay
<1>8. MayNow \subseteq MayNow'
  <2>1. ~Adding(t)
    BY <1>2 DEF Adding
  <2> QED
    BY <1>4, <1>6, <2>1, MayNowGrows
<1>9. b \in MayNow'
  <2>1. Adding(t)' /\ th'[t].bot = b
    BY <1>4, <1>5 DEF Adding
  <2> QED
    BY <2>1 DEF MayNow
<1>10. BotsFit(mem.bots, MayNow) /\ b \notin Elems(mem.bots)
  <2>1. \A u \in Threads : ~Adding(u)
    BY <1>2, <1>3 DEF Adding, RowsInv, OneAdd
  <2>2. b \notin MayNow
    BY <1>3, <2>1, RowsAssumption DEF MayNow, May
  <2>3. BotsFit(mem.bots, MayNow)
    BY <1>2, ListFits
  <2> QED
    BY <2>2, <2>3 DEF BotsFit
<1>11. BotsFit(list, MayNow') /\ Elems(list) = Elems(mem.bots) \cup {b}
  <2> DEFINE s == <<b>>
             old == mem.bots
  <2>1. s \in Seq(Bots) /\ Elems(s) = {b} /\ Once(s)
    BY <1>3, Single
  <2>2. Elems(old) \cap Elems(s) = {}
    BY <1>10, <2>1
  <2>3. old \in Seq(Bots) /\ s \in Seq(Bots) /\ Once(old) /\ Once(s)
    BY <1>10, <2>1 DEF BotsFit
  <2>4. list = old \o s
    BY <1>3, <2>3, AppendIsConcat
  <2> HIDE DEF s, old, list, b
  <2>5. old \o s \in Seq(Bots) /\ Elems(old \o s) = Elems(old) \cup Elems(s) /\ Once(old \o s)
    BY <2>2, <2>3, Concat
  <2>6. list \in Seq(Bots) /\ Elems(list) = Elems(old) \cup {b} /\ Once(list)
    BY <2>1, <2>4, <2>5, Zenon
  <2>7. Elems(old) \subseteq MayNow'
    BY <1>8, <1>10 DEF BotsFit, old
  <2>8. Elems(list) \subseteq MayNow'
    BY <1>9, <2>6, <2>7
  <2> QED
    BY <2>6, <2>8 DEF BotsFit, old
<1>12. MemFits'
  <2>1. ASSUME Apart PROVE Elems(list) \cap hist'.refused = {}
    <3>1. Elems(mem.bots) \cap hist.refused = {}
      BY <2>1 DEF RowsInv, MemFits
    <3>2. b \notin hist.refused /\ hist'.refused = hist.refused
      BY <1>2, <1>3 DEF Known
    <3> HIDE DEF list, b
    <3> QED
      BY <1>11, <3>1, <3>2
  <2> HIDE DEF list
  <2> QED
    BY <1>2, <1>7, <1>11, <2>1, MemChanges
<1>13. FilesFit'
  BY <1>2, <1>6, <1>7, FilesStay
<1>14. OneAdd'
  BY <1>3, <1>4, OneAddStays
<1>15. JobFits(t)'
  BY <1>3, <1>4, <1>5, <1>7 DEF JobFits
<1>16. AllJobs'
  <2>1. \A u \in Threads \ {t} : JobFits(u)'
    BY <1>2, <1>4, <1>7, <1>8, OthersFit
  <2> QED
    BY <1>15, <2>1 DEF AllJobs
<1> QED
  BY <1>1, <1>12, <1>13, <1>14, <1>16 DEF RowsInv

\* What lands is the snapshot, fsynced; the bot of an add is now one of the file's.
LEMMA ReplaceFits ==
    ASSUME RowsInv, NEW t \in Threads, Replace(t) PROVE RowsInv'
<1> DEFINE b == th[t].bot
           c == th[t].snap
<1>1. IInv'
  BY ReplaceMaps DEF RowsInv
<1>2. /\ up /\ up' = up /\ mem' = mem /\ th[t].at = "replace" /\ lock = t
      /\ temp[t].content = c /\ temp[t].synced /\ file' = c /\ safe' = safe \cup {c}
      /\ RowsFit(c.rows, MayNow, Owed)
  BY DEF Replace, RowsInv, IInv, Saving, AllJobs, JobFits
<1>3. th' = [th EXCEPT ![t] = Idle] /\ temp' = [temp EXCEPT ![t] = NoTemp]
  BY DEF Replace, Finish
<1>4. th'[t] = Idle /\ \A u \in Threads \ {t} : th'[u] = th[u] /\ temp'[u] = temp[u]
  BY <1>3 DEF RowsInv, IInv, Shaped
<1>5. /\ hist'.refused = hist.refused /\ hist'.unread = hist.unread
      /\ hist'.added = IF th[t].op = "add" THEN hist.added \cup {b} ELSE hist.added
  BY DEF Replace, RowsInv, IInv, Shaped, IsHist
<1>6. Owed' = Owed /\ May \subseteq May' /\ hist'.refused \subseteq Bots
  BY <1>5 DEF Owed, May, Known, RowsInv, FilesFit
<1>7. \A u \in Threads \ {t} : /\ th[u].at \notin {"write", "sync", "replace"}
                               /\ th[t].op = "add" => th[u].op # "add"
  BY <1>2 DEF RowsInv, IInv, Saving, OneAdd
<1>8. MayNow \subseteq May'
  <2>1. \A u \in Threads : Adding(u) => u = t
    <3>1. ASSUME NEW u \in Threads, Adding(u), u # t PROVE FALSE
      <4>1. th[u].at \in {"snap", "write", "sync", "replace"}
        BY <3>1 DEF Adding, RowsInv, AllJobs, JobFits
      <4>2. lock = u
        BY <4>1 DEF RowsInv, IInv, Saving
      <4> QED
        BY <1>2, <3>1, <4>2
    <3> QED
      BY <3>1
  <2>2. ASSUME Adding(t) PROVE b \in May'
    <3>1. th[t].op = "add" /\ b \notin hist.refused
      BY <2>2 DEF Adding, RowsInv, AllJobs, JobFits, Known
    <3> QED
      BY <1>5, <3>1 DEF May, Known
  <2> QED
    BY <1>6, <2>1, <2>2 DEF MayNow
<1>9. MayNow \subseteq MayNow'
  BY <1>8 DEF MayNow
<1>10. MemFits'
  BY <1>2, <1>5, <1>6, <1>9, MemStays
<1>11. FilesFit'
  <2>1. RowsFit(c.rows, May', Owed')
    BY <1>2, <1>6, <1>8 DEF RowsFit
  <2>2. \A d \in safe \cup {file} : RowsFit(d.rows, May', Owed')
    BY <1>6, MoreFits DEF FilesFit, RowsInv
  <2> QED
    BY <1>2, <1>6, <2>1, <2>2 DEF FilesFit
<1>12. OneAdd'
  BY <1>3, OneAddStays DEF Idle
<1>13. AllJobs'
  <2>1. JobFits(t)'
    BY <1>4 DEF JobFits, Idle
  <2>2. Known' = Known \/ \A u \in Threads \ {t} : th[u].op # "add"
    BY <1>5, <1>7 DEF Known
  <2>3. \A u \in Threads \ {t} : JobFits(u)'
    BY <1>3, <1>4, <1>6, <1>9, <2>2, OthersFit
  <2> QED
    BY <2>1, <2>3 DEF AllJobs
<1> QED
  BY <1>1, <1>10, <1>11, <1>12, <1>13 DEF RowsInv

\* A failed add takes its bot out again; no file has it, and if no reorder overlaps an add
\* nothing will bring it back.
LEMMA FailFits ==
    ASSUME RowsInv, NEW t \in Threads, Fail(t) PROVE RowsInv'
<1> DEFINE b == th[t].bot
<1>1. IInv'
  BY FailMaps DEF RowsInv
<1>2. /\ up /\ up' = up /\ file' = file /\ safe' = safe /\ lock = t
      /\ th[t].at \in {"write", "sync", "replace"}
  BY DEF Fail, RowsInv, IInv, Saving
<1>3. th' = [th EXCEPT ![t] = Idle] /\ temp' = [temp EXCEPT ![t] = NoTemp]
  BY DEF Fail, Finish
<1>4. th'[t] = Idle /\ \A u \in Threads \ {t} : th'[u] = th[u] /\ temp'[u] = temp[u]
  BY <1>3 DEF RowsInv, IInv, Shaped
<1>5. OneAdd'
  BY <1>3, OneAddStays DEF Idle
<1>6. JobFits(t)'
  BY <1>4 DEF JobFits, Idle
<1>7. \A u \in Threads \ {t} : th[u].at \notin {"write", "sync", "replace"} /\ ~Adding(u)
  BY <1>2 DEF RowsInv, IInv, Saving, AllJobs, JobFits, Adding
<1>8. CASE th[t].op # "add"
  <2>1. mem' = mem /\ hist' = hist
    BY <1>8 DEF Fail
  <2>2. SameHist /\ hist'.refused \subseteq Bots
    BY <2>1 DEF SameHist, RowsInv, FilesFit
  <2>3. May' = May /\ Owed' = Owed /\ Known' = Known /\ MayNow \subseteq MayNow'
    BY <1>3, <1>8, <2>2, SameMay, MayNowGrows DEF Adding
  <2>4. MemFits'
    BY <1>2, <2>1, <2>3, MemStays
  <2>5. FilesFit'
    BY <1>2, <2>2, <2>3, FilesStay
  <2>6. \A u \in Threads \ {t} : JobFits(u)'
    BY <1>3, <1>4, <2>3, OthersFit
  <2> QED
    BY <1>1, <1>5, <1>6, <2>4, <2>5, <2>6 DEF RowsInv, AllJobs
<1>9. CASE th[t].op = "add"
  <2> DEFINE list == Picked(mem.bots, Bots \ {b})
  <2>1. mem' = Changed(list) /\ b \in Bots /\ b \notin Known
    BY <1>2, <1>9 DEF Fail, RowsInv, AllJobs, JobFits
  <2>2. hist'.refused = hist.refused \cup {b} /\ hist'.added = hist.added /\ hist'.unread = hist.unread
    BY <1>9 DEF Fail, RowsInv, IInv, Shaped, IsHist
  <2>3. Owed' = Owed /\ May \subseteq May' /\ hist'.refused \subseteq Bots
    BY <2>1, <2>2 DEF Owed, May, Known, RowsInv, FilesFit
  <2>4. MayNow \subseteq May \cup {b}
    BY <1>7 DEF MayNow
  <2>5. BotsFit(list, MayNow) /\ b \notin Elems(list)
    BY <1>2, ListFits, PickFits
  <2> HIDE DEF list
  <2>6. BotsFit(list, MayNow')
    <3>1. Elems(list) \subseteq May'
      BY <2>3, <2>4, <2>5 DEF BotsFit
    <3> QED
      BY <2>5, <3>1 DEF BotsFit, MayNow
  <2>7. MemFits'
    <3>1. ASSUME Apart PROVE Elems(list) \cap hist'.refused = {}
      <4>1. Elems(list) \subseteq MayNow
        BY <2>5 DEF BotsFit
      <4>2. MayNow \cap hist.refused = {}
        BY <3>1, NotRefused
      <4> QED
        BY <2>2, <2>5, <4>1, <4>2
    <3> QED
      BY <1>2, <2>1, <2>3, <2>6, <3>1, MemChanges
  <2>8. FilesFit'
    BY <1>2, <2>3, FilesStay
  <2>9. \A u \in Threads \ {t} : th[u].op # "add"
    BY <1>9 DEF RowsInv, OneAdd
  <2>10. \/ MayNow \subseteq MayNow'
         \/ \A u \in Threads \ {t} : th[u].at \notin {"assign", "write", "sync", "replace"}
    <3>1. CASE Apart
      <4>1. \A u \in Threads : th[u].at # "assign"
        BY <1>9, <3>1 DEF RowsInv, OneAdd, AllJobs, JobFits
      <4> QED
        BY <1>7, <4>1
    <3>2. CASE ~Apart
      <4>1. b \in May'
        BY <2>2, <3>2 DEF May, Known
      <4> QED
        BY <2>3, <2>4, <4>1 DEF MayNow
    <3> QED
      BY <3>1, <3>2
  <2>11. \A u \in Threads \ {t} : JobFits(u)'
    BY <1>3, <1>4, <2>3, <2>9, <2>10, OthersFit
  <2> QED
    BY <1>1, <1>5, <1>6, <2>7, <2>8, <2>11 DEF RowsInv, AllJobs
<1> QED
  BY <1>8, <1>9

\* The process goes down: what is left is what the file says, or what may be left of it.
LEMMA DownFits ==
    ASSUME RowsInv, Crash \/ PowerLost PROVE RowsInv'
<1>1. IInv' /\ \A t \in Threads : th'[t] = Idle
  BY DownMaps DEF RowsInv, Crash, PowerLost, Gone
<1>2. up /\ ~up' /\ mem' = mem /\ SameHist /\ hist'.refused = hist.refused
  <2>1. SameHist
    BY DEF Crash, PowerLost, SameHist, RowsInv, IInv, Shaped, IsHist
  <2> QED
    BY <2>1 DEF Crash, PowerLost, Gone, SameHist
<1>3. May' = May /\ Owed' = Owed
  BY <1>2, SameMay
<1>4. MemFits'
  <2>1. BotsFit(mem.bots, Bots)
    BY <1>2, ListFits, LenProperties, ElementOfSeq DEF BotsFit, Elems
  <2>2. BadOf(mem)' = BadOf(mem)
    BY <1>2 DEF BadOf
  <2> QED
    BY <1>2, <1>3, <2>1, <2>2 DEF MemFits, RowsInv
<1>5. FilesFit'
  <2>1. file' \in safe \cup {file} /\ safe' \subseteq safe \cup {file'}
    BY DEF Crash, PowerLost
  <2> QED
    BY <1>2, <1>3, <2>1 DEF FilesFit, RowsInv
<1>6. OneAdd' /\ AllJobs'
  BY <1>1 DEF OneAdd, AllJobs, JobFits, Idle
<1> QED
  BY <1>1, <1>4, <1>5, <1>6 DEF RowsInv

\* A boot reads the file, or nothing.
LEMMA BootFits ==
    ASSUME RowsInv, Boot PROVE RowsInv'
<1>1. IInv' /\ up' /\ ~up /\ file' = file /\ safe' = safe /\ temp' = temp
  BY BootMaps DEF RowsInv, Boot
<1>2. \A t \in Threads : th[t].at = "idle" /\ th[t].op # "add"
  BY <1>1 DEF RowsInv, IInv, Saving, AllJobs, JobFits
<1>3. hist'.added = hist.added /\ hist'.refused = hist.refused /\ (hist'.unread = hist.unread \/ hist'.unread)
  BY DEF Boot, RowsInv, IInv, Shaped, IsHist
<1>4. Known' = Known /\ May' = May /\ Owed' \subseteq Owed /\ May \subseteq MayNow'
  BY <1>3 DEF Known, May, Owed, MayNow
<1>5. FilesFit'
  BY <1>1, <1>3, <1>4, FilesStay DEF RowsInv, FilesFit
<1>6. OneAdd' /\ AllJobs'
  <2>1. \A t \in Threads : th'[t].at \in {"idle", "ask"} /\ th'[t].op # "add"
    <3>1. CASE th' = th
      BY <1>2, <3>1
    <3>2. ASSUME NEW t \in Threads, Goes(t, "change", "ask")
          PROVE  <2>1
      <4>1. PICK x : th' = [th EXCEPT ![t] = x] /\ x.at = "ask" /\ x.op = "change"
        BY <3>2, SetAt DEF RowsInv
      <4> QED
        BY <1>2, <4>1 DEF RowsInv, IInv, Shaped
    <3> QED
      BY <3>1, <3>2 DEF Boot, Goes
  <2> QED
    BY <2>1 DEF OneAdd, AllJobs, JobFits
<1>7. MemFits'
  <2>1. CASE mem' = Loaded(file)
    <3> DEFINE m == Parsed(file.rows)
    <3>1. mem'.bots = m.bots /\ mem'.bad = m.bad
      BY <2>1 DEF Loaded
    <3>2. /\ file.rows \in Seq(Bots \cup Bad) /\ Once(file.rows)
          /\ Elems(file.rows) \subseteq May /\ Owed \subseteq Elems(file.rows)
      BY DEF RowsInv, FilesFit, RowsFit
    <3>3. /\ m.bots \in Seq(Bots) /\ Once(m.bots) /\ Elems(m.bots) = Elems(file.rows) \cap Bots
          /\ m.bad \in BadRows /\ OnceEach(m.bad) /\ BadOf(m) = Elems(file.rows) \cap Bad
      BY <3>2, ParsedIs
    <3>4. BadOf(mem)' = BadOf(m)
      BY <3>1 DEF BadOf
    <3> HIDE DEF m
    <3>5. Owed' \subseteq BadOf(mem)'
      BY <1>4, <3>2, <3>3, <3>4 DEF Owed
    <3>6. Elems(m.bots) \subseteq MayNow'
      BY <1>4, <3>2, <3>3
    <3>7. Apart => Elems(m.bots) \cap hist'.refused = {}
      BY <1>3, <3>2, <3>3, RowsAssumption DEF May
    <3> QED
      BY <1>1, <3>1, <3>3, <3>5, <3>6, <3>7 DEF MemFits, BotsFit
  <2>2. CASE mem' = [ver |-> file.ver, bots |-> <<>>, bad |-> <<>>] /\ hist'.unread
    <3>1. mem'.bots = <<>> /\ mem'.bad = <<>>
      BY <2>2
    <3>2. Owed' = {}
      BY <2>2 DEF Owed
    <3>3. BotsFit(<<>>, MayNow') /\ Elems(<<>>) \cap hist'.refused = {}
      BY Single DEF BotsFit
    <3>4. <<>> \in BadRows /\ OnceEach(<<>>)
      BY DEF BadRows, OnceEach
    <3> QED
      BY <1>1, <3>1, <3>2, <3>3, <3>4 DEF MemFits
  <2> QED
    BY <2>1, <2>2 DEF Boot, RowsInv, IInv, Shaped, IsHist
<1> QED
  BY <1>1, <1>5, <1>6, <1>7 DEF RowsInv

LEMMA WrittenBackFits ==
    ASSUME RowsInv, WrittenBack PROVE RowsInv'
<1>1. IInv' /\ up /\ UNCHANGED <<up, mem, file, temp, lock, th, hist>> /\ safe' = {file}
  BY WrittenBackMaps DEF RowsInv, WrittenBack
<1>2. Known' = Known /\ May' = May /\ MayNow' = MayNow /\ Owed' = Owed
  BY <1>1 DEF Known, May, MayNow, Adding, Owed
<1>3. MemFits' /\ FilesFit'
  BY <1>1, <1>2 DEF RowsInv, MemFits, BadOf, FilesFit
<1>4. OneAdd' /\ AllJobs'
  BY <1>1, <1>2 DEF RowsInv, OneAdd, AllJobs, JobFits
<1> QED
  BY <1>1, <1>3, <1>4 DEF RowsInv

LEMMA RowsStep == RowsInv /\ [Next]_vars => RowsInv'
<1> SUFFICES ASSUME RowsInv, [Next]_vars PROVE RowsInv'
  OBVIOUS
<1>1. CASE UNCHANGED vars
  <2>1. UNCHANGED <<up, mem, file, safe, temp, lock, th, hist>>
    BY <1>1 DEF vars
  <2>2. IInv'
    BY <2>1 DEF RowsInv, IInv, Shaped, Numbered, Saving
  <2>3. Known' = Known /\ May' = May /\ MayNow' = MayNow /\ Owed' = Owed
    BY <2>1 DEF Known, May, MayNow, Adding, Owed
  <2>4. MemFits' /\ FilesFit'
    BY <2>1, <2>3 DEF RowsInv, MemFits, BadOf, FilesFit
  <2>5. OneAdd' /\ AllJobs'
    BY <2>1, <2>3 DEF RowsInv, OneAdd, AllJobs, JobFits
  <2> QED
    BY <2>2, <2>4, <2>5 DEF RowsInv
<1>2. ASSUME NEW t \in Threads, ThreadStep(t) PROVE RowsInv'
  BY <1>2, ChangeFits, BeginAddFits, BeginReorderFits, InsertFits, SaveFits, ReplaceFits, FailFits
     DEF ThreadStep
<1> QED
  BY <1>1, <1>2, DownFits, BootFits, WrittenBackFits DEF Next

LEMMA TypeStep == RowsInv /\ TypeOK /\ [Next]_vars => TypeOK'
<1> SUFFICES ASSUME RowsInv, TypeOK, [Next]_vars PROVE TypeOK'
  OBVIOUS
<1> DEFINE Places == {"idle", "insert", "assign", "ask", "snap", "write", "sync", "replace"}
           TempOk(t) == temp[t].content \in Contents /\ temp[t].synced \in BOOLEAN
           JobOk(t) == th[t].at \in Places /\ th[t].snap \in Contents
<1>1. RowsInv'
  BY RowsStep
<1>2. /\ up' \in BOOLEAN /\ mem'.ver \in Nat /\ mem'.bots \in Seq(Bots)
      /\ mem'.bad \in Seq([after: Bots \cup {NoBot}, row: Bad]) /\ lock' \in Threads \cup {Free}
  BY <1>1 DEF RowsInv, IInv, Numbered, MemFits, BotsFit, BadRows
<1>3. /\ Torn \in Contents /\ Idle.at \in Places /\ Idle.snap \in Contents
      /\ NoTemp.content \in Contents /\ NoTemp.synced \in BOOLEAN
  <2>1. Torn \in Contents
    BY DEF Torn, Contents
  <2>2. Idle.at = "idle" /\ Idle.snap = Torn /\ NoTemp.content = Torn /\ NoTemp.synced = FALSE
    BY DEF Idle, NoTemp
  <2> QED
    BY <2>1, <2>2, Zenon
<1>4. \A t \in Threads : TempOk(t) /\ JobOk(t) /\ IsJob(th[t]) /\ IsTemp(temp[t])
  BY DEF TypeOK, RowsInv, IInv, Shaped
<1>5. ASSUME NEW t \in Threads, ThreadStep(t)
      PROVE  /\ file' \in Contents /\ safe' \subseteq Contents
             /\ \A u \in Threads : TempOk(u)' /\ JobOk(u)'
  <2>1. file' \in Contents /\ safe' \subseteq Contents
    <3>1. CASE Replace(t)
      BY <1>3, <1>4, <3>1 DEF Replace, TypeOK
    <3>2. CASE ~Replace(t)
      BY <1>5, <3>2 DEF ThreadStep, BeginChange, BeginDelete, BeginAdd, BeginReorder, AssignOrder,
              Insert, Acquire, Snapshot, WriteTemp, SyncTemp, Fail, Free2, TypeOK
    <3> QED
      BY <3>1, <3>2
  <2>2. PICK x : th' = [th EXCEPT ![t] = x] /\ x.at \in Places /\ x.snap \in Contents
    <3>1. CASE BeginChange(t) \/ BeginDelete(t) \/ Insert(t) \/ Acquire(t) \/ WriteTemp(t) \/ SyncTemp(t)
      <4>1. PICK op, at : Goes(t, op, at) /\ at \in Places
        BY <3>1 DEF BeginChange, BeginDelete, Insert, Acquire, WriteTemp, SyncTemp
      <4>2. PICK x : th' = [th EXCEPT ![t] = x] /\ x.at = at /\ x.snap = th[t].snap
        BY <4>1, SetAt DEF RowsInv
      <4> QED
        BY <1>4, <4>1, <4>2
    <3>2. CASE BeginAdd(t)
      <4>1. PICK b : th' = [th EXCEPT ![t].op = "add", ![t].bot = b, ![t].at = "insert"]
        BY <3>2 DEF BeginAdd
      <4> DEFINE x == [th[t] EXCEPT !.op = "add", !.bot = b, !.at = "insert"]
      <4>2. th' = [th EXCEPT ![t] = x]
        BY <4>1 DEF RowsInv, IInv, Shaped
      <4>3. x.at = "insert" /\ x.snap = th[t].snap
        BY <1>4 DEF IsJob
      <4> HIDE DEF x
      <4> QED
        BY <1>4, <4>2, <4>3
    <3>3. CASE BeginReorder(t)
      <4>1. PICK o : th' = [th EXCEPT ![t].op = "reorder", ![t].at = "assign", ![t].order = o]
        BY <3>3 DEF BeginReorder
      <4> DEFINE x == [th[t] EXCEPT !.op = "reorder", !.at = "assign", !.order = o]
      <4>2. th' = [th EXCEPT ![t] = x]
        BY <4>1 DEF RowsInv, IInv, Shaped
      <4>3. x.at = "assign" /\ x.snap = th[t].snap
        BY <1>4 DEF IsJob
      <4> HIDE DEF x
      <4> QED
        BY <1>4, <4>2, <4>3
    <3>4. CASE AssignOrder(t)
      <4> DEFINE x == [th[t] EXCEPT !.at = "ask", !.order = <<>>]
      <4>1. th' = [th EXCEPT ![t] = x]
        BY <3>4 DEF AssignOrder, RowsInv, IInv, Shaped
      <4>2. x.at = "ask" /\ x.snap = th[t].snap
        BY <1>4 DEF IsJob
      <4> HIDE DEF x
      <4> QED
        BY <1>4, <4>1, <4>2
    <3>5. CASE Snapshot(t)
      <4> DEFINE c == [ver |-> mem.ver, rows |-> RowsToSave(mem)]
                 x == [th[t] EXCEPT !.at = "write", !.snap = c]
      <4>1. RowsToSave(mem) \in Seq(Bots \cup Bad) /\ mem.ver \in Nat
        BY <3>5, SnapFits DEF RowsFit, Snapshot, RowsInv, IInv, Numbered
      <4>2. RowsToSave(mem) \in Seq(Bots \cup Bad \cup {"torn"})
        BY <4>1, SeqMonotonic
      <4>3. c \in Contents
        BY <4>1, <4>2 DEF Contents
      <4>4. th' = [th EXCEPT ![t] = x]
        BY <3>5 DEF Snapshot, RowsInv, IInv, Shaped
      <4> HIDE DEF c
      <4>5. x.at = "write" /\ x.snap = c
        BY <1>4 DEF IsJob
      <4> HIDE DEF x
      <4> QED
        BY <4>3, <4>4, <4>5
    <3>6. CASE Replace(t) \/ Fail(t)
      <4>1. th' = [th EXCEPT ![t] = Idle]
        BY <3>6 DEF Replace, Fail, Finish
      <4> QED
        BY <1>3, <4>1
    <3> QED
      BY <1>5, <3>1, <3>2, <3>3, <3>4, <3>5, <3>6 DEF ThreadStep
  <2>3. \A u \in Threads : JobOk(u)'
    <3>1. th'[t] = x /\ \A u \in Threads \ {t} : th'[u] = th[u]
      BY <2>2 DEF RowsInv, IInv, Shaped
    <3> QED
      BY <1>4, <2>2, <3>1
  <2>4. \A u \in Threads : TempOk(u)'
    <3>1. PICK y : temp' = [temp EXCEPT ![t] = y] /\ y.content \in Contents /\ y.synced \in BOOLEAN
      <4>1. CASE WriteTemp(t)
        <5>1. temp' = [temp EXCEPT ![t] = [content |-> th[t].snap, synced |-> FALSE]]
          BY <4>1 DEF WriteTemp
        <5> DEFINE y == [content |-> th[t].snap, synced |-> FALSE]
        <5>2. y.content = th[t].snap /\ y.synced = FALSE /\ temp' = [temp EXCEPT ![t] = y]
          BY <5>1
        <5> HIDE DEF y
        <5> QED
          BY <1>4, <5>2
      <4>2. CASE SyncTemp(t)
        <5> DEFINE y == [temp[t] EXCEPT !.synced = TRUE]
        <5>1. temp' = [temp EXCEPT ![t] = y]
          BY <4>2 DEF SyncTemp, RowsInv, IInv, Shaped
        <5>2. y.content = temp[t].content /\ y.synced = TRUE
          BY <1>4 DEF IsTemp
        <5> HIDE DEF y
        <5> QED
          BY <1>4, <5>1, <5>2
      <4>3. CASE Replace(t) \/ Fail(t)
        <5>1. temp' = [temp EXCEPT ![t] = NoTemp]
          BY <4>3 DEF Replace, Fail, Finish
        <5> QED
          BY <1>3, <5>1
      <4>4. CASE ~(WriteTemp(t) \/ SyncTemp(t) \/ Replace(t) \/ Fail(t))
        <5>1. temp' = temp
          BY <1>5, <4>4 DEF ThreadStep, BeginChange, BeginDelete, BeginAdd, BeginReorder, AssignOrder,
                  Insert, Acquire, Snapshot, Free2
        <5>2. temp' = [temp EXCEPT ![t] = temp[t]]
          BY <5>1 DEF RowsInv, IInv, Shaped
        <5> QED
          BY <1>4, <5>2
      <4> QED
        BY <4>1, <4>2, <4>3, <4>4
    <3>2. temp'[t] = y /\ \A u \in Threads \ {t} : temp'[u] = temp[u]
      BY <3>1 DEF RowsInv, IInv, Shaped
    <3> QED
      BY <1>4, <3>1, <3>2
  <2> QED
    BY <2>1, <2>3, <2>4
<1>6. CASE Crash \/ PowerLost
  <2>1. \A t \in Threads : th'[t] = Idle /\ temp'[t] = NoTemp
    BY <1>6 DEF Crash, PowerLost, Gone
  <2>2. file' \in Contents /\ safe' \subseteq Contents
    BY <1>6 DEF Crash, PowerLost, TypeOK
  <2> QED
    BY <1>2, <1>3, <2>1, <2>2 DEF TypeOK
<1>7. CASE Boot
  <2>1. \A t \in Threads : JobOk(t)'
    <3>1. CASE th' = th
      BY <1>4, <3>1
    <3>2. ASSUME NEW t \in Threads, Goes(t, "change", "ask") PROVE <2>1
      <4>1. PICK x : th' = [th EXCEPT ![t] = x] /\ x.at = "ask" /\ x.snap = th[t].snap
        BY <3>2, SetAt DEF RowsInv
      <4>2. th'[t] = x /\ \A u \in Threads \ {t} : th'[u] = th[u]
        BY <4>1 DEF RowsInv, IInv, Shaped
      <4> QED
        BY <1>4, <4>1, <4>2
    <3> QED
      BY <1>7, <3>1, <3>2 DEF Boot, Goes
  <2> QED
    BY <1>2, <1>4, <1>7, <2>1 DEF Boot, TypeOK
<1>8. CASE WrittenBack \/ UNCHANGED vars
  BY <1>2, <1>8 DEF WrittenBack, TypeOK, vars
<1> QED
  BY <1>2, <1>5, <1>6, <1>7, <1>8 DEF Next, TypeOK

\* Every part of the state has the shape that TypeOK says, whatever the file holds.
THEOREM TypeCorrect == Spec => []TypeOK
<1>1. Init => TypeOK
  <2> SUFFICES ASSUME Init PROVE TypeOK
    OBVIOUS
  <2>1. RowsInv
    BY RowsInit
  <2>2. FirstRows \in Seq(Bots \cup Bad \cup {"torn"})
    BY RowsAssumption, SeqMonotonic
  <2>3. file \in Contents /\ Torn \in Contents
    BY <2>2 DEF Init, Contents, Torn
  <2> QED
    BY <2>1, <2>3 DEF Init, TypeOK, RowsInv, IInv, Numbered, MemFits, BotsFit, BadRows, Idle, NoTemp
<1> QED
  BY <1>1, RowsInit, RowsStep, TypeStep, PTL DEF Spec

\* A row that load cannot read stays in bots.json, once (BadRowsKept), whatever threads
\* save and whichever step fails: what a save writes has every unreadable row that was read,
\* also those whose bot is gone, and a boot that reads the file reads them all.
THEOREM BadRowsStay == Spec => []BadRowsKept
<1>1. RowsInv => BadRowsKept
  <2> SUFFICES ASSUME RowsInv, ~hist.unread, NEW x \in Bad \cap Elems(FirstRows)
               PROVE  Cardinality({i \in DOMAIN file.rows : file.rows[i] = x}) = 1
    BY DEF BadRowsKept
  <2>1. x \in Elems(file.rows) /\ Once(file.rows)
    BY DEF RowsInv, FilesFit, RowsFit, Owed
  <2>2. PICK i \in DOMAIN file.rows : file.rows[i] = x
    BY <2>1 DEF Elems
  <2>3. {j \in DOMAIN file.rows : file.rows[j] = x} = {i}
    BY <2>1, <2>2 DEF Once
  <2> QED
    BY <2>3, FS_Singleton
<1> QED
  BY <1>1, RowsInit, RowsStep, PTL DEF Spec

\* An add that failed left nothing behind, in memory or in the file (AddAllOrNothing), if no
\* reorder overlaps an add: the insert, the save and the rollback are under one lock, so no
\* save of another thread can hold the bot.
THEOREM RefusedGone == ASSUME Apart PROVE Spec => []AddAllOrNothing
<1>1. RowsInv => AddAllOrNothing
  <2> SUFFICES ASSUME RowsInv, NEW b \in hist.refused PROVE b \notin Listed /\ b \notin Elems(file.rows)
    BY DEF AddAllOrNothing
  <2>1. b \notin Elems(mem.bots)
    BY DEF RowsInv, MemFits
  <2>2. b \notin May
    BY RowsAssumption DEF May, RowsInv, FilesFit
  <2>3. Elems(file.rows) \subseteq May
    BY DEF RowsInv, FilesFit, RowsFit
  <2> QED
    BY <2>1, <2>2, <2>3 DEF Listed
<1> QED
  BY <1>1, RowsInit, RowsStep, PTL DEF Spec

-----------------------------------------------------------------------------
(* The fund: the capital of some bots of a table.                          *)

Total(t, S) == Fund!MapThenSumSet(LAMBDA b : t[b].capital, S)

\* g adds up every part of S as Total does.
Adds(g, t, S) ==
    g = [s \in SUBSET S |-> IF s = {} THEN 0
                            ELSE LET x == CHOOSE x \in s : TRUE IN t[x].capital + g[s \ {x}]]

Priced(t, S) == IsFiniteSet(S) /\ \A b \in S : t[b].capital \in Nat

\* Among finite sets there is one no proper part of which is among them.
LEMMA Smallest ==
    ASSUME NEW U, IsFiniteSet(U), NEW F, F \subseteq SUBSET U, F # {}
    PROVE  \E s \in F : \A r \in SUBSET s : r # s => r \notin F
<1> DEFINE R == StrictSubsetOrdering(U)
<1>1. IsWellFoundedOn(R, SUBSET U)
  BY FS_StrictSubsetOrderingWellFounded, FS_FiniteSubsetsOfFinite, Zenon
<1> HIDE DEF R
<1>2. \E s \in F : \A r \in F : ~ (<<r, s>> \in R)
  BY <1>1, WFMin, Zenon
<1>3. PICK s \in F : \A r \in F : ~ (<<r, s>> \in R)
  BY <1>2
<1> QED
  BY <1>3 DEF R, StrictSubsetOrdering

\* What adds up a set adds up its parts.
LEMMA Agree ==
    ASSUME NEW t, NEW S, IsFiniteSet(S), NEW T \in SUBSET S,
           NEW g, NEW h, Adds(g, t, S), Adds(h, t, T)
    PROVE  g[T] = h[T]
<1> DEFINE F == {s \in SUBSET T : g[s] # h[s]}
<1>1. SUFFICES ASSUME F # {} PROVE FALSE
  OBVIOUS
<1>2. IsFiniteSet(T) /\ F \subseteq SUBSET T
  BY FS_Subset
<1>3. PICK s \in F : \A r \in SUBSET s : r # s => r \notin F
  <2> HIDE DEF F
  <2> QED
    BY <1>1, <1>2, Smallest
<1>4. s # {}
  BY DEF Adds
<1> DEFINE x == CHOOSE x \in s : TRUE
<1>5. x \in s
  BY <1>4
<1>6. /\ s \ {x} \in SUBSET T /\ s \ {x} \in SUBSET s /\ s \ {x} # s
      /\ s \ {x} \in SUBSET S /\ s \in SUBSET S
  BY <1>5
<1>7. g[s \ {x}] = h[s \ {x}]
  BY <1>3, <1>6
<1>8. g[s] = t[x].capital + g[s \ {x}]
  BY <1>4, <1>6 DEF Adds
<1>9. h[s] = t[x].capital + h[s \ {x}]
  BY <1>4, <1>6 DEF Adds
<1> QED
  BY <1>3, <1>7, <1>8, <1>9

LEMMA SomeAdds ==
    ASSUME NEW t, NEW S, IsFiniteSet(S) PROVE \E g : Adds(g, t, S)
<1> DEFINE F == {s \in SUBSET S : ~ \E g : Adds(g, t, s)}
<1>1. SUFFICES ASSUME F # {} PROVE FALSE
  OBVIOUS
<1>2. PICK s \in F : \A r \in SUBSET s : r # s => r \notin F
  <2>1. F \subseteq SUBSET S
    OBVIOUS
  <2> HIDE DEF F
  <2> QED
    BY <1>1, <2>1, Smallest
<1> DEFINE H(r) == CHOOSE g : Adds(g, t, r)
<1>3. ASSUME NEW r \in SUBSET s, r # s PROVE Adds(H(r), t, r)
  <2>1. \E g : Adds(g, t, r)
    BY <1>2, <1>3
  <2> QED
    BY <2>1
<1> DEFINE g == [r \in SUBSET s |->
                   IF r = {} THEN 0
                   ELSE LET x == CHOOSE x \in r : TRUE IN t[x].capital + H(r \ {x})[r \ {x}]]
<1>4. ASSUME NEW r \in SUBSET s, r # s PROVE g[r] = H(r)[r]
  <2> DEFINE x == CHOOSE x \in r : TRUE
  <2>1. CASE r = {}
    <3> HIDE DEF H
    <3>1. Adds(H(r), t, r) /\ r \in SUBSET r
      BY <1>3, <1>4
    <3>2. H(r)[r] = 0
      BY <2>1, <3>1 DEF Adds
    <3> QED
      BY <2>1, <3>2
  <2>2. CASE r # {}
    <3>1. x \in r /\ r \ {x} \in SUBSET r /\ r \ {x} \in SUBSET s /\ r \ {x} # s
      BY <1>4, <2>2
    <3>2. Adds(H(r), t, r) /\ Adds(H(r \ {x}), t, r \ {x}) /\ IsFiniteSet(r)
      BY <1>3, <1>4, <3>1, FS_Subset
    <3>3. H(r)[r \ {x}] = H(r \ {x})[r \ {x}]
      <4> HIDE DEF H, x
      <4>1. ASSUME NEW h, NEW k, Adds(h, t, r), Adds(k, t, r \ {x}) PROVE h[r \ {x}] = k[r \ {x}]
        BY <3>1, <3>2, <4>1, Agree
      <4> QED
        BY <3>2, <4>1
    <3>4. g[r] = t[x].capital + H(r \ {x})[r \ {x}]
      BY <2>2
    <3>5. H(r)[r] = t[x].capital + H(r)[r \ {x}]
      <4> HIDE DEF H
      <4>1. ASSUME NEW h, Adds(h, t, r) PROVE h[r] = t[x].capital + h[r \ {x}]
        BY <2>2, <4>1 DEF Adds
      <4> QED
        BY <3>2, <4>1
    <3> QED
      BY <3>3, <3>4, <3>5
  <2> QED
    BY <2>1, <2>2
<1>5. ASSUME NEW r \in SUBSET s, r # {}, NEW x \in r
      PROVE  g[r \ {x}] = H(r \ {x})[r \ {x}]
  BY <1>4, <1>5
<1> HIDE DEF H
<1>6. g = [r \in SUBSET s |-> IF r = {} THEN 0
                              ELSE LET x == CHOOSE x \in r : TRUE IN t[x].capital + g[r \ {x}]]
  <2> DEFINE G == g
             old(r) == IF r = {} THEN 0
                       ELSE LET x == CHOOSE x \in r : TRUE IN t[x].capital + H(r \ {x})[r \ {x}]
             new(r) == IF r = {} THEN 0
                       ELSE LET x == CHOOSE x \in r : TRUE IN t[x].capital + G[r \ {x}]
  <2>1. G = [r \in SUBSET s |-> old(r)]
    OBVIOUS
  <2>2. \A r \in SUBSET s : \A x \in r : G[r \ {x}] = H(r \ {x})[r \ {x}]
    BY <1>5
  <2> HIDE DEF G
  <2>3. ASSUME NEW r \in SUBSET s PROVE old(r) = new(r)
    <3>1. CASE r = {}
      BY <3>1
    <3>2. CASE r # {}
      <4> DEFINE x == CHOOSE x \in r : TRUE
      <4>1. x \in r
        BY <3>2
      <4>2. old(r) = t[x].capital + H(r \ {x})[r \ {x}] /\ new(r) = t[x].capital + G[r \ {x}]
        BY <3>2
      <4> QED
        BY <2>2, <4>1, <4>2
    <3> QED
      BY <3>1, <3>2
  <2> HIDE DEF old, new
  <2>4. G = [r \in SUBSET s |-> new(r)]
    BY <2>1, <2>3
  <2> QED
    BY <2>4 DEF new, G
<1>7. Adds(g, t, s)
  BY <1>6 DEF Adds
<1> QED
  BY <1>2, <1>7

LEMMA TotalIs ==
    ASSUME NEW t, NEW S, IsFiniteSet(S)
    PROVE  \E g : Adds(g, t, S) /\ Total(t, S) = g[S]
<1> DEFINE G == CHOOSE g : Adds(g, t, S)
<1>1. Adds(G, t, S)
  BY SomeAdds, Zenon
<1>2. Total(t, S) = G[S]
  BY DEF Total, Adds, Fund!MapThenSumSet, Fund!MapThenFoldSet
<1> QED
  BY <1>1, <1>2

\* Total takes one bot after the other.
LEMMA TotalStep ==
    ASSUME NEW t, NEW S, IsFiniteSet(S)
    PROVE  /\ S = {} => Total(t, S) = 0
           /\ S # {} => \E x \in S : /\ x = CHOOSE y \in S : TRUE
                                     /\ Total(t, S) = t[x].capital + Total(t, S \ {x})
<1>1. PICK g : Adds(g, t, S) /\ Total(t, S) = g[S]
  BY TotalIs
<1>2. CASE S = {}
  BY <1>1, <1>2 DEF Adds
<1>3. CASE S # {}
  <2> DEFINE x == CHOOSE y \in S : TRUE
  <2>1. x \in S /\ S \ {x} \in SUBSET S /\ IsFiniteSet(S \ {x})
    BY <1>3, FS_Subset
  <2>2. g[S] = t[x].capital + g[S \ {x}]
    BY <1>1, <1>3 DEF Adds
  <2> HIDE DEF x
  <2>3. PICK h : Adds(h, t, S \ {x}) /\ Total(t, S \ {x}) = h[S \ {x}]
    BY <2>1, TotalIs
  <2>4. g[S \ {x}] = h[S \ {x}]
    BY <1>1, <2>1, <2>3, Agree
  <2> QED
    BY <1>1, <1>3, <2>1, <2>2, <2>3, <2>4 DEF x
<1> QED
  BY <1>2, <1>3

LEMMA TotalEmpty == ASSUME NEW t PROVE Total(t, {}) = 0
  BY TotalStep, FS_EmptySet

LEMMA TotalNat ==
    ASSUME NEW t, NEW U, Priced(t, U), NEW S \in SUBSET U PROVE Total(t, S) \in Nat
<1> DEFINE F == {s \in SUBSET U : Total(t, s) \notin Nat}
<1>1. SUFFICES ASSUME F # {} PROVE FALSE
  OBVIOUS
<1>2. IsFiniteSet(U) /\ F \subseteq SUBSET U
  BY DEF Priced
<1>3. PICK s \in F : \A r \in SUBSET s : r # s => r \notin F
  <2> HIDE DEF F
  <2> QED
    BY <1>1, <1>2, Smallest
<1>4. IsFiniteSet(s) /\ s # {}
  <2>1. Total(t, {}) \in Nat
    BY TotalEmpty
  <2>2. ASSUME s = {} PROVE FALSE
    BY <1>3, <2>1, <2>2, Zenon
  <2> QED
    BY <1>2, <1>3, <2>2, FS_Subset
<1>5. PICK x \in s : Total(t, s) = t[x].capital + Total(t, s \ {x})
  BY <1>4, TotalStep
<1>6. Total(t, s \ {x}) \in Nat /\ t[x].capital \in Nat
  BY <1>3, <1>5 DEF Priced
<1> QED
  BY <1>3, <1>5, <1>6

\* The order in which the bots are taken does not matter.
LEMMA TotalAdd ==
    ASSUME NEW t, NEW U, Priced(t, U), NEW S \in SUBSET U, NEW b \in U \ S
    PROVE  Total(t, S \cup {b}) = Total(t, S) + t[b].capital
<1> DEFINE F == {s \in SUBSET U :
                   \E c \in U \ s : Total(t, s \cup {c}) # Total(t, s) + t[c].capital}
<1>1. SUFFICES ASSUME F # {} PROVE FALSE
  OBVIOUS
<1>2. IsFiniteSet(U) /\ F \subseteq SUBSET U
  BY DEF Priced
<1>3. PICK s \in F : \A r \in SUBSET s : r # s => r \notin F
  <2> HIDE DEF F
  <2> QED
    BY <1>1, <1>2, Smallest
<1>4. PICK c \in U \ s : Total(t, s \cup {c}) # Total(t, s) + t[c].capital
  BY <1>3
<1> DEFINE v == s \cup {c}
<1>5. IsFiniteSet(v) /\ v # {} /\ s \in SUBSET U /\ v \in SUBSET U
  BY <1>2, <1>3, FS_Subset
<1>6. PICK x \in v : Total(t, v) = t[x].capital + Total(t, v \ {x})
  BY <1>5, TotalStep
<1>7. \A y \in U : t[y].capital \in Nat
  BY DEF Priced
<1>8. \A r \in SUBSET U : Total(t, r) \in Nat
  BY TotalNat
<1>9. CASE x = c
  <2>1. v \ {x} = s /\ Total(t, s) \in Nat /\ t[c].capital \in Nat
    BY <1>4, <1>5, <1>7, <1>8, <1>9
  <2>2. Total(t, v) = t[c].capital + Total(t, s)
    BY <1>6, <1>9, <2>1
  <2> QED
    BY <1>4, <2>1, <2>2
<1>10. CASE x # c
  <2> DEFINE r == s \ {x}
  <2>1. x \in s /\ r \in SUBSET s /\ r # s /\ r \in SUBSET U /\ c \in U \ r /\ x \in U \ r
        /\ v \ {x} = r \cup {c} /\ r \cup {x} = s
    BY <1>4, <1>5, <1>6, <1>10
  <2>2. r \notin F
    BY <1>3, <2>1
  <2> HIDE DEF r
  <2>3. Total(t, r \cup {c}) = Total(t, r) + t[c].capital
        /\ Total(t, r \cup {x}) = Total(t, r) + t[x].capital
    BY <2>1, <2>2
  <2>4. /\ Total(t, r) \in Nat /\ t[c].capital \in Nat /\ t[x].capital \in Nat
    BY <1>7, <1>8, <2>1
  <2>5. Total(t, v) = t[x].capital + (Total(t, r) + t[c].capital)
        /\ Total(t, s) = Total(t, r) + t[x].capital
    BY <1>6, <2>1, <2>3
  <2> QED
    BY <1>4, <2>4, <2>5
<1> QED
  BY <1>9, <1>10

\* Only the capitals of the bots in the set matter.
LEMMA TotalSame ==
    ASSUME NEW t, NEW u, NEW S, Priced(t, S), \A b \in S : u[b].capital = t[b].capital
    PROVE  Total(u, S) = Total(t, S)
<1> DEFINE F == {s \in SUBSET S : Total(u, s) # Total(t, s)}
<1>1. SUFFICES ASSUME F # {} PROVE FALSE
  OBVIOUS
<1>2. IsFiniteSet(S) /\ F \subseteq SUBSET S
  BY DEF Priced
<1>3. PICK s \in F : \A r \in SUBSET s : r # s => r \notin F
  <2> HIDE DEF F
  <2> QED
    BY <1>1, <1>2, Smallest
<1>4. IsFiniteSet(s) /\ s # {}
  <2>1. ASSUME s = {} PROVE FALSE
    BY <1>3, <2>1, TotalEmpty, Zenon
  <2> QED
    BY <1>2, <1>3, <2>1, FS_Subset
<1> DEFINE x == CHOOSE y \in s : TRUE
<1>5. x \in s /\ Total(t, s) = t[x].capital + Total(t, s \ {x})
      /\ Total(u, s) = u[x].capital + Total(u, s \ {x})
  BY <1>4, TotalStep
<1> HIDE DEF x
<1>6. Total(u, s \ {x}) = Total(t, s \ {x}) /\ u[x].capital = t[x].capital
  BY <1>3, <1>5
<1> QED
  BY <1>3, <1>5, <1>6

LEMMA TotalJoin ==
    ASSUME NEW t, NEW U, Priced(t, U), NEW A \in SUBSET U, NEW B \in SUBSET U, A \cap B = {}
    PROVE  Total(t, A \cup B) = Total(t, A) + Total(t, B)
<1> DEFINE F == {s \in SUBSET B : Total(t, A \cup s) # Total(t, A) + Total(t, s)}
<1>1. SUFFICES ASSUME F # {} PROVE FALSE
  OBVIOUS
<1>2. IsFiniteSet(B) /\ F \subseteq SUBSET B
  BY FS_Subset DEF Priced
<1>3. PICK s \in F : \A r \in SUBSET s : r # s => r \notin F
  <2> HIDE DEF F
  <2> QED
    BY <1>1, <1>2, Smallest
<1>4. \A r \in SUBSET U : Total(t, r) \in Nat
  BY TotalNat
<1>5. s # {}
  <2>1. A \cup {} = A /\ Total(t, A) \in Nat
    BY <1>4
  <2>2. Total(t, A) + 0 = Total(t, A)
    BY <2>1
  <2> QED
    BY <1>3, <2>1, <2>2, TotalEmpty, Zenon
<1>6. PICK x \in s : TRUE
  BY <1>5
<1> DEFINE r == s \ {x}
           a == A \cup r
<1>7. /\ r \in SUBSET s /\ r # s /\ r \in SUBSET U /\ a \in SUBSET U
      /\ x \in U \ r /\ x \in U \ a /\ r \cup {x} = s /\ a \cup {x} = A \cup s
  BY <1>3, <1>6
<1>8. Total(t, a) = Total(t, A) + Total(t, r)
  BY <1>3, <1>7
<1> HIDE DEF r, a
<1>9. Total(t, s) = Total(t, r) + t[x].capital /\ Total(t, A \cup s) = Total(t, a) + t[x].capital
  <2>1. \A p \in SUBSET U : \A b \in U \ p : Total(t, p \cup {b}) = Total(t, p) + t[b].capital
    BY TotalAdd
  <2> QED
    BY <1>7, <2>1
<1>10. t[x].capital \in Nat
  BY <1>7 DEF Priced
<1> QED
  BY <1>3, <1>4, <1>7, <1>8, <1>9, <1>10

LEMMA TotalPart ==
    ASSUME NEW t, NEW U, Priced(t, U), NEW A \in SUBSET U PROVE Total(t, A) <= Total(t, U)
<1>1. U \ A \in SUBSET U /\ A \cap (U \ A) = {} /\ A \cup (U \ A) = U /\ U \in SUBSET U
  OBVIOUS
<1>2. Total(t, U) = Total(t, A) + Total(t, U \ A)
  BY <1>1, TotalJoin
<1> QED
  BY <1>1, <1>2, TotalNat

-----------------------------------------------------------------------------
(* The capital that bots take.                                             *)

\* What the code puts into the model: finitely many bots, whose capital is a number.
Sound ==
    /\ IsFiniteSet(Bots)
    /\ \A c \in Configs : c.capital \in Nat
    /\ None \notin Configs /\ None \notin Threads
    /\ Amounts \subseteq Nat /\ MaxRaise \in Nat /\ MaxDown \in Nat

\* What a request asks for together.
Asked(new) == Total(new, DOMAIN new)

LEMMA AllocatedIs == ASSUME NEW table PROVE Fund!Allocated(table) = Total(table, Fund!Listed(table))
  BY DEF Fund!Allocated, Total

LEMMA FitsIs ==
    ASSUME NEW new PROVE Fund!Fits(new) <=> fund # 0 /\ Fund!Allocated(bots) + Asked(new) <= fund
<1>1. Fund!MapThenSumSet(LAMBDA b : new[b].capital, DOMAIN new) = Asked(new)
  BY DEF Asked, Total
<1> QED
  BY <1>1, Zenon DEF Fund!Fits

LEMMA TablePriced ==
    ASSUME Sound, NEW table \in Fund!Tables
    PROVE  Priced(table, Fund!Listed(table)) /\ Fund!Listed(table) \subseteq Bots
  BY FS_Subset DEF Sound, Fund!Tables, Fund!Listed, Priced

LEMMA NewPriced ==
    ASSUME Sound, NEW new \in Fund!NewBots
    PROVE  Priced(new, DOMAIN new) /\ DOMAIN new \subseteq Bots
  BY FS_Subset DEF Sound, Fund!NewBots, Priced

LEMMA AllocatedNat ==
    ASSUME Sound, NEW table \in Fund!Tables PROVE Fund!Allocated(table) \in Nat
  BY TablePriced, AllocatedIs, TotalNat

LEMMA AskedNat ==
    ASSUME Sound, NEW new \in Fund!NewBots PROVE Asked(new) \in Nat
  BY NewPriced, TotalNat DEF Asked

\* A table that lists no more takes no more.
LEMMA FewerTakeLess ==
    ASSUME Sound, NEW table \in Fund!Tables, NEW fewer \in Fund!Tables,
           \A b \in Fund!Listed(fewer) : fewer[b] = table[b]
    PROVE  Fund!Allocated(fewer) <= Fund!Allocated(table)
<1>1. Priced(table, Fund!Listed(table)) /\ Priced(fewer, Fund!Listed(fewer))
  BY TablePriced
<1>2. Fund!Listed(fewer) \in SUBSET Fund!Listed(table)
  BY DEF Fund!Listed
<1>3. Priced(table, Fund!Listed(fewer))
  BY <1>1, <1>2 DEF Priced
<1>4. \A b \in Fund!Listed(fewer) : fewer[b].capital = table[b].capital
  OBVIOUS
<1>5. Total(fewer, Fund!Listed(fewer)) = Total(table, Fund!Listed(fewer))
  BY <1>3, <1>4, TotalSame
<1>6. Total(table, Fund!Listed(fewer)) <= Total(table, Fund!Listed(table))
  BY <1>1, <1>2, TotalPart
<1> QED
  BY <1>5, <1>6, AllocatedIs

\* New bots take what they ask for, and less when they replace bots.
LEMMA WithTakes ==
    ASSUME Sound, bots \in Fund!Tables, NEW new \in Fund!NewBots
    PROVE  /\ Fund!With(new) \in Fund!Tables
           /\ Fund!Allocated(Fund!With(new)) <= Fund!Allocated(bots) + Asked(new)
<1> DEFINE W == Fund!With(new)
           D == DOMAIN new
           K == Fund!Listed(bots) \ D
<1>1. W \in Fund!Tables
  BY DEF Fund!With, Fund!Tables, Fund!NewBots
<1>2. /\ Priced(bots, Fund!Listed(bots)) /\ Priced(W, Fund!Listed(W))
      /\ Priced(new, D) /\ D \subseteq Bots
  BY <1>1, TablePriced, NewPriced
<1>3. /\ \A b \in D : W[b] = new[b] /\ W[b] \in Configs
      /\ \A b \in K : W[b] = bots[b]
      /\ \A b \in Bots \ D : W[b] = bots[b]
  BY <1>2 DEF Fund!With, Fund!NewBots, Fund!Listed
<1>4. Fund!Listed(W) = K \cup D /\ K \cap D = {} /\ K \in SUBSET Fund!Listed(bots)
  BY <1>2, <1>3 DEF Fund!Listed, Sound
<1> HIDE DEF W, D, K
<1>5. Total(W, Fund!Listed(W)) = Total(W, K) + Total(W, D)
  BY <1>2, <1>4, TotalJoin
<1>6. Total(W, D) = Total(new, D)
  BY <1>2, <1>3, TotalSame
<1>7. Total(W, K) = Total(bots, K)
  <2>1. Priced(bots, K)
    BY <1>2, <1>4, FS_Subset DEF Priced
  <2> QED
    BY <1>3, <2>1, TotalSame
<1>8. Total(bots, K) <= Total(bots, Fund!Listed(bots))
  BY <1>2, <1>4, TotalPart
<1>9. /\ Total(bots, K) \in Nat /\ Total(new, D) \in Nat /\ Total(bots, Fund!Listed(bots)) \in Nat
  BY <1>2, <1>4, TotalNat
<1>10. Total(W, Fund!Listed(W)) <= Total(bots, Fund!Listed(bots)) + Total(new, D)
  BY <1>5, <1>6, <1>7, <1>8, <1>9
<1> QED
  BY <1>1, <1>10, AllocatedIs DEF Asked, W, D

-----------------------------------------------------------------------------
(* Types.                                                                  *)

\* A step moves one request.
LEMMA Moved ==
    ASSUME Fund!TypeOK, NEW t \in Threads
    PROVE  /\ req[t] \in Fund!Requests
           /\ \A at \in {"idle", "lock", "check", "insert", "commit", "assign", "replace", "save"} :
                 Fund!Goes(t, at) => /\ req' \in [Threads -> Fund!Requests]
                                     /\ req'[t] = [req[t] EXCEPT !.at = at]
                                     /\ \A u \in Threads : u # t => req'[u] = req[u]
           /\ Fund!Ends(t) => /\ req' \in [Threads -> Fund!Requests] /\ req'[t] = Fund!Idle
                              /\ \A u \in Threads : u # t => req'[u] = req[u]
<1>1. req \in [Threads -> Fund!Requests] /\ req[t] \in Fund!Requests
  BY DEF Fund!TypeOK
<1>2. Fund!Idle \in Fund!Requests
  <2>1. <<>> \in Fund!NewBots
    <3>1. {} \in SUBSET Bots /\ <<>> \in [{} -> Configs]
      OBVIOUS
    <3> QED
      BY <3>1 DEF Fund!NewBots
  <2> QED
    BY <2>1 DEF Fund!Idle, Fund!Requests
<1>3. \A at \in {"idle", "lock", "check", "insert", "commit", "assign", "replace", "save"} :
         [req[t] EXCEPT !.at = at] \in Fund!Requests
  BY <1>1 DEF Fund!Requests
<1> QED
  BY <1>1, <1>2, <1>3 DEF Fund!Goes, Fund!Ends

LEMMA NewRequest ==
    ASSUME Fund!TypeOK, NEW t \in Threads, NEW r \in Fund!Requests, req' = [req EXCEPT ![t] = r]
    PROVE  /\ req' \in [Threads -> Fund!Requests] /\ req'[t] = r
           /\ \A u \in Threads : u # t => req'[u] = req[u]
  BY DEF Fund!TypeOK

\* How each step moves its request.
Moves(t) ==
    /\ req' \in [Threads -> Fund!Requests]
    /\ \A u \in Threads : u # t => req'[u] = req[u]

LEMMA AskMoves ==
    ASSUME Sound, Fund!TypeOK, NEW t \in Threads, Fund!BeginAdd(t) \/ Fund!BeginSpawn(t)
    PROVE  Moves(t) /\ req'[t].at = "lock" /\ req'[t].op \in {"add", "spawn"}
<1>1. ASSUME NEW op \in {"add", "spawn"}, NEW n, Fund!Asks(t, op, n)
      PROVE  Moves(t) /\ req'[t].at = "lock" /\ req'[t].op \in {"add", "spawn"}
  <2>1. PICK ids \in SUBSET Fund!Unused : \E new \in [ids -> Configs] :
          req' = [req EXCEPT ![t] = [Fund!Idle EXCEPT !.at = "lock", !.op = op, !.new = new]]
    BY <1>1 DEF Fund!Asks
  <2>2. PICK new \in [ids -> Configs] :
          req' = [req EXCEPT ![t] = [Fund!Idle EXCEPT !.at = "lock", !.op = op, !.new = new]]
    BY <2>1
  <2>3. new \in Fund!NewBots
    <3>1. ids \in SUBSET Bots
      BY DEF Fund!Unused
    <3> QED
      BY <3>1 DEF Fund!NewBots
  <2> DEFINE r == [Fund!Idle EXCEPT !.at = "lock", !.op = op, !.new = new]
  <2>4. r \in Fund!Requests /\ r.at = "lock" /\ r.op = op
    BY <2>3 DEF Fund!Idle, Fund!Requests
  <2> HIDE DEF r
  <2>5. req' = [req EXCEPT ![t] = r]
    BY <2>2 DEF r
  <2> QED
    BY <2>4, <2>5, NewRequest DEF Moves
<1>2. \E op \in {"add", "spawn"}, n \in Nat : Fund!Asks(t, op, n)
  BY DEF Fund!BeginAdd, Fund!BeginSpawn
<1> QED
  BY <1>1, <1>2

LEMMA StepMoves ==
    ASSUME Sound, Fund!TypeOK, NEW t \in Threads
    PROVE  /\ Fund!Take(t) => Moves(t) /\ req'[t] = [req[t] EXCEPT !.at = "check"]
           /\ Fund!Admit(t) => Moves(t) /\ req'[t] = [req[t] EXCEPT !.at = "insert"]
           /\ Fund!Insert(t) => Moves(t) /\ req'[t] = [req[t] EXCEPT !.at = "commit"]
           /\ Fund!FundAssign(t) \/ Fund!EditReplace(t) =>
                 Moves(t) /\ req'[t] = [req[t] EXCEPT !.at = "save"]
           /\ Fund!Refuse(t) \/ Fund!Commit(t) \/ Fund!RollBack(t) \/ Fund!Save(t) =>
                 Moves(t) /\ req'[t] = Fund!Idle
  BY Moved DEF Moves, Fund!Take, Fund!Admit, Fund!Insert, Fund!FundAssign, Fund!EditReplace,
     Fund!Refuse, Fund!Commit, Fund!RollBack, Fund!Save

LEMMA OtherMoves ==
    ASSUME Sound, Fund!TypeOK, NEW t \in Threads
    PROVE  /\ Fund!Delete(t) => Moves(t) /\ req'[t] = [req[t] EXCEPT !.op = "delete", !.at = "save"]
           /\ Fund!FundCheck(t) =>
                 /\ Moves(t) /\ req'[t].op = "fund" /\ req'[t].at = "assign"
                 /\ req'[t].amount >= Fund!Allocated(bots)
           /\ Fund!EditRead(t) => Moves(t) /\ req'[t].op = "edit" /\ req'[t].at = "replace"
<1>1. req[t] \in Fund!Requests /\ req \in [Threads -> Fund!Requests]
  BY DEF Fund!TypeOK
<1>2. ASSUME Fund!Delete(t)
      PROVE  Moves(t) /\ req'[t] = [req[t] EXCEPT !.op = "delete", !.at = "save"]
  <2> DEFINE r == [req[t] EXCEPT !.op = "delete", !.at = "save"]
  <2>1. r \in Fund!Requests
    BY <1>1 DEF Fund!Requests
  <2>2. req' = [req EXCEPT ![t] = r]
    BY <1>1, <1>2 DEF Fund!Delete
  <2> QED
    BY <2>1, <2>2, NewRequest DEF Moves
<1>3. ASSUME Fund!FundCheck(t)
      PROVE  /\ Moves(t) /\ req'[t].op = "fund" /\ req'[t].at = "assign"
             /\ req'[t].amount >= Fund!Allocated(bots)
  <2>1. PICK amount \in Amounts :
          /\ amount >= Fund!Allocated(bots)
          /\ req' = [req EXCEPT ![t].op = "fund", ![t].at = "assign", ![t].amount = amount]
    BY <1>3 DEF Fund!FundCheck
  <2> DEFINE r == [req[t] EXCEPT !.op = "fund", !.at = "assign", !.amount = amount]
  <2>2. r \in Fund!Requests /\ r.op = "fund" /\ r.at = "assign" /\ r.amount = amount
    BY <1>1 DEF Fund!Requests, Sound
  <2>3. req' = [req EXCEPT ![t] = r]
    BY <1>1, <2>1
  <2> HIDE DEF r
  <2> QED
    BY <2>1, <2>2, <2>3, NewRequest DEF Moves
<1>4. ASSUME Fund!EditRead(t) PROVE Moves(t) /\ req'[t].op = "edit" /\ req'[t].at = "replace"
  <2>1. PICK b \in Fund!Listed(bots), c \in Configs :
          req' = [req EXCEPT ![t].op = "edit", ![t].at = "replace", ![t].new = [x \in {b} |-> c]]
    BY <1>4 DEF Fund!EditRead
  <2> DEFINE new == [x \in {b} |-> c]
             r == [req[t] EXCEPT !.op = "edit", !.at = "replace", !.new = new]
  <2>2. new \in Fund!NewBots
    <3>1. {b} \in SUBSET Bots /\ new \in [{b} -> Configs]
      BY DEF Fund!Listed
    <3> HIDE DEF new
    <3> QED
      BY <3>1 DEF Fund!NewBots
  <2>3. req' = [req EXCEPT ![t] = r]
    BY <1>1, <2>1
  <2> HIDE DEF new
  <2>4. r \in Fund!Requests /\ r.op = "edit" /\ r.at = "replace"
    BY <1>1, <2>2 DEF Fund!Requests
  <2> HIDE DEF r
  <2> QED
    BY <2>3, <2>4, NewRequest DEF Moves
<1> QED
  BY <1>2, <1>3, <1>4

\* A table after a step.
LEMMA TableKept ==
    ASSUME Sound, Fund!TypeOK
    PROVE  /\ \A new \in Fund!NewBots :
                 Fund!With(new) \in Fund!Tables /\ Fund!Without(new) \in Fund!Tables
           /\ \A b \in Bots : [bots EXCEPT ![b] = None] \in Fund!Tables
  BY DEF Fund!TypeOK, Fund!With, Fund!Without, Fund!Tables, Fund!NewBots

LEMMA FundTypeStep ==
    ASSUME Sound, Fund!TypeOK, NEW t \in Threads, Fund!Runs(t) PROVE Fund!TypeOK'
<1>1. req[t] \in Fund!Requests /\ req[t].new \in Fund!NewBots /\ req[t].amount \in Nat
  BY DEF Fund!TypeOK, Fund!Requests
<1>2. req' \in [Threads -> Fund!Requests]
  BY AskMoves, StepMoves, OtherMoves DEF Fund!Runs, Moves
<1>3. bots' \in Fund!Tables
  <2>1. CASE bots' = bots
    BY <2>1 DEF Fund!TypeOK
  <2>2. CASE \E b \in Fund!Listed(bots) : bots' = [bots EXCEPT ![b] = None]
    BY <2>2, TableKept DEF Fund!Listed
  <2>3. CASE bots' = Fund!With(req[t].new) \/ bots' = Fund!Without(req[t].new)
    BY <1>1, <2>3, TableKept
  <2> QED
    BY <2>1, <2>2, <2>3 DEF Fund!Runs, Fund!BeginAdd, Fund!BeginSpawn, Fund!Asks, Fund!Take,
       Fund!Admit, Fund!Refuse, Fund!Insert, Fund!Commit, Fund!RollBack, Fund!Delete,
       Fund!FundCheck, Fund!FundAssign, Fund!EditRead, Fund!EditReplace, Fund!Save
<1>4. fund' \in Nat
  BY <1>1 DEF Fund!TypeOK, Fund!Runs, Fund!BeginAdd, Fund!BeginSpawn, Fund!Asks, Fund!Take,
     Fund!Admit, Fund!Refuse, Fund!Insert, Fund!Commit, Fund!RollBack, Fund!Delete,
     Fund!FundCheck, Fund!FundAssign, Fund!EditRead, Fund!EditReplace, Fund!Save
<1>5. disk' \in [fund: Nat, bots: Fund!Tables]
  <2>1. disk' = disk \/ disk' = [fund |-> fund, bots |-> bots]
    BY DEF Fund!Runs, Fund!BeginAdd, Fund!BeginSpawn, Fund!Asks, Fund!Take, Fund!Admit,
       Fund!Refuse, Fund!Insert, Fund!Commit, Fund!RollBack, Fund!Delete, Fund!FundCheck,
       Fund!FundAssign, Fund!EditRead, Fund!EditReplace, Fund!Save
  <2> QED
    BY <2>1 DEF Fund!TypeOK
<1>6. {addLock', saveLock'} \subseteq Threads \cup {None}
  <2>1. addLock' \in {addLock, t, None} /\ saveLock' \in {saveLock, t, None}
    BY DEF Fund!Runs, Fund!BeginAdd, Fund!BeginSpawn, Fund!Asks, Fund!Take, Fund!Admit,
       Fund!Refuse, Fund!Insert, Fund!Commit, Fund!Free, Fund!RollBack, Fund!Delete,
       Fund!FundCheck, Fund!FundAssign, Fund!EditRead, Fund!EditReplace, Fund!Save
  <2>2. {addLock, saveLock} \subseteq Threads \cup {None}
    BY DEF Fund!TypeOK
  <2> QED
    BY <2>1, <2>2
<1>7. spawned' \subseteq Bots /\ downs' \in 0 .. MaxDown
  <2>1. DOMAIN req[t].new \subseteq Bots
    BY <1>1 DEF Fund!NewBots
  <2> QED
    BY <2>1 DEF Fund!TypeOK, Fund!Runs, Fund!BeginAdd, Fund!BeginSpawn, Fund!Asks, Fund!Take,
       Fund!Admit, Fund!Refuse, Fund!Insert, Fund!Commit, Fund!Free, Fund!RollBack,
       Fund!Delete, Fund!FundCheck, Fund!FundAssign, Fund!EditRead, Fund!EditReplace, Fund!Save
<1>8. raised' \in 0 .. MaxRaise
  <2>1. CASE Fund!EditReplace(t)
    <3>1. Fund!Allocated(bots') \in Nat /\ Fund!Allocated(bots) \in Nat
      BY <1>3, AllocatedNat DEF Fund!TypeOK
    <3>2. Fund!More(Fund!Allocated(bots'), Fund!Allocated(bots)) \in Nat
      BY <3>1 DEF Fund!More
    <3> QED
      BY <2>1, <3>2 DEF Fund!EditReplace, Fund!TypeOK, Sound
  <2>2. CASE ~Fund!EditReplace(t)
    BY <2>2 DEF Fund!TypeOK, Fund!Runs, Fund!BeginAdd, Fund!BeginSpawn, Fund!Asks, Fund!Take,
       Fund!Admit, Fund!Refuse, Fund!Insert, Fund!Commit, Fund!Free, Fund!RollBack,
       Fund!Delete, Fund!FundCheck, Fund!FundAssign, Fund!EditRead, Fund!Save
  <2> QED
    BY <2>1, <2>2
<1> QED
  BY <1>2, <1>3, <1>4, <1>5, <1>6, <1>7, <1>8 DEF Fund!TypeOK

LEMMA TypeInit == ASSUME Sound, Fund!Init PROVE Fund!TypeOK
<1>1. Fund!Idle \in Fund!Requests
  <2>1. {} \in SUBSET Bots /\ <<>> \in [{} -> Configs]
    OBVIOUS
  <2>2. <<>> \in Fund!NewBots
    BY <2>1 DEF Fund!NewBots
  <2> QED
    BY <2>2 DEF Fund!Idle, Fund!Requests
<1>2. [b \in Bots |-> None] \in Fund!Tables
  BY DEF Fund!Tables
<1> QED
  BY <1>1, <1>2 DEF Sound, Fund!Init, Fund!TypeOK

LEMMA TypeKept ==
    ASSUME Sound, Fund!TypeOK, [Fund!Next]_(Fund!vars) PROVE Fund!TypeOK'
<1>1. CASE Fund!Restart
  <2>1. Fund!Idle \in Fund!Requests
    <3>1. {} \in SUBSET Bots /\ <<>> \in [{} -> Configs]
      OBVIOUS
    <3>2. <<>> \in Fund!NewBots
      BY <3>1 DEF Fund!NewBots
    <3> QED
      BY <3>2 DEF Fund!Idle, Fund!Requests
  <2> QED
    BY <1>1, <2>1 DEF Sound, Fund!Restart, Fund!TypeOK
<1>2. CASE UNCHANGED Fund!vars
  BY <1>2 DEF Fund!vars, Fund!TypeOK
<1> QED
  BY <1>1, <1>2, FundTypeStep DEF Fund!Next

\* Every reachable state of the fund is well typed.
THEOREM FundTypeCorrect == ASSUME Sound PROVE Fund!Spec => []Fund!TypeOK
<1>1. Fund!Init => Fund!TypeOK
  BY TypeInit
<1>2. Fund!TypeOK /\ [Fund!Next]_(Fund!vars) => Fund!TypeOK'
  BY TypeKept
<1> QED
  BY <1>1, <1>2, PTL DEF Fund!Spec

-----------------------------------------------------------------------------
(* The fund is not overdrawn.                                              *)

Holds(t) == req[t].at \in {"check", "insert", "commit"}

\* An add holds _add_lock from its check to its save; a change of the fund and an add
\* are not under way together, unless they may overlap.
Locked ==
    /\ \A t \in Threads : Holds(t) => addLock = t
    /\ \A t \in Threads :
          /\ Holds(t) \/ req[t].at = "lock" => req[t].op \in {"add", "spawn"}
          /\ req[t].at = "assign" => req[t].op = "fund"
    /\ ~Overlap => \A t, u \in Threads : req[t].op = "fund" => ~Holds(u)

\* What was checked still fits: the new bots of an add that will insert them, and the
\* bots there are under the amount the fund will be set to.
StillFits ==
    \A t \in Threads :
        /\ req[t].at = "insert" => Fund!Allocated(bots) + Asked(req[t].new) <= fund + raised
        /\ req[t].at = "assign" => Fund!Allocated(bots) <= req[t].amount + raised

FundInv == Fund!TypeOK /\ Locked /\ StillFits /\ Fund!WithinFund

LEMMA LockedKept ==
    ASSUME Sound, Fund!TypeOK, Locked, NEW t \in Threads, Moves(t),
           Holds(t)' =>
              /\ addLock' = t
              /\ Holds(t) \/ (addLock = None /\ (Overlap \/ \A u \in Threads : req[u].op # "fund")),
           \A u \in Threads : u # t /\ addLock = u => addLock' = u,
           Holds(t)' \/ req'[t].at = "lock" => req'[t].op \in {"add", "spawn"},
           req'[t].at = "assign" => req'[t].op = "fund",
           ~Overlap /\ req'[t].op = "fund" => req[t].op = "fund" \/ addLock = None
    PROVE  Locked'
<1>1. \A u \in Threads : u # t => req'[u] = req[u] /\ Holds(u)' = Holds(u)
  BY DEF Moves, Holds
<1>2. \A u \in Threads : Holds(u)' => addLock' = u
  BY <1>1 DEF Locked
<1>3. ASSUME ~Overlap, NEW v \in Threads, NEW u \in Threads, req'[v].op = "fund", Holds(u)'
      PROVE  FALSE
  <2>1. CASE v = t /\ u # t
    BY <1>1, <1>3, <2>1 DEF Locked, Sound
  <2>2. CASE v # t /\ u # t
    BY <1>1, <1>3, <2>2 DEF Locked
  <2>3. CASE v # t /\ u = t
    BY <1>1, <1>3, <2>3 DEF Locked
  <2>4. CASE v = t /\ u = t
    BY <1>3, <2>4
  <2> QED
    BY <2>1, <2>2, <2>3, <2>4
<1> QED
  BY <1>1, <1>2, <1>3 DEF Locked

\* A step that leaves the fund alone and adds no more than edits account for.
LEMMA RoomKept ==
    ASSUME Sound, FundInv, Fund!TypeOK', NEW t \in Threads, Moves(t),
           fund' = fund, raised <= raised',
           Fund!Allocated(bots') + raised <= Fund!Allocated(bots) + raised',
           disk' = disk \/ (disk' = [fund |-> fund, bots |-> bots] /\ bots' = bots)
                        \/ (disk' = [fund |-> fund', bots |-> bots']),
           req'[t].at = "insert" => Fund!Allocated(bots') + Asked(req'[t].new) <= fund + raised',
           req'[t].at = "assign" => Fund!Allocated(bots') <= req'[t].amount + raised'
    PROVE  StillFits' /\ Fund!WithinFund'
<1>1. /\ fund \in Nat /\ raised \in Nat /\ raised' \in Nat /\ disk.fund \in Nat
      /\ bots \in Fund!Tables /\ bots' \in Fund!Tables
      /\ disk.bots \in Fund!Tables /\ disk'.fund \in Nat
  BY DEF FundInv, Fund!TypeOK, Sound
<1>2. /\ Fund!Allocated(bots) \in Nat /\ Fund!Allocated(bots') \in Nat
      /\ Fund!Allocated(disk.bots) \in Nat
  BY <1>1, AllocatedNat
<1>3. Fund!Allocated(bots') <= fund' + raised'
  BY <1>1, <1>2 DEF FundInv, Fund!WithinFund
<1>4. Fund!Allocated(disk'.bots) <= disk'.fund + raised'
  <2>1. CASE disk' = disk
    BY <1>1, <1>2, <2>1 DEF FundInv, Fund!WithinFund
  <2>2. CASE disk'.bots = bots' /\ disk'.fund = fund'
    BY <1>3, <2>2
  <2> QED
    BY <2>1, <2>2
<1>5. ASSUME NEW u \in Threads
      PROVE  /\ req'[u].at = "insert" => Fund!Allocated(bots') + Asked(req'[u].new) <= fund' + raised'
             /\ req'[u].at = "assign" => Fund!Allocated(bots') <= req'[u].amount + raised'
  <2>1. CASE u = t
    BY <2>1
  <2>2. CASE u # t
    <3>1. req'[u] = req[u] /\ req[u].amount \in Nat /\ req[u].new \in Fund!NewBots
      BY <2>2 DEF Moves, FundInv, Fund!TypeOK, Fund!Requests
    <3>2. Asked(req[u].new) \in Nat
      BY <3>1, AskedNat
    <3> QED
      BY <1>1, <1>2, <3>1, <3>2 DEF FundInv, StillFits
  <2> QED
    BY <2>1, <2>2
<1> QED
  BY <1>3, <1>4, <1>5 DEF StillFits, Fund!WithinFund

LEMMA LockedStep ==
    ASSUME Sound, Fund!TypeOK, Locked, NEW t \in Threads, Fund!Runs(t) PROVE Locked'
<1>1. req[t] \in Fund!Requests /\ t # None /\ req'[t].at # "none"
       /\ Fund!Idle.at = "idle" /\ Fund!Idle.op = "none"
  <2>1. Moves(t)
    BY AskMoves, StepMoves, OtherMoves DEF Fund!Runs
  <2> QED
    BY <2>1 DEF Fund!TypeOK, Sound, Fund!Idle, Moves, Fund!Requests
<1>2. CASE Fund!BeginAdd(t) \/ Fund!BeginSpawn(t)
  <2>1. Moves(t) /\ req'[t].at = "lock" /\ req'[t].op \in {"add", "spawn"} /\ addLock' = addLock
    BY <1>2, AskMoves DEF Fund!BeginAdd, Fund!BeginSpawn, Fund!Asks
  <2> QED
    BY <2>1, LockedKept DEF Holds
<1>3. CASE Fund!Take(t)
  <2>1. /\ Moves(t) /\ req'[t].at = "check" /\ req'[t].op = req[t].op /\ req[t].at = "lock"
        /\ addLock = None /\ addLock' = t /\ (~Overlap => \A u \in Threads : req[u].op # "fund")
    BY <1>1, <1>3, StepMoves DEF Fund!Take, Fund!Requests
  <2>2. req[t].op \in {"add", "spawn"}
    BY <2>1 DEF Locked
  <2> QED
    BY <1>1, <2>1, <2>2, LockedKept DEF Holds, Sound
<1>4. CASE Fund!Admit(t) \/ Fund!Insert(t)
  <2>1. /\ Moves(t) /\ req'[t].at \in {"insert", "commit"} /\ req'[t].op = req[t].op
        /\ Holds(t) /\ addLock' = addLock
    BY <1>1, <1>4, StepMoves DEF Fund!Admit, Fund!Insert, Fund!Requests, Holds
  <2>2. req[t].op \in {"add", "spawn"} /\ addLock = t
    BY <2>1 DEF Locked
  <2> QED
    BY <2>1, <2>2, LockedKept DEF Holds
<1>5. CASE Fund!Refuse(t) \/ Fund!Commit(t) \/ Fund!RollBack(t) \/ Fund!Save(t)
  <2>1. Moves(t) /\ req'[t].at = "idle" /\ req'[t].op = "none"
    BY <1>1, <1>5, StepMoves
  <2>2. \A u \in Threads : u # t /\ addLock = u => addLock' = u
    BY <1>5 DEF Fund!Refuse, Fund!Commit, Fund!RollBack, Fund!Save, Fund!Free
  <2> QED
    BY <2>1, <2>2, LockedKept DEF Holds
<1>6. CASE Fund!Delete(t) \/ Fund!FundCheck(t) \/ Fund!EditRead(t)
  <2>1. /\ Moves(t) /\ addLock' = addLock
        /\ \/ req'[t].at = "save" /\ req'[t].op = "delete"
           \/ req'[t].at = "assign" /\ req'[t].op = "fund" /\ (~Overlap => addLock = None)
           \/ req'[t].at = "replace" /\ req'[t].op = "edit"
    BY <1>1, <1>6, OtherMoves DEF Fund!Delete, Fund!FundCheck, Fund!EditRead, Fund!Requests
  <2> QED
    BY <2>1, LockedKept DEF Holds
<1>7. CASE Fund!FundAssign(t) \/ Fund!EditReplace(t)
  <2>1. Moves(t) /\ req'[t].at = "save" /\ req'[t].op = req[t].op /\ addLock' = addLock
    BY <1>1, <1>7, StepMoves DEF Fund!FundAssign, Fund!EditReplace, Fund!Requests
  <2> QED
    BY <2>1, LockedKept DEF Holds
<1> QED
  BY <1>2, <1>3, <1>4, <1>5, <1>6, <1>7 DEF Fund!Runs

LEMMA RoomStep ==
    ASSUME Sound, ~Overlap, FundInv, Fund!TypeOK', NEW t \in Threads, Fund!Runs(t)
    PROVE  StillFits' /\ Fund!WithinFund'
<1>1. /\ req[t] \in Fund!Requests /\ req[t].new \in Fund!NewBots /\ req[t].amount \in Nat
      /\ bots \in Fund!Tables /\ bots' \in Fund!Tables
      /\ fund \in Nat /\ raised \in Nat /\ raised' \in Nat
      /\ Fund!Idle.at = "idle"
  BY DEF FundInv, Fund!TypeOK, Fund!Requests, Fund!Idle
<1>2. Fund!Allocated(bots) \in Nat /\ Fund!Allocated(bots') \in Nat /\ Asked(req[t].new) \in Nat
  BY <1>1, AllocatedNat, AskedNat
<1>3. CASE \/ Fund!BeginAdd(t) \/ Fund!BeginSpawn(t) \/ Fund!Take(t) \/ Fund!Refuse(t) \/ Fund!Commit(t)
           \/ Fund!EditRead(t) \/ Fund!Save(t)
  <2>1. /\ Moves(t) /\ req'[t].at \notin {"insert", "assign"}
    BY <1>1, <1>3, AskMoves, StepMoves, OtherMoves DEF FundInv, Fund!Requests
  <2>2. /\ fund' = fund /\ bots' = bots /\ raised' = raised
        /\ disk' = disk \/ disk' = [fund |-> fund', bots |-> bots']
    BY <1>3 DEF Fund!BeginAdd, Fund!BeginSpawn, Fund!Asks, Fund!Take, Fund!Refuse,
       Fund!Commit, Fund!EditRead, Fund!Save
  <2> QED
    BY <1>1, <1>2, <2>1, <2>2, RoomKept
<1>4. CASE Fund!Admit(t)
  <2>1. /\ Moves(t) /\ req'[t].at = "insert" /\ req'[t].new = req[t].new
        /\ fund' = fund /\ bots' = bots /\ raised' = raised /\ disk' = disk
    BY <1>1, <1>4, StepMoves DEF FundInv, Fund!Admit, Fund!Requests
  <2>2. Fund!Allocated(bots) + Asked(req[t].new) <= fund
    BY <1>4, FitsIs DEF Fund!Admit
  <2> QED
    BY <1>1, <1>2, <2>1, <2>2, RoomKept
<1>5. CASE Fund!FundCheck(t)
  <2>1. /\ Moves(t) /\ req'[t].at = "assign" /\ req'[t].amount >= Fund!Allocated(bots)
        /\ fund' = fund /\ bots' = bots /\ raised' = raised /\ disk' = disk
    BY <1>5, OtherMoves DEF FundInv, Fund!FundCheck
  <2>2. req'[t].amount \in Nat
    BY <2>1 DEF Moves, Fund!Requests
  <2> QED
    BY <1>1, <1>2, <2>1, <2>2, RoomKept
<1>6. CASE Fund!Delete(t) \/ Fund!RollBack(t)
  <2>1. /\ Moves(t) /\ req'[t].at \in {"save", "idle"}
        /\ fund' = fund /\ raised' = raised /\ disk' = disk
    BY <1>1, <1>6, StepMoves, OtherMoves DEF FundInv, Fund!Delete, Fund!RollBack, Fund!Requests
  <2>2. \A b \in Fund!Listed(bots') : bots'[b] = bots[b]
    BY <1>1, <1>6 DEF Fund!Delete, Fund!RollBack, Fund!Without, Fund!Listed, Fund!Tables
  <2>3. Fund!Allocated(bots') <= Fund!Allocated(bots)
    BY <1>1, <2>2, FewerTakeLess
  <2> QED
    BY <1>1, <1>2, <2>1, <2>3, RoomKept
<1>7. CASE Fund!EditReplace(t)
  <2>1. /\ Moves(t) /\ req'[t].at = "save"
        /\ fund' = fund /\ disk' = disk
        /\ raised' = raised + Fund!More(Fund!Allocated(bots'), Fund!Allocated(bots))
    BY <1>1, <1>7, StepMoves DEF FundInv, Fund!EditReplace, Fund!Requests
  <2>2. raised <= raised' /\ Fund!Allocated(bots') + raised <= Fund!Allocated(bots) + raised'
    BY <1>1, <1>2, <2>1 DEF Fund!More
  <2> QED
    BY <1>1, <1>2, <2>1, <2>2, RoomKept
<1>8. CASE Fund!Insert(t)
  <2>1. /\ Moves(t) /\ req'[t].at = "commit" /\ req[t].at = "insert"
        /\ fund' = fund /\ raised' = raised /\ disk' = disk /\ bots' = Fund!With(req[t].new)
    BY <1>1, <1>8, StepMoves DEF FundInv, Fund!Insert, Fund!Requests
  <2>2. Fund!Allocated(bots') <= fund + raised
    <3>1. Fund!Allocated(bots') <= Fund!Allocated(bots) + Asked(req[t].new)
      BY <1>1, <2>1, WithTakes
    <3>2. Fund!Allocated(bots) + Asked(req[t].new) <= fund + raised
      BY <2>1 DEF FundInv, StillFits
    <3> QED
      BY <1>1, <1>2, <3>1, <3>2
  <2>3. ASSUME NEW u \in Threads PROVE req'[u].at \notin {"insert", "assign"}
    <3>1. CASE u = t
      BY <2>1, <3>1
    <3>2. CASE u # t
      BY <2>1, <3>2 DEF Moves, FundInv, Locked, Holds
    <3> QED
      BY <3>1, <3>2
  <2> QED
    BY <2>1, <2>2, <2>3 DEF FundInv, StillFits, Fund!WithinFund
<1>9. CASE Fund!FundAssign(t)
  <2>1. /\ Moves(t) /\ req'[t].at = "save" /\ req[t].at = "assign"
        /\ fund' = req[t].amount /\ raised' = raised /\ disk' = disk /\ bots' = bots
    BY <1>1, <1>9, StepMoves DEF FundInv, Fund!FundAssign, Fund!Requests
  <2>2. Fund!Allocated(bots') <= fund' + raised'
    BY <2>1 DEF FundInv, StillFits
  <2>3. ASSUME NEW u \in Threads
        PROVE  /\ req'[u].at # "insert"
               /\ req'[u].at = "assign" => Fund!Allocated(bots') <= req'[u].amount + raised'
    <3>1. CASE u = t
      BY <2>1, <3>1
    <3>2. CASE u # t
      <4>1. req'[u] = req[u] /\ req[t].op = "fund" /\ ~Holds(u)
        BY <2>1, <3>2 DEF Moves, FundInv, Locked
      <4> QED
        BY <2>1, <4>1 DEF FundInv, StillFits, Holds
    <3> QED
      BY <3>1, <3>2
  <2> QED
    BY <2>1, <2>2, <2>3 DEF FundInv, StillFits, Fund!WithinFund
<1> QED
  BY <1>3, <1>4, <1>5, <1>6, <1>7, <1>8, <1>9 DEF Fund!Runs

LEMMA FundInit == ASSUME Sound, Fund!Init PROVE FundInv
<1>1. Fund!TypeOK
  BY TypeInit
<1>2. Fund!Listed(bots) = {} /\ disk.bots = bots /\ disk.fund = fund
  BY DEF Fund!Init, Fund!Listed
<1>3. Fund!Allocated(bots) = 0
  BY <1>2, AllocatedIs, TotalEmpty, Zenon
<1> QED
  BY <1>1, <1>2, <1>3 DEF Fund!Init, Fund!Idle, Sound, Fund!TypeOK, FundInv, Locked, Holds,
     StillFits, Fund!WithinFund

LEMMA FundKept == ASSUME Sound, ~Overlap, FundInv, [Fund!Next]_(Fund!vars) PROVE FundInv'
<1>1. Fund!TypeOK'
  BY TypeKept DEF FundInv
<1>2. ASSUME NEW t \in Threads, Fund!Runs(t) PROVE FundInv'
  BY <1>1, <1>2, LockedStep, RoomStep DEF FundInv
<1>3. CASE Fund!Restart
  <2>1. \A t \in Threads : req'[t] = Fund!Idle
    BY <1>3 DEF Fund!Restart
  <2>2. bots' = disk.bots /\ fund' = disk.fund /\ disk' = disk /\ raised' = raised
    BY <1>3 DEF Fund!Restart
  <2> QED
    BY <1>1, <2>1, <2>2 DEF FundInv, Fund!Idle, Locked, Holds, StillFits, Fund!WithinFund
<1>4. CASE UNCHANGED Fund!vars
  BY <1>1, <1>4 DEF Fund!vars, FundInv, Locked, Holds, StillFits, Fund!WithinFund
<1> QED
  BY <1>2, <1>3, <1>4 DEF Fund!Next

\* The bots never take more than the fund by more than edits added, in memory and in
\* bots.json, for any number of threads, bots and restarts.
THEOREM FundHolds == ASSUME Sound, ~Overlap PROVE Fund!Spec => []Fund!WithinFund
<1>1. Fund!Init => FundInv
  BY FundInit
<1>2. FundInv /\ [Fund!Next]_(Fund!vars) => FundInv'
  BY FundKept
<1>3. FundInv => Fund!WithinFund
  BY DEF FundInv
<1> QED
  BY <1>1, <1>2, <1>3, PTL DEF Fund!Spec

\* The same of the composed specification the run checks, beside the store.
THEOREM SetupFundHolds == ASSUME Sound, ~Overlap PROVE MCSpec => []WithinFund
<1>1. MCInit => FundInv
  BY FundInit DEF MCInit
<1>2. FundInv /\ [MCNext]_<<setup, vars, fundvars>> => FundInv'
  <2> SUFFICES ASSUME FundInv, [MCNext]_<<setup, vars, fundvars>> PROVE FundInv'
    OBVIOUS
  <2>1. [Fund!Next]_(Fund!vars)
    BY DEF MCNext, FundStep, fundvars, Fund!vars
  <2> QED
    BY <2>1, FundKept
<1>3. FundInv => WithinFund
  BY DEF FundInv, WithinFund
<1> QED
  BY <1>1, <1>2, <1>3, PTL DEF MCSpec

-----------------------------------------------------------------------------
(* The spawns.                                                             *)

\* What the guard saw still holds when the bots are inserted; nobody edits.
StillGuarded ==
    \A t \in Threads :
        /\ req[t].at = "insert" /\ req[t].op = "spawn" => Fund!Guarded(req[t].new)
        /\ req[t].at # "replace"

SpawnInv == Fund!TypeOK /\ Locked /\ StillGuarded

LEMMA GuardedStep ==
    ASSUME Sound, ~MayEdit, SpawnInv, NEW t \in Threads, Fund!Runs(t) PROVE StillGuarded'
<1>1. req[t] \in Fund!Requests /\ req[t].at # "replace" /\ Fund!Idle.at = "idle"
  BY DEF SpawnInv, Fund!TypeOK, StillGuarded, Fund!Idle
<1>2. ~Fund!EditRead(t) /\ ~Fund!EditReplace(t)
  BY <1>1 DEF Fund!EditRead, Fund!EditReplace
<1>3. /\ Moves(t) /\ req'[t].at # "replace"
      /\ req'[t].at = "insert" => /\ Fund!Guarded(req'[t].new) \/ req'[t].op # "spawn"
                                  /\ bots' = bots
  <2>1. CASE Fund!Admit(t)
    BY <1>1, <2>1, StepMoves DEF SpawnInv, Fund!Admit, Fund!Requests
  <2>2. CASE ~Fund!Admit(t)
    BY <1>1, <1>2, <2>2, AskMoves, StepMoves, OtherMoves DEF SpawnInv, Fund!Runs, Fund!Requests
  <2> QED
    BY <2>1, <2>2
<1>4. ASSUME NEW new, Fund!Guarded(new),
             \A b \in Fund!Listed(bots') : b \in Fund!Listed(bots) /\ bots'[b] = bots[b]
      PROVE  Fund!Guarded(new)'
  BY <1>4 DEF Fund!Guarded
<1>5. CASE Fund!Insert(t)
  <2>1. req[t].at = "insert" /\ req'[t].at = "commit"
    BY <1>1, <1>5, StepMoves DEF SpawnInv, Fund!Insert, Fund!Requests
  <2>2. \A u \in Threads : req'[u].at \notin {"insert", "replace"}
    BY <1>3, <2>1 DEF Moves, SpawnInv, Locked, Holds, StillGuarded
  <2> QED
    BY <2>2 DEF StillGuarded
<1>6. CASE ~Fund!Insert(t)
  <2>1. \A b \in Fund!Listed(bots') : b \in Fund!Listed(bots) /\ bots'[b] = bots[b]
    <3>1. CASE bots' = bots
      BY <3>1
    <3>2. CASE Fund!Delete(t) \/ Fund!RollBack(t)
      BY <3>2 DEF Fund!Delete, Fund!RollBack, Fund!Without, Fund!Listed, SpawnInv,
         Fund!TypeOK, Fund!Tables
    <3> QED
      BY <1>2, <1>6, <3>1, <3>2 DEF Fund!Runs, Fund!BeginAdd, Fund!BeginSpawn, Fund!Asks,
         Fund!Take, Fund!Admit, Fund!Refuse, Fund!Commit, Fund!FundCheck, Fund!FundAssign,
         Fund!Save
  <2>2. ASSUME NEW u \in Threads, u # t
        PROVE  /\ req'[u].at = "insert" /\ req'[u].op = "spawn" => Fund!Guarded(req[u].new)'
               /\ req'[u].at # "replace"
    <3>1. req'[u] = req[u]
      BY <1>3, <2>2 DEF Moves
    <3> QED
      BY <1>4, <2>1, <3>1 DEF SpawnInv, StillGuarded, Fund!Guarded
  <2>3. req'[t].at = "insert" /\ req'[t].op = "spawn" => Fund!Guarded(req[t].new)'
    BY <1>3 DEF Fund!Guarded, Fund!Listed
  <2> QED
    BY <1>3, <2>2, <2>3 DEF StillGuarded, Fund!Guarded
<1> QED
  BY <1>5, <1>6

LEMMA SpawnKept == ASSUME Sound, ~MayEdit, SpawnInv, [Fund!Next]_(Fund!vars) PROVE SpawnInv'
<1>1. Fund!TypeOK'
  BY TypeKept DEF SpawnInv
<1>2. ASSUME NEW t \in Threads, Fund!Runs(t) PROVE SpawnInv'
  BY <1>1, <1>2, LockedStep, GuardedStep DEF SpawnInv
<1>3. CASE Fund!Restart
  <2>1. \A t \in Threads : req'[t] = Fund!Idle
    BY <1>3 DEF Fund!Restart
  <2> QED
    BY <1>1, <2>1 DEF SpawnInv, Fund!Idle, Locked, Holds, StillGuarded
<1>4. CASE UNCHANGED Fund!vars
  BY <1>1, <1>4 DEF Fund!vars, SpawnInv, Locked, Holds, StillGuarded, Fund!Guarded
<1> QED
  BY <1>2, <1>3, <1>4 DEF Fund!Next

LEMMA SpawnedApart ==
    ASSUME SpawnInv, [Fund!Next]_(Fund!vars),
           NEW b \in spawned' \ spawned, NEW c \in Fund!Listed(bots') \ {b}
    PROVE  ~Fund!Conflict(bots'[b], bots'[c])
<1>1. PICK t \in Threads : Fund!Insert(t) /\ req[t].op = "spawn"
  BY DEF Fund!Next, Fund!vars, Fund!Restart, Fund!Runs, Fund!BeginAdd, Fund!BeginSpawn,
     Fund!Asks, Fund!Take, Fund!Admit, Fund!Refuse, Fund!Insert, Fund!Commit, Fund!RollBack,
     Fund!Delete, Fund!FundCheck, Fund!FundAssign, Fund!EditRead, Fund!EditReplace, Fund!Save
<1>2. /\ Fund!Guarded(req[t].new) /\ bots' = Fund!With(req[t].new) /\ b \in DOMAIN req[t].new
  BY <1>1 DEF Fund!Insert, SpawnInv, StillGuarded
<1>3. req[t].new \in Fund!NewBots /\ b \in Bots /\ c \in Bots
  BY <1>2 DEF SpawnInv, Fund!TypeOK, Fund!Requests, Fund!NewBots, Fund!Listed
<1>4. bots'[b] = req[t].new[b]
  BY <1>2, <1>3 DEF Fund!With
<1>5. CASE c \in DOMAIN req[t].new
  BY <1>2, <1>3, <1>4, <1>5 DEF Fund!With, Fund!Guarded
<1>6. CASE c \notin DOMAIN req[t].new
  BY <1>2, <1>3, <1>4, <1>6 DEF Fund!With, Fund!Guarded, Fund!Listed
<1> QED
  BY <1>5, <1>6

\* A spawned bot conflicts with no bot that is listed when it joins them, also when the
\* fund changes meanwhile; an edit may bring a conflict, which nothing checks.
THEOREM SpawnsStayApart == ASSUME Sound, ~MayEdit PROVE Fund!Spec => Fund!SpawnsApart
<1>1. Fund!Init => SpawnInv
  BY TypeInit DEF Fund!Init, Fund!Idle, SpawnInv, Locked, Holds, StillGuarded
<1>2. SpawnInv /\ [Fund!Next]_(Fund!vars) => SpawnInv'
  BY SpawnKept
<1>3. SpawnInv /\ [Fund!Next]_(Fund!vars) =>
        [\A b \in spawned' \ spawned : \A c \in Fund!Listed(bots') \ {b} :
            ~Fund!Conflict(bots'[b], bots'[c])]_(Fund!vars)
  BY SpawnedApart
<1> QED
  BY <1>1, <1>2, <1>3, PTL DEF Fund!Spec, Fund!SpawnsApart
=============================================================================
