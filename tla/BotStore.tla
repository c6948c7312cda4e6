------------------------------ MODULE BotStore ------------------------------
(***************************************************************************)
(* bots.json: BotManager.save, _insert_and_save, _rows_to_save, load and    *)
(* reorder in bot_manager.py over atomic_write_text in fileutil.py.         *)
(*                                                                         *)
(* Several threads change the bots and save them at the same time; a write  *)
(* may fail at each of its steps; the process may die, or the machine lose  *)
(* its power, between any two.  A row of the file is a bot or a row that    *)
(* load cannot read; ver numbers the states memory had.                    *)
(***************************************************************************)
EXTENDS Naturals, Sequences, SequencesExt, FiniteSets

CONSTANTS
    Threads,
    Bots,
    Bad,          \* rows that load cannot read
    FirstRows,    \* bots.json at first
    Apart,        \* an add and a reorder never overlap
    MaxVer,       \* bound: changes in memory
    MaxDown       \* bound: restarts

ASSUME RowsAssumption ==
    /\ FirstRows \in Seq(Bots \cup Bad) /\ Bots \cap Bad = {}
    /\ \A i, j \in DOMAIN FirstRows : FirstRows[i] = FirstRows[j] => i = j
ASSUME SwitchAssumption == Apart \in BOOLEAN
ASSUME BoundAssumption == MaxVer \in Nat /\ MaxDown \in Nat

VARIABLES
    up,       \* the process runs
    mem,      \* self.bots, self._unloaded, and the number of that state
    file,     \* bots.json as the next open reads it
    safe,     \* what may be left of it when the power goes
    temp,     \* the temporary files: thread -> content and whether it was fsynced
    lock,     \* who holds _save_lock
    th,       \* the threads
    hist      \* history, for the properties only

vars == <<up, mem, file, safe, temp, lock, th, hist>>

Free == "free"
ASSUME ThreadsAssumption == Free \notin Threads
NoBot == "none"
ASSUME NoBotAssumption == NoBot \notin Bots
Torn == [ver |-> 0, rows |-> <<"torn">>]
NoTemp == [content |-> Torn, synced |-> FALSE]
Idle == [at |-> "idle", op |-> "none", bot |-> NoBot, order |-> <<>>, snap |-> Torn]

Contents == [ver: Nat, rows: Seq(Bots \cup Bad \cup {"torn"})]

TypeOK ==
    /\ up \in BOOLEAN
    /\ mem.ver \in Nat /\ mem.bots \in Seq(Bots)
    /\ mem.bad \in Seq([after: Bots \cup {NoBot}, row: Bad])
    /\ file \in Contents /\ safe \subseteq Contents
    /\ \A t \in Threads :
          /\ temp[t].content \in Contents /\ temp[t].synced \in BOOLEAN
          /\ th[t].at \in {"idle", "insert", "assign", "ask", "snap", "write", "sync", "replace"}
          /\ th[t].snap \in Contents
    /\ lock \in Threads \cup {Free}

-----------------------------------------------------------------------------
(* Rows.                                                                   *)

Elems(s) == {s[i] : i \in DOMAIN s}

Picked(s, S) == FlattenSeq([i \in DOMAIN s |-> IF s[i] \in S THEN <<s[i]>> ELSE <<>>])

\* load(): an unreadable row is kept with the loaded bot it follows.
Parsed(rows) ==
    LET Above(i) == {j \in 1 .. i : rows[j] \in Bots}
        After(i) == IF Above(i) = {} THEN NoBot ELSE rows[Max(Above(i))]
    IN [bots |-> Picked(rows, Bots),
        bad |-> FlattenSeq([i \in DOMAIN rows |->
                    IF rows[i] \in Bots THEN <<>> ELSE <<[row |-> rows[i], after |-> After(i)]>>])]

\* The unreadable rows that follow a bot of A.
Kept(m, A) ==
    FlattenSeq([i \in DOMAIN m.bad |-> IF m.bad[i].after \in A THEN <<m.bad[i].row>> ELSE <<>>])

\* Mutant: unreadable rows whose bot is gone are left out.
RowsNoLeftovers(m) ==
    Kept(m, {NoBot})
      \o FlattenSeq([i \in DOMAIN m.bots |-> <<m.bots[i]>> \o Kept(m, {m.bots[i]})])

\* _rows_to_save: every bot, and every unreadable row in its old place, or at the end
\* when the bot it followed is gone.
RowsToSave(m) ==
    Kept(m, {NoBot})
      \o FlattenSeq([i \in DOMAIN m.bots |-> <<m.bots[i]>> \o Kept(m, {m.bots[i]})])
      \o Kept(m, Bots \ Elems(m.bots))

Loaded(c) == [ver |-> c.ver, bots |-> Parsed(c.rows).bots, bad |-> Parsed(c.rows).bad]

Init ==
    /\ up = TRUE
    /\ mem = Loaded([ver |-> 0, rows |-> FirstRows])
    /\ file = [ver |-> 0, rows |-> FirstRows]
    /\ safe = {file}
    /\ temp = [t \in Threads |-> NoTemp]
    /\ lock = Free
    /\ th = [t \in Threads |-> Idle]
    /\ hist = [downs |-> 0, losses |-> 0, unread |-> FALSE, added |-> {}, refused |-> {}, deleted |-> {}]

-----------------------------------------------------------------------------
(* What the threads change before they save.                               *)

CanChange == mem.ver < MaxVer
Listed == Elems(mem.bots)
Changed(bots) == [mem EXCEPT !.bots = bots, !.ver = @ + 1]
Goes(t, op, at) == th' = [th EXCEPT ![t].op = op, ![t].at = at]
Free2 == UNCHANGED <<up, file, safe, temp, lock>>

\* A runner or a route changed a bot, and saves.
BeginChange(t) ==
    /\ up /\ th[t].at = "idle" /\ CanChange
    /\ mem' = Changed(mem.bots)
    /\ Goes(t, "change", "ask")
    /\ Free2 /\ UNCHANGED hist

BeginDelete(t) ==
    /\ up /\ th[t].at = "idle" /\ CanChange
    /\ \E b \in Listed :
        /\ mem' = Changed(Picked(mem.bots, Bots \ {b}))
        /\ hist' = [hist EXCEPT !.deleted = @ \cup {b}]
    /\ Goes(t, "delete", "ask")
    /\ Free2

\* _add_lock lets one add in at a time; the bot gets a fresh id.
BeginAdd(t) ==
    /\ up /\ th[t].at = "idle"
    /\ \A u \in Threads : th[u].op # "add" /\ (Apart => th[u].op # "reorder")
    /\ \E b \in Bots \ (Listed \cup Elems(file.rows \o FirstRows) \cup hist.added \cup hist.refused) :
        th' = [th EXCEPT ![t].op = "add", ![t].bot = b, ![t].at = "insert"]
    /\ Free2 /\ UNCHANGED <<mem, hist>>

\* reorder builds the new order from the bots it finds, then puts it in place.
BeginReorder(t) ==
    /\ up /\ th[t].at = "idle" /\ CanChange
    /\ Apart => \A u \in Threads : th[u].op # "add"
    /\ \E first \in Listed :
        th' = [th EXCEPT ![t].op = "reorder", ![t].at = "assign",
                         ![t].order = <<first>> \o Picked(mem.bots, Bots \ {first})]
    /\ Free2 /\ UNCHANGED <<mem, hist>>

AssignOrder(t) ==
    /\ up /\ th[t].at = "assign" /\ CanChange
    /\ mem' = Changed(th[t].order)
    /\ th' = [th EXCEPT ![t].at = "ask", ![t].order = <<>>]
    /\ Free2 /\ UNCHANGED hist

-----------------------------------------------------------------------------
(* save().                                                                 *)

\* Mutant: an add inserts before it takes the lock.
InsertUnlocked(t) ==
    /\ up /\ th[t].at = "insert" /\ CanChange
    /\ mem' = Changed(Append(mem.bots, th[t].bot))
    /\ Goes(t, "add", "ask")
    /\ Free2 /\ UNCHANGED hist

\* _insert_and_save holds the lock over the insert, the save and the rollback.
Insert(t) ==
    /\ up /\ th[t].at = "insert" /\ lock = Free /\ CanChange
    /\ lock' = t
    /\ mem' = Changed(Append(mem.bots, th[t].bot))
    /\ Goes(t, "add", "snap")
    /\ UNCHANGED <<up, file, safe, temp, hist>>

\* Mutant: the snapshot is taken before the lock.
AcquireLate(t) ==
    /\ up /\ th[t].at = "ask"
    /\ lock' = lock
    /\ th' = [th EXCEPT ![t].at = "write", ![t].snap = [ver |-> mem.ver, rows |-> RowsToSave(mem)]]
    /\ UNCHANGED <<up, mem, file, safe, temp, hist>>

Acquire(t) ==
    /\ up /\ th[t].at = "ask" /\ lock = Free
    /\ lock' = t
    /\ Goes(t, th[t].op, "snap")
    /\ UNCHANGED <<up, mem, file, safe, temp, hist>>

Snapshot(t) ==
    /\ up /\ th[t].at = "snap"
    /\ th' = [th EXCEPT ![t].at = "write", ![t].snap = [ver |-> mem.ver, rows |-> RowsToSave(mem)]]
    /\ UNCHANGED <<up, mem, file, safe, temp, lock, hist>>

\* The backup may fail, the save goes on; then a temporary file beside the target.
WriteTemp(t) ==
    /\ up /\ th[t].at = "write"
    /\ temp' = [temp EXCEPT ![t] = [content |-> th[t].snap, synced |-> FALSE]]
    /\ Goes(t, th[t].op, "sync")
    /\ UNCHANGED <<up, mem, file, safe, lock, hist>>

SyncTemp(t) ==
    /\ up /\ th[t].at = "sync"
    /\ temp' = [temp EXCEPT ![t].synced = TRUE]
    /\ Goes(t, th[t].op, "replace")
    /\ UNCHANGED <<up, mem, file, safe, lock, hist>>

Finish(t) ==
    /\ lock' = IF lock = t THEN Free ELSE lock
    /\ th' = [th EXCEPT ![t] = Idle]
    /\ temp' = [temp EXCEPT ![t] = NoTemp]

\* os.replace, and the save returns.  The directory is not fsynced: until the system
\* writes it back, a power loss may leave the old file or the new one, and of the new
\* one only what was fsynced.
Replace(t) ==
    /\ up /\ th[t].at = "replace"
    /\ file' = temp[t].content
    /\ safe' = safe \cup {IF temp[t].synced THEN temp[t].content ELSE Torn}
    /\ hist' = [hist EXCEPT !.added = IF th[t].op = "add" THEN @ \cup {th[t].bot} ELSE @]
    /\ Finish(t)
    /\ UNCHANGED <<up, mem>>

WrittenBack ==
    /\ up /\ safe # {file} /\ Torn \notin safe
    /\ safe' = {file}
    /\ UNCHANGED <<up, mem, file, temp, lock, th, hist>>

\* A step of the write raises: the temporary file goes, an add takes its bot out again.
Fail(t) ==
    /\ up /\ th[t].at \in {"write", "sync", "replace"}
    /\ IF th[t].op = "add"
       THEN /\ mem' = Changed(Picked(mem.bots, Bots \ {th[t].bot}))
            /\ hist' = [hist EXCEPT !.refused = @ \cup {th[t].bot}]
       ELSE UNCHANGED <<mem, hist>>
    /\ Finish(t)
    /\ UNCHANGED <<up, file, safe>>

-----------------------------------------------------------------------------
(* Restarts.                                                               *)

Gone ==
    /\ up' = FALSE
    /\ th' = [t \in Threads |-> Idle] /\ lock' = Free
    /\ temp' = [t \in Threads |-> NoTemp]
    /\ UNCHANGED mem

Crash ==
    /\ up /\ hist.downs < MaxDown
    /\ Gone
    /\ hist' = [hist EXCEPT !.downs = @ + 1]
    /\ UNCHANGED <<file, safe>>

PowerLost ==
    /\ up /\ hist.downs < MaxDown
    /\ Gone
    /\ hist' = [hist EXCEPT !.downs = @ + 1, !.losses = @ + 1]
    /\ \E left \in safe : file' = left /\ safe' = {left}

\* load(): what the file says; nothing when the read fails.  When any bot loaded, it is
\* saved again.
Boot ==
    /\ ~up /\ up' = TRUE
    /\ \/ mem' = Loaded(file) /\ hist' = hist
       \/ /\ mem' = [ver |-> file.ver, bots |-> <<>>, bad |-> <<>>]
          /\ hist' = [hist EXCEPT !.unread = TRUE]
    /\ IF mem'.bots # <<>>
       THEN \E t \in Threads : th' = [th EXCEPT ![t].op = "change", ![t].at = "ask"]
       ELSE th' = th
    /\ UNCHANGED <<file, safe, temp, lock>>

-----------------------------------------------------------------------------

ThreadStep(t) ==
    \/ BeginChange(t) \/ BeginDelete(t) \/ BeginAdd(t) \/ BeginReorder(t) \/ AssignOrder(t)
    \/ Insert(t) \/ Acquire(t) \/ Snapshot(t) \/ WriteTemp(t) \/ SyncTemp(t) \/ Replace(t)
    \/ Fail(t)

Next == WrittenBack \/ Crash \/ PowerLost \/ Boot \/ \E t \in Threads : ThreadStep(t)

Spec == Init /\ [][Next]_vars

-----------------------------------------------------------------------------
(* Properties.                                                             *)

\* The saves land in the order of the states they hold, however the threads that asked
\* for them are scheduled: an older snapshot never lands on a newer one, and a restart
\* begins where the last save left off, unless the power was lost (bot_manager.py save,
\* F444).
Store == INSTANCE VersionedStore
    WITH ver <- IF up THEN mem.ver ELSE file.ver, stored <- file.ver, losses <- hist.losses
NewestLands == Store!Spec

\* A row that load cannot read stays in bots.json, exactly once, whatever happens to
\* the bots around it (bot_manager.py load, _rows_to_save) and to the file: a crash, a
\* power loss or a failed write leaves it whole (fileutil.py atomic_write_text).  Until a
\* boot cannot read the file at all.
BadRowsKept ==
    ~hist.unread => \A x \in Bad \cap Elems(FirstRows) :
                       Cardinality({i \in DOMAIN file.rows : file.rows[i] = x}) = 1

\* An add that failed left nothing behind, in memory or on disk, although other threads
\* saved in between (bot_manager.py _insert_and_save, LM-11).
AddAllOrNothing == \A b \in hist.refused : b \notin Listed /\ b \notin Elems(file.rows)

\* A bot whose add was answered stays listed until it is deleted (bot_manager.py reorder).
AddedStays == up /\ hist.downs = 0 => hist.added \ hist.deleted \subseteq Listed
=============================================================================
