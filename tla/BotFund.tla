------------------------------ MODULE BotFund -------------------------------
(***************************************************************************)
(* The fund that the bots share: add_bot, add_bots (a spawn), update_bot,   *)
(* delete_bot, set_bot_fund and _insert_and_save in bot_manager.py.         *)
(*                                                                         *)
(* Adds check the fund and the exclusive-symbol guard under _add_lock and   *)
(* insert and save under _save_lock; edits, deletes and changes of the fund *)
(* take neither before they save.  A save is one step: BotStore says why.   *)
(***************************************************************************)
EXTENDS Naturals, FiniteSets, FiniteSetsExt

CONSTANTS
    Threads,    \* request threads
    Bots,       \* bot ids, in use or yet to be drawn
    Configs,    \* [symbol, side, capital]; side is "long", "short" or "both"; capital above zero
    Amounts,    \* what the fund may be set to
    None,
    MayEdit,    \* the user may edit a bot
    Overlap,    \* a change of the fund and an add may overlap
    MaxRaise,   \* bound: capital that edits add
    MaxDown     \* bound: restarts

VARIABLES
    fund,       \* bot_fund
    bots,       \* self.bots: id -> config or None
    disk,       \* bots.json: the fund and the bots
    addLock,    \* who holds _add_lock
    saveLock,   \* who holds _save_lock over more than one step
    th,         \* the requests
    spawned,    \* history: the ids that spawns gave out
    raised,     \* history: the capital that edits added
    downs

vars == <<fund, bots, disk, addLock, saveLock, th, spawned, raised, downs>>

Idle == [at |-> "idle", op |-> "none", new |-> <<>>, amount |-> 0]
Tables == [Bots -> Configs \cup {None}]
Listed(table) == {b \in Bots : table[b] # None}
Allocated(table) == MapThenSumSet(LAMBDA b : table[b].capital, Listed(table))
Conflict(c, d) == c.symbol = d.symbol /\ (c.side = d.side \/ "both" \in {c.side, d.side})

\* Requests carry new bots: a function from their ids to their configs.
NewBots == UNION {[ids -> Configs] : ids \in SUBSET Bots}
Unused == {b \in Bots : bots[b] = None /\ disk.bots[b] = None /\ b \notin spawned
                        /\ \A t \in Threads : b \notin DOMAIN th[t].new}

Requests ==
    [at: {"idle", "lock", "check", "insert", "commit", "assign", "replace", "save"},
     op: {"none", "add", "spawn", "delete", "fund", "edit"}, new: NewBots, amount: Nat]

TypeOK ==
    /\ fund \in Nat /\ bots \in Tables
    /\ disk \in [fund: Nat, bots: Tables]
    /\ {addLock, saveLock} \subseteq Threads \cup {None}
    /\ th \in [Threads -> Requests]
    /\ spawned \subseteq Bots /\ raised \in 0 .. MaxRaise /\ downs \in 0 .. MaxDown

Init ==
    /\ fund \in Amounts /\ bots = [b \in Bots |-> None]
    /\ disk = [fund |-> fund, bots |-> bots]
    /\ addLock = None /\ saveLock = None
    /\ th = [t \in Threads |-> Idle]
    /\ spawned = {} /\ raised = 0 /\ downs = 0

Goes(t, at) == th' = [th EXCEPT ![t].at = at]
Ends(t) == th' = [th EXCEPT ![t] = Idle]
Free(lock, t) == lock' = IF lock = t THEN None ELSE lock
With(new) == [b \in Bots |-> IF b \in DOMAIN new THEN new[b] ELSE bots[b]]
More(n, m) == IF n > m THEN n - m ELSE 0
Without(new) == [b \in Bots |-> IF b \in DOMAIN new THEN None ELSE bots[b]]

-----------------------------------------------------------------------------
(* Adds.                                                                   *)

Asks(t, op, n) ==
    /\ th[t].at = "idle"
    /\ \E ids \in SUBSET Unused :
          /\ Cardinality(ids) = n
          /\ \E new \in [ids -> Configs] :
                th' = [th EXCEPT ![t] = [Idle EXCEPT !.at = "lock", !.op = op, !.new = new]]
    /\ UNCHANGED <<fund, bots, disk, addLock, saveLock, spawned, raised, downs>>
BeginAdd(t) == Asks(t, "add", 1)
BeginSpawn(t) == Asks(t, "spawn", 2)

\* Mutant: the checks are made before the lock is taken.
TakeUnlocked(t) ==
    /\ th[t].at = "lock"
    /\ Overlap \/ \A u \in Threads : th[u].op # "fund"
    /\ Goes(t, "check")
    /\ UNCHANGED <<fund, bots, disk, addLock, saveLock, spawned, raised, downs>>

Take(t) ==
    /\ th[t].at = "lock" /\ addLock = None
    /\ Overlap \/ \A u \in Threads : th[u].op # "fund"
    /\ addLock' = t /\ Goes(t, "check")
    /\ UNCHANGED <<fund, bots, disk, saveLock, spawned, raised, downs>>

\* The exclusive-symbol guard of add_bots: against each other and every bot there is.
Guarded(new) ==
    /\ \A b, c \in DOMAIN new : b # c => ~Conflict(new[b], new[c])
    /\ \A b \in DOMAIN new : \A c \in Listed(bots) : ~Conflict(new[b], bots[c])

\* _validate_allocation, on what the request asks for together.
Fits(new) ==
    /\ fund # 0
    /\ Allocated(bots) + MapThenSumSet(LAMBDA b : new[b].capital, DOMAIN new) <= fund

Admit(t) ==
    /\ th[t].at = "check"
    /\ th[t].op = "spawn" => Guarded(th[t].new)
    /\ Fits(th[t].new)
    /\ Goes(t, "insert")
    /\ UNCHANGED <<fund, bots, disk, addLock, saveLock, spawned, raised, downs>>

Refuse(t) ==
    /\ th[t].at = "check"
    /\ ~Fits(th[t].new) \/ (th[t].op = "spawn" /\ ~Guarded(th[t].new))
    /\ Free(addLock, t) /\ Ends(t)
    /\ UNCHANGED <<fund, bots, disk, saveLock, spawned, raised, downs>>

Insert(t) ==
    /\ th[t].at = "insert" /\ saveLock = None
    /\ saveLock' = t /\ bots' = With(th[t].new)
    /\ spawned' = IF th[t].op = "spawn" THEN spawned \cup DOMAIN th[t].new ELSE spawned
    /\ Goes(t, "commit")
    /\ UNCHANGED <<fund, disk, addLock, raised, downs>>

Commit(t) ==
    /\ th[t].at = "commit"
    /\ disk' = [fund |-> fund, bots |-> bots]
    /\ Free(saveLock, t) /\ Free(addLock, t) /\ Ends(t)
    /\ UNCHANGED <<fund, bots, spawned, raised, downs>>

RollBack(t) ==
    /\ th[t].at = "commit"
    /\ bots' = Without(th[t].new)
    /\ Free(saveLock, t) /\ Free(addLock, t) /\ Ends(t)
    /\ UNCHANGED <<fund, disk, spawned, raised, downs>>

-----------------------------------------------------------------------------
(* What takes no _add_lock.                                                *)

Delete(t) ==
    /\ th[t].at = "idle"
    /\ \E b \in Listed(bots) : bots' = [bots EXCEPT ![b] = None]
    /\ th' = [th EXCEPT ![t].op = "delete", ![t].at = "save"]
    /\ UNCHANGED <<fund, disk, addLock, saveLock, spawned, raised, downs>>

FundCheck(t) ==
    /\ th[t].at = "idle" /\ (Overlap \/ addLock = None)
    /\ \E amount \in Amounts :
          /\ amount >= Allocated(bots)
          /\ th' = [th EXCEPT ![t].op = "fund", ![t].at = "assign", ![t].amount = amount]
    /\ UNCHANGED <<fund, bots, disk, addLock, saveLock, spawned, raised, downs>>

FundAssign(t) ==
    /\ th[t].at = "assign"
    /\ fund' = th[t].amount /\ Goes(t, "save")
    /\ UNCHANGED <<bots, disk, addLock, saveLock, spawned, raised, downs>>

\* update_bot reads the bot, then puts its new config in place: back, if it was deleted
\* meanwhile.  Neither the fund nor the guard is looked at.
EditRead(t) ==
    /\ MayEdit /\ th[t].at = "idle"
    /\ \E b \in Listed(bots) : \E c \in Configs :
          th' = [th EXCEPT ![t].op = "edit", ![t].at = "replace", ![t].new = [x \in {b} |-> c]]
    /\ UNCHANGED <<fund, bots, disk, addLock, saveLock, spawned, raised, downs>>

EditReplace(t) ==
    /\ th[t].at = "replace"
    /\ bots' = With(th[t].new) /\ Goes(t, "save")
    /\ raised' = raised + More(Allocated(bots'), Allocated(bots)) /\ raised' <= MaxRaise
    /\ UNCHANGED <<fund, disk, addLock, saveLock, spawned, downs>>

\* The save of a delete, an edit or a change of the fund: when it fails the answer is an
\* error, and memory stays as it is.
Save(t) ==
    /\ th[t].at = "save" /\ saveLock = None
    /\ disk' = [fund |-> fund, bots |-> bots] \/ disk' = disk
    /\ Ends(t)
    /\ UNCHANGED <<fund, bots, addLock, saveLock, spawned, raised, downs>>

Restart ==
    /\ downs < MaxDown /\ downs' = downs + 1
    /\ fund' = disk.fund /\ bots' = disk.bots
    /\ addLock' = None /\ saveLock' = None /\ th' = [t \in Threads |-> Idle]
    /\ UNCHANGED <<disk, spawned, raised>>

Runs(t) ==
    \/ BeginAdd(t) \/ BeginSpawn(t) \/ Take(t) \/ Admit(t) \/ Refuse(t)
    \/ Insert(t) \/ Commit(t) \/ RollBack(t)
    \/ Delete(t) \/ FundCheck(t) \/ FundAssign(t) \/ EditRead(t) \/ EditReplace(t) \/ Save(t)

Next == Restart \/ \E t \in Threads : Runs(t)

Spec == Init /\ [][Next]_vars

-----------------------------------------------------------------------------
(* Properties.                                                             *)

\* The bots take more than the fund by no more than edits added, which nothing checks:
\* in memory and in bots.json, whatever adds, spawns, edits and deletes overlap, whichever
\* save fails, and over restarts (the fund checks of add_bot, add_bots and set_bot_fund).
\* A change of the fund that overlaps an add does not keep it.
WithinFund ==
    /\ Allocated(bots) <= fund + raised
    /\ Allocated(disk.bots) <= disk.fund + raised

\* A spawned bot conflicts with no bot that is listed when it joins them, whatever other
\* adds and deletes came between its check and its insert (add_bots, plan D7).
SpawnsApart ==
    [][\A b \in spawned' \ spawned : \A c \in Listed(bots') \ {b} :
          ~Conflict(bots'[b], bots'[c])]_vars
=============================================================================
