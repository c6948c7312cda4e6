------------------------ MODULE GraphSession_proofs -------------------------
(***************************************************************************)
(* Proofs about the editor session, for any number of graphs, edits, versions *)
(* and deaths of the page, as long as nothing in MayAct happens: the state is *)
(* well typed, a graph shown as saved is stored, no edit is lost that nobody   *)
(* gave up, a save goes to its graph and never drops another window's edit     *)
(* unseen.                                                                 *)
(***************************************************************************)
EXTENDS GraphSession, TLAPS

-----------------------------------------------------------------------------
(* The strengthening: what the window knows at each of its steps.          *)

\* A content has seen what of S is not this window's own.
Knows(c, S) == S \ hist.mine \subseteq c.knows
Good(c, g) == c.of = g /\ Knows(c, c.edits)

Top(g) == log[g][Rev(g)]
At(g, v) == v.rev \in 1..Rev(g) /\ log[g][v.rev] = v.edits

\* The next save opens the conflict dialog.
Pending == tab.id # None /\ conflict = tab.id

\* A request that will not be answered with ok, one that may still land, and one whose
\* version is the newest.
Sunk(r) == r.answer # "ok" /\ (r.answer = "out" => r.rev < Rev(r.of))
Lands(r) == r.answer = "out" /\ r.rev = Rev(r.of)
Newest(r) == r.answer = "ok" /\ r.got = Rev(r.of)
SentOf(r) ==
    /\ r.rev \in 1..Rev(r.of) /\ Good(r.sent, r.of)
    /\ r.answer = "ok" => r.got = r.rev + 1 /\ r.got \in 1..Rev(r.of) /\ log[r.of][r.got] = r.sent.edits

Bounded == \A g \in Graphs : Rev(g) <= MaxRev

\* A graph on screen with its meta, or none.
Screen ==
    IF tab.id = None THEN tab.graph = None /\ tab.saved = None /\ tab.past = None
    ELSE /\ tab.graph # None /\ Good(tab.graph, tab.id)
         /\ tab.saved # None /\ Good(tab.saved, tab.id)
         /\ tab.past # None => Good(tab.past, tab.id)
         /\ tab.rev \in 1..Rev(tab.id)
         /\ tab.dirty <=> ~Same(tab.graph, tab.saved)

SavedAt(v) == \E r \in 1..Rev(tab.id) : r >= v /\ log[tab.id][r] = tab.saved.edits
SavedStored == tab.id # None => SavedAt(tab.rev)

Busy == (save # None <=> tab.busy = "saving") /\ (load # None <=> tab.busy = "loading")

DraftFits(g) == draft[g] # None =>
    /\ draft[g].rev \in 1..Rev(g) /\ Good(draft[g].graph, g)
    /\ draft[g].rev = Rev(g) => Knows(draft[g].graph, Top(g))

SaveFits == save # None =>
    /\ SentOf(save) /\ save.of = tab.id /\ conflict # save.of /\ dialog = None
    /\ tab.rev <= save.rev \/ Sunk(save)
    /\ save.then # None => save.rev <= tab.rev /\ Rev(save.then) >= 1
    /\ Lands(save) => Knows(save.sent, Top(save.of))

DialogFits == dialog # None =>
    /\ Pending /\ dialog.of = tab.id /\ load = None /\ save = None
    /\ dialog.got # None => At(dialog.of, dialog.got)

LoadFits == load # None =>
    /\ Rev(load.of) >= 1
    /\ load.got # None =>
        /\ At(load.of, load.got)
        /\ draft[load.of] # None => draft[load.of].rev <= load.got.rev
        /\ tab.id = load.of => tab.rev <= load.got.rev

\* A rename that may yet be answered with ok is one of the graph on screen.
RenameAndSave == save # None =>
    /\ rename.rev <= save.rev \/ Sunk(save)
    /\ rename.answer = "ok" => rename.got <= save.rev \/ Sunk(save)
    /\ save.then # None => save.rev <= rename.rev
RenameAndDialog == dialog # None /\ dialog.got # None =>
    /\ rename.rev <= dialog.got.rev /\ tab.rev <= dialog.got.rev
    /\ rename.answer = "ok" =>
          rename.got <= dialog.got.rev \/ dialog.got.edits = rename.sent.edits
RenameAndSaved ==
    /\ Lands(rename) => tab.saved.edits = rename.sent.edits
    /\ rename.answer = "ok" => SavedAt(rename.got)
    /\ Newest(rename) => log[rename.of][rename.rev] = rename.sent.edits
RenameAndDraft ==
    (Lands(rename) \/ Newest(rename)) /\ draft[rename.of] # None
        => Knows(draft[rename.of].graph, rename.sent.edits)
RenameFits == rename # None =>
    /\ SentOf(rename)
    /\ \/ Sunk(rename)
       \/ /\ rename.of = tab.id /\ load = None /\ rename.rev <= tab.rev
          /\ RenameAndSave /\ RenameAndDialog /\ RenameAndSaved /\ RenameAndDraft
          /\ prompt # None /\ prompt.of = tab.id => prompt.draft.rev <= rename.rev

\* What is on screen is based on the newest version, or will be once an answer is in.
Current ==
    \/ tab.rev = Rev(tab.id)
    \/ rename # None /\ Newest(rename)
    \/ save # None /\ (Lands(save) \/ Newest(save))

PromptIs == prompt # None =>
    /\ prompt.draft.rev \in 1..Rev(prompt.of) /\ Good(prompt.draft.graph, prompt.of)
    /\ prompt.of = tab.id =>
        /\ prompt.draft.rev <= tab.rev
        /\ dialog # None /\ dialog.got # None => prompt.draft.rev <= dialog.got.rev
    /\ prompt.variant # "kept" =>
        /\ prompt.of = tab.id /\ ~tab.dirty /\ conflict = None /\ dialog = None /\ save = None
        /\ draft[prompt.of] # None /\ draft[prompt.of].graph = prompt.draft.graph
    /\ prompt.variant = "kept" => prompt.draft.graph.edits \subseteq hist.gone
PromptKnows ==
    prompt # None /\ prompt.of = tab.id /\ Current
        /\ (prompt.draft.rev = tab.rev \/ prompt.variant = "same") =>
    /\ Knows(prompt.draft.graph, Top(tab.id)) /\ Knows(prompt.draft.graph, tab.graph.edits)
    /\ tab.past # None => Knows(prompt.draft.graph, tab.past.edits)
    /\ save # None /\ Lands(save) => Knows(prompt.draft.graph, save.sent.edits)

ScreenKnows ==
    tab.id # None /\ Current /\ ~Pending =>
        Knows(tab.graph, Top(tab.id)) /\ (tab.past # None => Knows(tab.past, Top(tab.id)))
SaveKnown ==
    save # None /\ Lands(save) =>
        /\ Knows(tab.graph, save.sent.edits)
        /\ tab.past # None => Knows(tab.past, save.sent.edits)
PastKnows ==
    /\ tab.past # None
    /\ \/ tab.dirty \/ save # None
       \/ (load = None \/ load.late) /\ (Current \/ Pending)
    => Knows(tab.past, tab.graph.edits)

\* Where an edit may be.
Logged(e) == \E g \in Graphs : \E r \in 1..Rev(g) : e \in log[g][r]
InDraft(e) == \E g \in Graphs : draft[g] # None /\ e \in draft[g].graph.edits

PastKept == tab.past # None => tab.past.edits \subseteq tab.graph.edits \cup hist.gone
DraftKept ==
    tab.id # None /\ draft[tab.id] # None =>
        draft[tab.id].graph.edits \subseteq tab.graph.edits \cup hist.gone \cup Offered
LeftKept ==
    load # None /\ ~load.late /\ tab.graph # None =>
        \A e \in tab.graph.edits : e \in hist.mine => e \in hist.gone \/ InDraft(e) \/ Logged(e)
EditsKept ==
    \A e \in hist.mine : \/ e \in hist.gone \/ InDraft(e) \/ Logged(e)
                         \/ tab.graph # None /\ e \in tab.graph.edits

Fits ==
    /\ Bounded /\ Screen /\ SavedStored /\ Busy /\ (\A g \in Graphs : DraftFits(g))
    /\ SaveFits /\ DialogFits /\ LoadFits /\ RenameFits /\ PromptIs
Known == PromptKnows /\ ScreenKnows /\ SaveKnown /\ PastKnows
Held == PastKept /\ DraftKept /\ LeftKept /\ EditsKept

IInv == TypeOK /\ Fits /\ Known /\ Held

-----------------------------------------------------------------------------
(* Steps that only end something.                                          *)

\* Cancel closes the dialog and leaves the conflict pending (conflictCancel).
LEMMA CancelKeeps == ASSUME IInv, CancelConflict PROVE IInv'
<1>1. UNCHANGED <<log, tab, draft, prompt, conflict, save, rename, load, hist>> /\ dialog' = None
  BY DEF CancelConflict
<1>2. TypeOK'
  BY <1>1 DEF IInv, TypeOK, Or
<1>3. Fits'
  BY <1>1
     DEF IInv, Fits, Bounded, Screen, SavedStored, Busy, DraftFits, SaveFits, DialogFits,
         LoadFits, RenameFits, PromptIs, RenameAndSave, RenameAndDialog, RenameAndSaved,
         RenameAndDraft, SavedAt, Lands, Newest, Sunk, SentOf, Good, Knows, Top, At, Rev,
         Pending
<1>4. Known'
  BY <1>1
     DEF IInv, Known, PromptKnows, ScreenKnows, SaveKnown, PastKnows, Current, Lands, Newest,
         Good, Knows, Top, Rev, Pending
<1>5. Held'
  BY <1>1
     DEF IInv, Held, PastKept, DraftKept, LeftKept, EditsKept, InDraft, Logged, Offered, Rev
<1> QED
  BY <1>2, <1>3, <1>4, <1>5 DEF IInv

\* The dialog gets the newest version of the graph it is about.
LEMMA FetchKeeps == ASSUME IInv, Fetch PROVE IInv'
<1> DEFINE v == Stored(dialog.of)
<1>1. /\ UNCHANGED <<log, tab, draft, prompt, conflict, save, rename, load, hist>>
      /\ dialog # None /\ dialog.got = None /\ dialog' = [dialog EXCEPT !.got = v]
  BY DEF Fetch
<1>2. dialog \in Dialogs /\ dialog.of = tab.id /\ tab.id # None /\ tab.id \in Graphs
      /\ tab.rev \in 1..Rev(tab.id) /\ log[tab.id] \in Seq(SUBSET Edits) /\ Rev(tab.id) <= MaxRev
  BY <1>1 DEF IInv, TypeOK, Or, Tabs, Fits, DialogFits, Screen, Bounded, Pending
<1>3. v \in Versions /\ v.rev = Rev(tab.id) /\ v.edits = Top(tab.id) /\ Rev(tab.id) \in Nat /\ v # None
  BY <1>2, BoundAssumption, NoneAssumption DEF Stored, Versions, Rev, Revs, Top, Last
<1> HIDE DEF v
<1>4. dialog' \in Dialogs /\ dialog'.got = v /\ dialog'.of = dialog.of /\ dialog' # None
  BY <1>1, <1>2, <1>3, NoneAssumption DEF Dialogs, Or
<1>5. TypeOK'
  BY <1>1, <1>4 DEF IInv, TypeOK, Or
<1>6. Fits'
  BY <1>1, <1>2, <1>3, <1>4
     DEF IInv, Fits, Bounded, Screen, SavedStored, Busy, DraftFits, SaveFits, DialogFits,
         LoadFits, RenameFits, PromptIs, RenameAndSave, RenameAndDialog, RenameAndSaved,
         RenameAndDraft, SavedAt, Lands, Newest, Sunk, SentOf, Good, Knows, Top, At, Rev,
         Pending
<1>7. Known'
  BY <1>1
     DEF IInv, Known, PromptKnows, ScreenKnows, SaveKnown, PastKnows, Current, Lands, Newest,
         Good, Knows, Top, Rev, Pending
<1>8. Held'
  BY <1>1
     DEF IInv, Held, PastKept, DraftKept, LeftKept, EditsKept, InDraft, Logged, Offered, Rev
<1> QED
  BY <1>5, <1>6, <1>7, <1>8 DEF IInv

\* Compare shows the other version: what is on screen then knows all of it.
LEMMA CompareKeeps == ASSUME IInv, Compare PROVE IInv'
<1> DEFINE k == tab.graph.knows \cup dialog.got.edits
           c == [tab.graph EXCEPT !.knows = k]
<1>1. /\ UNCHANGED <<log, draft, prompt, conflict, save, rename, load, hist>>
      /\ dialog # None /\ dialog.got # None /\ dialog' = [dialog EXCEPT !.compared = TRUE]
      /\ tab' = [tab EXCEPT !.graph.knows = k]
  BY DEF Compare, Shown
<1>2. /\ dialog \in Dialogs /\ tab \in Tabs /\ tab.id # None /\ tab.graph # None
      /\ tab.graph \in Contents /\ dialog.got \in Versions
  BY <1>1 DEF IInv, TypeOK, Or, Fits, DialogFits, Screen, Pending, Tabs, Dialogs
<1>3. c \in Contents /\ c.of = tab.graph.of /\ c.edits = tab.graph.edits /\ c.knows = k /\ c # None
  BY <1>2, NoneAssumption DEF Contents, Versions
<1>4. tab' = [tab EXCEPT !.graph = c]
  BY <1>1, <1>2 DEF Tabs
<1>5. tab.graph.knows \subseteq k
  OBVIOUS
<1> HIDE DEF k, c
<1>6. /\ tab' \in Tabs /\ tab'.graph = c /\ tab'.saved = tab.saved /\ tab'.id = tab.id
      /\ tab'.rev = tab.rev /\ tab'.dirty = tab.dirty /\ tab'.past = tab.past /\ tab'.busy = tab.busy
  BY <1>2, <1>3, <1>4 DEF Tabs, Or
<1>7. /\ dialog' \in Dialogs /\ dialog'.got = dialog.got /\ dialog'.of = dialog.of /\ dialog' # None
  BY <1>1, <1>2, NoneAssumption DEF Dialogs
<1>8. TypeOK'
  BY <1>1, <1>6, <1>7 DEF IInv, TypeOK, Or
<1>9. Fits'
  BY <1>1, <1>2, <1>3, <1>5, <1>6, <1>7
     DEF IInv, Fits, Bounded, Screen, SavedStored, Busy, DraftFits, SaveFits, DialogFits,
         LoadFits, RenameFits, PromptIs, RenameAndSave, RenameAndDialog, RenameAndSaved,
         RenameAndDraft, SavedAt, Lands, Newest, Sunk, SentOf, Good, Knows, Top, At, Rev,
         Pending, Same
<1>10. Known'
  BY <1>1, <1>2, <1>3, <1>5, <1>6, <1>7
     DEF IInv, Known, PromptKnows, ScreenKnows, SaveKnown, PastKnows, Current, Lands, Newest,
         Good, Knows, Top, Rev, Pending
<1>11. Held'
  BY <1>1, <1>2, <1>3, <1>6
     DEF IInv, Held, PastKept, DraftKept, LeftKept, EditsKept, InDraft, Logged, Offered, Rev
<1> QED
  BY <1>8, <1>9, <1>10, <1>11 DEF IInv

\* A save that the server did not take is over, with or without a conflict.
LEMMA AnswerIsNo ==
  ASSUME IInv, save # None, save.answer # "ok", save' = None, UNCHANGED <<log, draft, prompt, rename, load, hist>>,
         tab' = [tab EXCEPT !.busy = "no"],
         \/ UNCHANGED <<conflict, dialog>>
         \/ conflict' = save.of /\ dialog' = [of |-> save.of, got |-> None, compared |-> FALSE]
  PROVE  IInv'
<1>1. /\ tab \in Tabs /\ save.of \in Graphs /\ load = None /\ save.of = tab.id /\ dialog = None
  BY DEF IInv, TypeOK, Or, Saves, Fits, Busy, SaveFits, Tabs
<1>2. /\ tab' \in Tabs /\ tab'.graph = tab.graph /\ tab'.saved = tab.saved /\ tab'.id = tab.id
      /\ tab'.rev = tab.rev /\ tab'.dirty = tab.dirty /\ tab'.past = tab.past /\ tab'.busy = "no"
  BY <1>1 DEF Tabs
<1>3. /\ conflict' \in Or(Graphs) /\ dialog' \in Or(Dialogs)
      /\ dialog' # None => dialog'.of = tab.id /\ dialog'.got = None /\ conflict' = tab.id
  <2>1. CASE UNCHANGED <<conflict, dialog>>
    BY <1>1, <2>1 DEF IInv, TypeOK
  <2>2. CASE conflict' = save.of /\ dialog' = [of |-> save.of, got |-> None, compared |-> FALSE]
    BY <1>1, <2>2 DEF Dialogs, Or
  <2> QED
    BY <2>1, <2>2
<1>4. TypeOK'
  BY <1>2, <1>3 DEF IInv, TypeOK, Or
<1>5. Fits'
  BY <1>1, <1>2, <1>3, GraphsAssumption
     DEF IInv, Fits, Bounded, Screen, SavedStored, Busy, DraftFits, SaveFits, DialogFits,
         LoadFits, RenameFits, PromptIs, RenameAndSave, RenameAndDialog, RenameAndSaved,
         RenameAndDraft, SavedAt, Lands, Newest, Sunk, SentOf, Good, Knows, Top, At, Rev,
         Pending, Same
<1>6. Known'
  BY <1>1, <1>2, <1>3
     DEF IInv, Known, PromptKnows, ScreenKnows, SaveKnown, PastKnows, Current, Lands, Newest,
         Good, Knows, Top, Rev, Pending
<1>7. Held'
  BY <1>2
     DEF IInv, Held, PastKept, DraftKept, LeftKept, EditsKept, InDraft, Logged, Offered, Rev
<1> QED
  BY <1>4, <1>5, <1>6, <1>7 DEF IInv

\* A rename that was refused or lost leaves the screen as it is.
LEMMA RenameFailedKeeps == ASSUME IInv, RenameFailed PROVE IInv'
<1>1. UNCHANGED <<log, tab, draft, prompt, conflict, dialog, save, load, hist>> /\ rename' = None
      /\ rename.answer # "ok"
  BY DEF RenameFailed
<1>2. TypeOK'
  BY <1>1 DEF IInv, TypeOK, Or
<1>3. Fits'
  BY <1>1
     DEF IInv, Fits, Bounded, Screen, SavedStored, Busy, DraftFits, SaveFits, DialogFits,
         LoadFits, RenameFits, PromptIs, RenameAndSave, RenameAndDialog, RenameAndSaved,
         RenameAndDraft, SavedAt, Lands, Newest, Sunk, SentOf, Good, Knows, Top, At, Rev,
         Pending
<1>4. Known'
  BY <1>1
     DEF IInv, Known, PromptKnows, ScreenKnows, SaveKnown, PastKnows, Current, Lands, Newest,
         Good, Knows, Top, Rev, Pending
<1>5. Held'
  BY <1>1
     DEF IInv, Held, PastKept, DraftKept, LeftKept, EditsKept, InDraft, Logged, Offered, Rev
<1> QED
  BY <1>2, <1>3, <1>4, <1>5 DEF IInv

\* A load reads the newest version, and no older one than the window or a draft is based on.
LEMMA LoadLandsKeeps == ASSUME IInv, LoadLands PROVE IInv'
<1> DEFINE v == Stored(load.of)
<1>1. /\ UNCHANGED <<log, tab, draft, prompt, conflict, dialog, save, rename, hist>>
      /\ load # None /\ load.got = None /\ load' = [load EXCEPT !.got = v]
  BY DEF LoadLands
<1>2. /\ load \in Loads /\ load.of \in Graphs /\ log[load.of] \in Seq(SUBSET Edits)
      /\ Rev(load.of) <= MaxRev /\ Rev(load.of) >= 1
  BY <1>1 DEF IInv, TypeOK, Or, Loads, Fits, LoadFits, Bounded
<1>3. v \in Versions /\ v.rev = Rev(load.of) /\ v.edits = Top(load.of) /\ Rev(load.of) \in Nat /\ v # None
  BY <1>2, BoundAssumption, NoneAssumption DEF Stored, Versions, Rev, Revs, Top, Last
<1> HIDE DEF v
<1>4. load' \in Loads /\ load'.got = v /\ load'.of = load.of /\ load'.late = load.late /\ load' # None
  BY <1>1, <1>2, <1>3, NoneAssumption DEF Loads, Or
<1>5. TypeOK'
  BY <1>1, <1>4 DEF IInv, TypeOK, Or
<1>6. Fits'
  <2>1. LoadFits'
    <3>1. \A g \in Graphs : draft[g] # None => draft[g].rev <= Rev(g)
      BY <1>2, BoundAssumption DEF IInv, TypeOK, Or, Drafts, Revs, Fits, DraftFits, Rev
    <3>2. tab.id = load.of => tab.rev <= Rev(load.of)
      BY <1>2, GraphsAssumption DEF IInv, Fits, Screen, Rev
    <3> QED
      BY <1>1, <1>2, <1>3, <1>4, <3>1, <3>2 DEF LoadFits, At, Top, Rev
  <2> QED
    BY <1>1, <1>4, <2>1
       DEF IInv, Fits, Bounded, Screen, SavedStored, Busy, DraftFits, SaveFits, DialogFits,
           LoadFits, RenameFits, PromptIs, RenameAndSave, RenameAndDialog, RenameAndSaved,
           RenameAndDraft, SavedAt, Lands, Newest, Sunk, SentOf, Good, Knows, Top, At, Rev,
           Pending
<1>7. Known'
  BY <1>1, <1>4
     DEF IInv, Known, PromptKnows, ScreenKnows, SaveKnown, PastKnows, Current, Lands, Newest,
         Good, Knows, Top, Rev, Pending
<1>8. Held'
  BY <1>1, <1>4
     DEF IInv, Held, PastKept, DraftKept, LeftKept, EditsKept, InDraft, Logged, Offered, Rev
<1> QED
  BY <1>5, <1>6, <1>7, <1>8 DEF IInv

-----------------------------------------------------------------------------
(* Drafts and loads that go.                                               *)

\* A load that fails leaves the screen: without "dropped", with no conflict over a dropped edit.
LEMMA LoadFailsKeeps == ASSUME IInv, LoadFails, MayAct = {} PROVE IInv'
<1>1. /\ UNCHANGED <<log, draft, prompt, conflict, dialog, save, rename, hist>>
      /\ load # None /\ load' = None /\ tab' = [tab EXCEPT !.busy = "no"]
      /\ tab.id # None /\ conflict = tab.id /\ ~tab.dirty => tab.past = None
  BY DEF LoadFails
<1>2. tab \in Tabs /\ save = None /\ dialog = None
  BY <1>1 DEF IInv, TypeOK, Fits, Busy, DialogFits
<1>3. /\ tab' \in Tabs /\ tab'.graph = tab.graph /\ tab'.saved = tab.saved /\ tab'.id = tab.id
      /\ tab'.rev = tab.rev /\ tab'.dirty = tab.dirty /\ tab'.past = tab.past /\ tab'.busy = "no"
  BY <1>1, <1>2 DEF Tabs
<1>4. TypeOK'
  BY <1>1, <1>3 DEF IInv, TypeOK, Or
<1>5. Fits'
  BY <1>1, <1>2, <1>3
     DEF IInv, Fits, Bounded, Screen, SavedStored, Busy, DraftFits, SaveFits, DialogFits,
         LoadFits, RenameFits, PromptIs, RenameAndSave, RenameAndDialog, RenameAndSaved,
         RenameAndDraft, SavedAt, Lands, Newest, Sunk, SentOf, Good, Knows, Top, At, Rev,
         Pending, Same
<1>6. Known'
  <2>1. PromptKnows' /\ ScreenKnows' /\ SaveKnown'
    BY <1>1, <1>2, <1>3
       DEF IInv, Known, PromptKnows, ScreenKnows, SaveKnown, PastKnows, Current, Lands, Newest,
           Good, Knows, Top, Rev, Pending
  <2>2. PastKnows'
    <3> SUFFICES ASSUME tab.past # None, ~tab.dirty, Current, tab.id # None, ~Pending
                 PROVE  Knows(tab.past, tab.graph.edits)
      BY <1>1, <1>2, <1>3
         DEF IInv, Fits, Screen, Known, PastKnows, Current, Pending, Knows, Newest, Rev
    <3>1. Knows(tab.past, Top(tab.id)) /\ tab.rev = Rev(tab.id)
      BY <1>1, <1>2 DEF IInv, Known, ScreenKnows, Fits, RenameFits, Sunk, Newest, Current
    <3>2. tab.graph.edits = tab.saved.edits /\ tab.saved.edits = Top(tab.id)
      <4>1. tab.id \in Graphs /\ Rev(tab.id) \in Nat
        BY <1>2 DEF Tabs, Or, IInv, TypeOK, Rev
      <4> QED
        BY <3>1, <4>1 DEF IInv, Fits, Screen, Same, SavedStored, SavedAt, Top
    <3> QED
      BY <3>1, <3>2
  <2> QED
    BY <2>1, <2>2 DEF Known
<1>7. Held'
  BY <1>1, <1>3
     DEF IInv, Held, PastKept, DraftKept, LeftKept, EditsKept, InDraft, Logged, Offered, Rev
<1> QED
  BY <1>4, <1>5, <1>6, <1>7 DEF IInv

\* What the version of the window's rev says while a rename may still count.
LEMMA BasedOnRename ==
  ASSUME IInv, rename # None, Lands(rename) \/ Newest(rename), tab.id # None
  PROVE  rename.of = tab.id /\ rename.sent.edits = log[tab.id][tab.rev]
<1>1. rename \in Renames /\ tab.id \in Graphs /\ Rev(tab.id) \in Nat /\ tab.rev \in Nat
      /\ rename.rev \in Nat
  BY DEF IInv, TypeOK, Or, Tabs, Rev, Renames, Revs
<1>2. ~Sunk(rename)
  BY <1>1 DEF Lands, Newest, Sunk, IInv, Fits, RenameFits, SentOf
<1>3. /\ rename.of = tab.id /\ rename.rev <= tab.rev /\ tab.rev <= Rev(tab.id) /\ SentOf(rename)
      /\ RenameAndSaved
  BY <1>2 DEF IInv, Fits, RenameFits, Screen
<1>4. CASE Lands(rename)
  <2>1. tab.rev = Rev(tab.id) /\ tab.saved.edits = rename.sent.edits
    BY <1>1, <1>3, <1>4 DEF Lands, RenameAndSaved
  <2> QED
    BY <1>1, <1>3, <2>1 DEF IInv, Fits, SavedStored, SavedAt
<1>5. CASE Newest(rename)
  <2>1. tab.rev \in {rename.rev, rename.got}
    BY <1>1, <1>3, <1>5 DEF Newest, SentOf
  <2> QED
    BY <1>3, <1>5, <2>1 DEF Newest, SentOf, RenameAndSaved
<1> QED
  BY <1>3, <1>4, <1>5

\* The autosave puts what is on screen in the draft of its graph, under the rev it is based on.
LEMMA AutosaveKeeps == ASSUME IInv, Autosave, MayAct = {} PROVE IInv'
<1> DEFINE d == [rev |-> tab.rev, graph |-> tab.graph]
<1>1. /\ UNCHANGED <<log, tab, prompt, conflict, dialog, save, rename, load, hist>>
      /\ tab.graph # None /\ tab.dirty /\ Based
  BY DEF Autosave, Rebase
<1>2. /\ tab \in Tabs /\ tab.id # None /\ tab.id \in Graphs /\ tab.graph \in Contents
      /\ draft \in [Graphs -> Or(Drafts)] /\ tab.rev \in 1..Rev(tab.id) /\ Rev(tab.id) \in Nat
  BY <1>1 DEF IInv, TypeOK, Or, Fits, Screen, Tabs, Rev
<1>3. draft' = [draft EXCEPT ![tab.id] = d]
  BY <1>1, <1>2 DEF Autosave, WriteDraft
<1>4. d \in Drafts /\ d.rev = tab.rev /\ d.graph = tab.graph /\ d # None
  BY <1>2, NoneAssumption DEF Drafts, Tabs
<1> HIDE DEF d
<1>5. /\ draft' \in [Graphs -> Or(Drafts)] /\ draft'[tab.id] = d
      /\ \A g \in Graphs \ {tab.id} : draft'[g] = draft[g]
  BY <1>2, <1>3, <1>4 DEF Or
<1>6. TypeOK'
  BY <1>1, <1>5 DEF IInv, TypeOK
<1>7. log[tab.id][tab.rev] \ hist.mine \subseteq tab.graph.knows
  BY <1>1, <1>2 DEF Based
<1>8. \A g \in Graphs : DraftFits(g)'
  BY <1>1, <1>2, <1>4, <1>5, <1>7 DEF IInv, Fits, Screen, DraftFits, Good, Knows, Top, Rev
<1>9. RenameFits'
  <2>1. rename # None => RenameAndDraft' \/ Sunk(rename)
    <3> SUFFICES ASSUME rename # None, ~Sunk(rename), Lands(rename) \/ Newest(rename)
                 PROVE  Knows(draft'[rename.of].graph, rename.sent.edits)
      BY <1>1 DEF RenameAndDraft, Lands, Newest, Knows, Rev
    <3> QED
      BY <1>2, <1>4, <1>5, <1>7, BasedOnRename DEF Knows
  <2> QED
    BY <1>1, <1>2, <2>1 DEF IInv, Fits, RenameFits, RenameAndSave, RenameAndDialog, RenameAndSaved,
       SavedAt, Lands, Newest, Sunk, SentOf, Good, Knows, Rev
<1>10. PromptIs' /\ LoadFits'
  <2>1. load # None /\ load.got # None /\ load.of = tab.id => tab.rev <= load.got.rev
    BY DEF IInv, Fits, LoadFits
  <2>2. load # None => load.of \in Graphs
    BY DEF IInv, TypeOK, Or, Loads
  <2> QED
    BY <1>1, <1>2, <1>4, <1>5, <2>1, <2>2
       DEF IInv, Fits, LoadFits, PromptIs, At, Good, Knows, Rev, TypeOK, Or, Prompts
<1>11. Fits'
  BY <1>1, <1>8, <1>9, <1>10
     DEF IInv, Fits, Bounded, Screen, SavedStored, Busy, SaveFits, DialogFits, SavedAt,
         Lands, Newest, Sunk, SentOf, Good, Knows, Top, At, Rev, Pending
<1>12. Known'
  BY <1>1
     DEF IInv, Known, PromptKnows, ScreenKnows, SaveKnown, PastKnows, Current, Lands, Newest,
         Good, Knows, Top, Rev, Pending
<1>13. Held'
  <2>1. \A e \in draft[tab.id].graph.edits : draft[tab.id] # None => e \in tab.graph.edits \cup hist.gone
    BY <1>1, <1>2 DEF IInv, Held, DraftKept, Fits, PromptIs, Offered
  <2>2. \A e : InDraft(e) => e \in tab.graph.edits \/ e \in hist.gone \/ InDraft(e)'
    BY <1>1, <1>2, <1>4, <1>5, <2>1 DEF InDraft
  <2>3. \A e \in tab.graph.edits : InDraft(e)'
    BY <1>2, <1>4, <1>5 DEF InDraft
  <2>4. \A e : Logged(e)' = Logged(e)
    BY <1>1 DEF Logged, Rev
  <2> HIDE DEF InDraft, Logged
  <2> QED
    BY <1>1, <1>2, <1>4, <1>5, <2>2, <2>3, <2>4
       DEF IInv, Held, PastKept, DraftKept, LeftKept, EditsKept, Offered
<1> QED
  BY <1>6, <1>11, <1>12, <1>13 DEF IInv

\* Who discards the draft on offer gives up its edits (discardDraft).
LEMMA DropDraftKeeps == ASSUME IInv, DropDraft PROVE IInv'
<1> DEFINE c == prompt.draft.graph
<1>1. /\ UNCHANGED <<log, tab, conflict, dialog, save, rename, load>>
      /\ prompt # None /\ prompt' = None /\ hist' = [hist EXCEPT !.gone = @ \cup c.edits]
      /\ \/ prompt.variant # "kept" /\ draft' = Cleared(prompt.of)
         \/ draft[prompt.of] = prompt.draft /\ draft' = Cleared(prompt.of)
         \/ draft' = draft
  BY DEF DropDraft
<1>2. prompt.of \in Graphs /\ prompt.draft \in Drafts /\ c \in Contents /\ c.edits \subseteq Edits
  BY <1>1 DEF IInv, TypeOK, Or, Prompts, Drafts, Contents
<1>3. /\ hist'.mine = hist.mine /\ hist'.gone = hist.gone \cup c.edits /\ hist'.made = hist.made
      /\ hist' \in [made: 0..MaxEdit, mine: SUBSET Edits, gone: SUBSET Edits, deaths: 0..MaxDie]
  BY <1>1, <1>2 DEF IInv, TypeOK
<1>4. /\ draft' \in [Graphs -> Or(Drafts)]
      /\ \A g \in Graphs : draft'[g] \in {draft[g], None}
      /\ \A g \in Graphs : draft[g] # None /\ draft'[g] = None => draft[g].graph = c
  BY <1>1, <1>2 DEF IInv, TypeOK, Or, Cleared, Fits, PromptIs
<1> HIDE DEF c
<1>5. TypeOK'
  BY <1>1, <1>3, <1>4 DEF IInv, TypeOK, Or
<1>6. Fits'
  <2>1. \A g \in Graphs : DraftFits(g)'
    BY <1>1, <1>3, <1>4 DEF IInv, Fits, DraftFits, Good, Knows, Top, Rev
  <2>2. LoadFits' /\ RenameFits'
    <3>1. (load # None => load.of \in Graphs) /\ (rename # None => rename.of \in Graphs)
      BY DEF IInv, TypeOK, Or, Loads, Renames
    <3> QED
      BY <1>1, <1>3, <1>4, <3>1
         DEF IInv, Fits, LoadFits, At, RenameFits, RenameAndSave, RenameAndDialog,
             RenameAndSaved, RenameAndDraft, SavedAt, Lands, Newest, Sunk, SentOf, Good, Knows,
             Rev
  <2> QED
    BY <1>1, <1>3, <2>1, <2>2
       DEF IInv, Fits, Bounded, Screen, SavedStored, Busy, DraftFits, SaveFits, DialogFits,
           LoadFits, RenameFits, PromptIs, RenameAndSave, RenameAndDialog, RenameAndSaved,
           RenameAndDraft, SavedAt, Lands, Newest, Sunk, SentOf, Good, Knows, Top, At, Rev,
           Pending
<1>7. Known'
  BY <1>1, <1>3
     DEF IInv, Known, PromptKnows, ScreenKnows, SaveKnown, PastKnows, Current, Lands, Newest,
         Good, Knows, Top, Rev, Pending
<1>8. Held'
  <2>1. \A e : InDraft(e) => InDraft(e)' \/ e \in c.edits
    BY <1>4 DEF InDraft
  <2>2. \A e : Logged(e)' = Logged(e)
    BY <1>1 DEF Logged, Rev
  <2>3. PastKept' /\ DraftKept'
    <3>1. tab.id = None \/ tab.id \in Graphs
      BY DEF IInv, TypeOK, Tabs, Or
    <3> QED
      BY <1>1, <1>3, <1>4, <3>1 DEF IInv, Held, PastKept, DraftKept, Offered, c
  <2> HIDE DEF InDraft, Logged
  <2> QED
    BY <1>1, <1>3, <2>1, <2>2, <2>3 DEF IInv, Held, LeftKept, EditsKept
<1> QED
  BY <1>5, <1>6, <1>7, <1>8 DEF IInv

-----------------------------------------------------------------------------
(* Commits.                                                                *)

\* What a commit leaves in the store.
LEMMA CommitIs ==
  ASSUME TypeOK, NEW c \in Contents, NEW p \in Contents, NEW step \in {"edit", "restore"}, NEW t,
         t = Committed(c, step, p)
  PROVE  /\ t \in Tabs /\ t.graph = c /\ t.past = p /\ t.id = tab.id /\ t.rev = tab.rev
         /\ t.saved = tab.saved /\ t.busy = tab.busy /\ (t.dirty <=> ~Same(c, tab.saved))
<1> DEFINE b == ~Same(c, tab.saved)
<1>1. t = [tab EXCEPT !.graph = c, !.past = p, !.step = step, !.redo = FALSE, !.dirty = b]
  BY DEF Committed
<1>2. tab \in Tabs
  BY DEF TypeOK
<1>3. b \in BOOLEAN
  BY Zenon DEF Same
<1> HIDE DEF b
<1>4. /\ t.graph = c /\ t.past = p /\ t.id = tab.id /\ t.rev = tab.rev
      /\ t.saved = tab.saved /\ t.busy = tab.busy /\ t.dirty = b
  BY <1>1, <1>2, <1>3 DEF Tabs
<1>5. t \in Tabs
  BY <1>1, <1>2, <1>3 DEF Tabs, Or
<1> QED
  BY <1>4, <1>5 DEF b

\* The draft prompt after an edit, an undo or a restore.
LEMMA KeptIs ==
  ASSUME TypeOK
  PROVE  /\ Kept \in Or(Prompts) /\ (Kept = None <=> prompt = None)
         /\ prompt # None => Kept.of = prompt.of /\ Kept.draft = prompt.draft /\ Kept.variant = "kept"
<1>1. CASE prompt = None
  BY <1>1 DEF Kept, Or
<1>2. CASE prompt # None
  BY <1>2, NoneAssumption DEF Kept, Or, TypeOK, Prompts
<1> QED
  BY <1>1, <1>2

\* An edit under a load makes the load late.
LEMMA LateIs ==
  ASSUME TypeOK
  PROVE  /\ Late \in Or(Loads) /\ (Late = None <=> load = None)
         /\ load # None => Late.of = load.of /\ Late.got = load.got /\ Late.late
<1>1. CASE load = None
  BY <1>1 DEF Late, Or
<1>2. CASE load # None
  BY <1>2, NoneAssumption DEF Late, Or, TypeOK, Loads
<1> QED
  BY <1>1, <1>2

\* What the prompt offers are edits.
LEMMA OfferedType == ASSUME TypeOK PROVE Offered \subseteq Edits
  BY DEF TypeOK, Or, Prompts, Drafts, Contents, Offered

\* An edit is new, is the window's own, and makes a load under way come late.
LEMMA EditKeeps == ASSUME IInv, Edit PROVE IInv'
<1> DEFINE e == hist.made + 1
           c == [tab.graph EXCEPT !.edits = @ \cup {e}]
<1>1. /\ UNCHANGED <<log, draft, conflict, dialog, save, rename>> /\ dialog = None
      /\ tab.graph # None /\ hist.made < MaxEdit /\ tab' = Committed(c, "edit", tab.graph)
      /\ prompt' = Kept /\ load' = Late
      /\ hist' = [hist EXCEPT !.made = e, !.mine = @ \cup {e}, !.gone = @ \cup Offered]
  BY DEF Edit, Free
<1>2. /\ tab.graph \in Contents /\ tab.id # None /\ tab.id \in Graphs /\ e \in Edits /\ TypeOK
      /\ e \in 0..MaxEdit
  BY <1>1, BoundAssumption DEF IInv, TypeOK, Or, Tabs, Fits, Screen, Edits
<1>3. c \in Contents /\ c.of = tab.graph.of /\ c.edits = tab.graph.edits \cup {e}
      /\ c.knows = tab.graph.knows /\ c # None
  BY <1>2, NoneAssumption DEF Contents
<1>4. /\ hist'.mine = hist.mine \cup {e} /\ hist'.gone = hist.gone \cup Offered
      /\ hist' \in [made: 0..MaxEdit, mine: SUBSET Edits, gone: SUBSET Edits, deaths: 0..MaxDie]
  BY <1>1, <1>2, OfferedType DEF TypeOK
<1> HIDE DEF e, c
<1>5. /\ tab' \in Tabs /\ tab'.graph = c /\ tab'.past = tab.graph /\ tab'.id = tab.id /\ tab'.rev = tab.rev
      /\ tab'.saved = tab.saved /\ tab'.busy = tab.busy /\ (tab'.dirty <=> ~Same(c, tab.saved))
  BY <1>1, <1>2, <1>3, CommitIs
<1>6. /\ prompt' \in Or(Prompts) /\ (prompt' = None <=> prompt = None)
      /\ prompt # None => prompt'.of = prompt.of /\ prompt'.draft = prompt.draft /\ prompt'.variant = "kept"
      /\ load' \in Or(Loads) /\ (load' = None <=> load = None)
      /\ load # None => load'.of = load.of /\ load'.got = load.got /\ load'.late
  BY <1>1, <1>2, KeptIs, LateIs
<1>7. TypeOK'
  BY <1>1, <1>4, <1>5, <1>6 DEF IInv, TypeOK
<1>8. Fits'
  <2>1. Screen'
    BY <1>1, <1>2, <1>3, <1>4, <1>5 DEF IInv, Fits, Screen, Good, Knows, Rev, Same
  <2>4. SavedStored' /\ Busy' /\ Bounded'
    BY <1>1, <1>2, <1>5, <1>6 DEF IInv, Fits, SavedStored, SavedAt, Busy, Bounded, Rev
  <2>5. LoadFits' /\ DialogFits'
    BY <1>1, <1>2, <1>5, <1>6 DEF IInv, Fits, LoadFits, DialogFits, At, Pending, Rev
  <2>6. SaveFits'
    BY <1>1, <1>2, <1>4, <1>5 DEF IInv, Fits, SaveFits, SentOf, Sunk, Lands, Good, Knows, Top, Rev
  <2>7. \A g \in Graphs : DraftFits(g)'
    BY <1>1, <1>4 DEF IInv, Fits, DraftFits, Good, Knows, Top, Rev
  <2>2. RenameFits'
    BY <1>1, <1>2, <1>3, <1>4, <1>5, <1>6
       DEF IInv, Fits, RenameFits, RenameAndSave, RenameAndDialog, RenameAndSaved,
           RenameAndDraft, SavedAt, Lands, Newest, Sunk, SentOf, Good, Knows, Rev
  <2>3. PromptIs'
    BY <1>1, <1>2, <1>3, <1>4, <1>5, <1>6 DEF IInv, Fits, PromptIs, Offered, Good, Knows, Rev
  <2> QED
    BY <2>1, <2>2, <2>3, <2>4, <2>5, <2>6, <2>7 DEF Fits
<1>9. Known'
  <2>1. Good(tab.graph, tab.id)
    BY <1>2 DEF IInv, Fits, Screen
  <2>2. Current' <=> Current
    BY <1>1, <1>5 DEF Current, Newest, Lands, Rev
  <2>3. ScreenKnows' /\ SaveKnown' /\ PastKnows'
    BY <1>1, <1>2, <1>3, <1>4, <1>5, <2>1, <2>2
       DEF IInv, Known, ScreenKnows, SaveKnown, PastKnows, Lands,
       Good, Knows, Top, Rev, Pending
  <2>4. PromptKnows'
    BY <1>1, <1>2, <1>3, <1>4, <1>5, <1>6, <2>2 DEF IInv, Known, PromptKnows, Knows, Lands, Top, Rev
  <2> QED
    BY <2>3, <2>4 DEF Known
<1>10. Held'
  <2>1. \A x : (InDraft(x)' = InDraft(x)) /\ (Logged(x)' = Logged(x))
    BY <1>1 DEF InDraft, Logged, Rev
  <2> HIDE DEF InDraft, Logged
  <2> QED
    BY <1>1, <1>2, <1>3, <1>4, <1>5, <1>6, <2>1
       DEF IInv, Held, PastKept, DraftKept, LeftKept, EditsKept, Offered
<1> QED
  BY <1>7, <1>8, <1>9, <1>10 DEF IInv

\* A draft that goes where the window stays.
LEMMA CleanedIs ==
  ASSUME TypeOK, NEW t, t.id = tab.id, NEW d, d = Cleaned(draft, t)
  PROVE  /\ d \in [Graphs -> Or(Drafts)]
         /\ \A g \in Graphs : d[g] = draft[g] \/ (d[g] = None /\ g = tab.id)
<1>1. draft \in [Graphs -> Or(Drafts)]
  BY DEF TypeOK
<1> QED
  BY <1>1 DEF Cleaned, Or

\* The draft of one graph is deleted, and no other.
LEMMA ClearedIs ==
  ASSUME TypeOK, NEW g, NEW d, d = Cleared(g)
  PROVE  /\ d \in [Graphs -> Or(Drafts)]
         /\ g \in Graphs => d[g] = None
         /\ \A h \in Graphs : h # g => d[h] = draft[h]
<1>1. draft \in [Graphs -> Or(Drafts)]
  BY DEF TypeOK
<1> QED
  BY <1>1 DEF Cleared, Or

\* Undo brings back a content that knew as much, and gives up what is on screen alone.
LEMMA UndoKeeps == ASSUME IInv, Undo PROVE IInv'
<1>1. /\ UNCHANGED <<log, conflict, dialog, save, rename>> /\ dialog = None /\ tab.past # None
      /\ tab' = [tab EXCEPT !.graph = tab.past, !.past = None, !.step = "edit",
                            !.redo = tab.step = "restore", !.dirty = ~Same(tab.past, tab.saved)]
      /\ draft' = Cleaned(draft, tab') /\ prompt' = Kept /\ load' = Late
      /\ hist' = [hist EXCEPT !.gone = @ \cup (tab.graph.edits \ tab.past.edits) \cup Offered]
  BY DEF Undo, Free
<1>2. /\ tab \in Tabs /\ tab.id # None /\ tab.id \in Graphs /\ TypeOK
      /\ tab.graph \in Contents /\ tab.past \in Contents
  BY <1>1 DEF IInv, TypeOK, Or, Tabs, Fits, Screen
<1>3. /\ tab' \in Tabs /\ tab'.graph = tab.past /\ tab'.past = None /\ tab'.id = tab.id /\ tab'.rev = tab.rev
      /\ tab'.saved = tab.saved /\ tab'.busy = tab.busy /\ (tab'.dirty <=> ~Same(tab.past, tab.saved))
  <2>1. (~Same(tab.past, tab.saved)) \in BOOLEAN /\ (tab.step = "restore") \in BOOLEAN
    BY Zenon DEF Same
  <2> DEFINE b == ~Same(tab.past, tab.saved)
             r == tab.step = "restore"
  <2> HIDE DEF b, r
  <2> QED
    BY <1>1, <1>2, <2>1 DEF Tabs, Or, b, r
<1>4. /\ hist'.mine = hist.mine /\ hist'.gone = hist.gone \cup (tab.graph.edits \ tab.past.edits) \cup Offered
      /\ hist' \in [made: 0..MaxEdit, mine: SUBSET Edits, gone: SUBSET Edits, deaths: 0..MaxDie]
  BY <1>1, <1>2, OfferedType DEF TypeOK, Contents
<1>5. /\ draft' \in [Graphs -> Or(Drafts)]
      /\ \A g \in Graphs : draft'[g] = draft[g] \/ (draft'[g] = None /\ g = tab.id)
  <2> DEFINE t == tab'
             d == draft'
  <2>1. t.id = tab.id /\ d = Cleaned(draft, t)
    BY <1>1, <1>3
  <2> HIDE DEF t, d
  <2>2. /\ d \in [Graphs -> Or(Drafts)]
        /\ \A g \in Graphs : d[g] = draft[g] \/ (d[g] = None /\ g = tab.id)
    BY <1>2, <2>1, CleanedIs
  <2> QED
    BY <2>2 DEF d
<1>6. /\ prompt' \in Or(Prompts) /\ (prompt' = None <=> prompt = None)
      /\ prompt # None => prompt'.of = prompt.of /\ prompt'.draft = prompt.draft /\ prompt'.variant = "kept"
      /\ load' \in Or(Loads) /\ (load' = None <=> load = None)
      /\ load # None => load'.of = load.of /\ load'.got = load.got /\ load'.late
  BY <1>1, <1>2, KeptIs, LateIs
<1>7. TypeOK'
  BY <1>1, <1>3, <1>4, <1>5, <1>6 DEF IInv, TypeOK
<1>8. Fits'
  <2>1. Screen'
    BY <1>1, <1>2, <1>3, <1>4 DEF IInv, Fits, Screen, Good, Knows, Rev, Same
  <2>2. SavedStored' /\ Busy' /\ Bounded'
    BY <1>1, <1>2, <1>3, <1>6 DEF IInv, Fits, SavedStored, SavedAt, Busy, Bounded, Rev
  <2>3. LoadFits' /\ DialogFits'
    <3>1. load # None => load.of \in Graphs
      BY DEF IInv, TypeOK, Or, Loads
    <3> QED
      BY <1>1, <1>2, <1>3, <1>5, <1>6, <3>1 DEF IInv, Fits, LoadFits, DialogFits, At, Pending, Rev
  <2>4. SaveFits'
    BY <1>1, <1>2, <1>3, <1>4 DEF IInv, Fits, SaveFits, SentOf, Sunk, Lands, Good, Knows, Top, Rev
  <2>5. \A g \in Graphs : DraftFits(g)'
    BY <1>1, <1>4, <1>5 DEF IInv, Fits, DraftFits, Good, Knows, Top, Rev
  <2>6. RenameFits'
    <3>1. rename # None => rename.of \in Graphs
      BY DEF IInv, TypeOK, Or, Renames
    <3> QED
      BY <1>1, <1>2, <1>3, <1>4, <1>5, <1>6, <3>1
         DEF IInv, Fits, RenameFits, RenameAndSave, RenameAndDialog, RenameAndSaved,
             RenameAndDraft, SavedAt, Lands, Newest, Sunk, SentOf, Good, Knows, Rev
  <2>7. PromptIs'
    BY <1>1, <1>2, <1>3, <1>4, <1>6 DEF IInv, Fits, PromptIs, Offered, Good, Knows, Rev
  <2> QED
    BY <2>1, <2>2, <2>3, <2>4, <2>5, <2>6, <2>7 DEF Fits
<1>9. Known'
  <2>2. Current' <=> Current
    BY <1>1, <1>3 DEF Current, Newest, Lands, Rev
  <2>3. ScreenKnows' /\ SaveKnown' /\ PastKnows'
    BY <1>1, <1>2, <1>3, <1>4, <2>2 DEF IInv, Known, ScreenKnows, SaveKnown, PastKnows, Lands,
       Good, Knows, Top, Rev, Pending
  <2>4. PromptKnows'
    BY <1>1, <1>2, <1>3, <1>4, <1>6, <2>2 DEF IInv, Known, PromptKnows, Knows, Lands, Top, Rev
  <2> QED
    BY <2>3, <2>4 DEF Known
<1>10. Held'
  <2>1. \A x : Logged(x)' = Logged(x)
    BY <1>1 DEF Logged, Rev
  <2>2. \A x : InDraft(x) => InDraft(x)' \/ (draft[tab.id] # None /\ x \in draft[tab.id].graph.edits)
    BY <1>2, <1>5 DEF InDraft
  <2> HIDE DEF InDraft, Logged
  <2> QED
    BY <1>1, <1>2, <1>3, <1>4, <1>5, <1>6, <2>1, <2>2
       DEF IInv, Held, PastKept, DraftKept, LeftKept, EditsKept, Offered
<1> QED
  BY <1>7, <1>8, <1>9, <1>10 DEF IInv

\* A restored draft is older work on screen: if the graph moved on, a conflict is pending.
LEMMA RestoreDraftKeeps == ASSUME IInv, RestoreDraft, MayAct = {} PROVE IInv'
<1> DEFINE d == prompt.draft.graph
           p == [tab.graph EXCEPT !.knows = @ \cup d.knows]
<1>1. /\ UNCHANGED <<log, draft, dialog, save, rename>> /\ dialog = None
      /\ prompt # None /\ tab.id = prompt.of /\ tab.graph # None
      /\ prompt.variant = "kept" => ~(prompt.draft.rev < tab.rev)
      /\ tab' = Committed(d, "restore", p)
      /\ conflict' = IF prompt.variant = "moved" THEN prompt.of ELSE conflict
      /\ prompt' = None /\ load' = Late
      /\ hist' = [hist EXCEPT !.gone = (@ \ d.edits) \cup (tab.graph.edits \ d.edits)]
  BY DEF RestoreDraft, Free
<1>2. /\ tab.graph \in Contents /\ tab.id # None /\ tab.id \in Graphs /\ TypeOK /\ d \in Contents /\ d # None
      /\ d.edits \subseteq Edits /\ tab.graph.edits \subseteq Edits
  BY <1>1, NoneAssumption DEF IInv, TypeOK, Or, Tabs, Fits, Screen, Prompts, Drafts, Contents
<1>3. /\ p \in Contents /\ p.of = tab.graph.of /\ p.edits = tab.graph.edits
      /\ p.knows = tab.graph.knows \cup d.knows /\ p # None
  BY <1>2, NoneAssumption DEF Contents
<1>4. /\ hist'.mine = hist.mine /\ hist'.gone = (hist.gone \ d.edits) \cup (tab.graph.edits \ d.edits)
      /\ hist' \in [made: 0..MaxEdit, mine: SUBSET Edits, gone: SUBSET Edits, deaths: 0..MaxDie]
  BY <1>1, <1>2 DEF TypeOK
<1>5. Good(d, tab.id) /\ Good(tab.graph, tab.id)
  BY <1>1, <1>2 DEF IInv, Fits, PromptIs, Screen
<1> HIDE DEF p
<1>6. /\ tab' \in Tabs /\ tab'.graph = d /\ tab'.past = p /\ tab'.id = tab.id /\ tab'.rev = tab.rev
      /\ tab'.saved = tab.saved /\ tab'.busy = tab.busy /\ (tab'.dirty <=> ~Same(d, tab.saved))
  BY <1>1, <1>2, <1>3, CommitIs
<1>7. /\ load' \in Or(Loads) /\ (load' = None <=> load = None)
      /\ load # None => load'.of = load.of /\ load'.got = load.got /\ load'.late
      /\ conflict' \in Or(Graphs)
      /\ prompt.variant = "moved" => conflict' = tab.id /\ save = None
      /\ prompt.variant # "moved" => conflict' = conflict
  BY <1>1, <1>2, LateIs DEF TypeOK, Or, IInv, Fits, PromptIs
<1>8. TypeOK'
  BY <1>1, <1>2, <1>4, <1>6, <1>7 DEF TypeOK, Or
<1>9. Fits'
  <2>1. Screen'
    BY <1>1, <1>2, <1>3, <1>4, <1>5, <1>6 DEF IInv, Fits, Screen, Good, Knows, Rev, Same
  <2>2. SavedStored' /\ Busy' /\ Bounded' /\ PromptIs'
    BY <1>1, <1>2, <1>6, <1>7 DEF IInv, Fits, SavedStored, SavedAt, Busy, Bounded, PromptIs, Rev
  <2>3. LoadFits' /\ DialogFits'
    BY <1>1, <1>2, <1>6, <1>7 DEF IInv, Fits, LoadFits, DialogFits, At, Pending, Rev
  <2>4. SaveFits'
    BY <1>1, <1>2, <1>4, <1>6, <1>7
       DEF IInv, Fits, SaveFits, SentOf, Sunk, Lands, Good, Knows, Top, Rev
  <2>5. \A g \in Graphs : DraftFits(g)'
    BY <1>1, <1>4 DEF IInv, Fits, DraftFits, Good, Knows, Top, Rev
  <2>6. RenameFits'
    BY <1>1, <1>2, <1>4, <1>6, <1>7
       DEF IInv, Fits, RenameFits, RenameAndSave, RenameAndDialog, RenameAndSaved,
           RenameAndDraft, SavedAt, Lands, Newest, Sunk, SentOf, Good, Knows, Rev
  <2> QED
    BY <2>1, <2>2, <2>3, <2>4, <2>5, <2>6 DEF Fits
<1>10. Known'
  <2>1. prompt.variant # "moved" => prompt.draft.rev = tab.rev \/ prompt.variant = "same"
    BY <1>1, <1>2 DEF IInv, Fits, PromptIs, Screen, TypeOK, Or, Prompts, Drafts, Revs, Rev
  <2>2. Current' <=> Current
    BY <1>1, <1>6 DEF Current, Newest, Lands, Rev
  <2>3. SaveKnown'
    <3> SUFFICES ASSUME save # None, Lands(save) PROVE SaveKnown'
      BY <1>1 DEF SaveKnown, Lands, Rev
    <3>1. Current /\ prompt.variant = "kept" /\ prompt.draft.rev = tab.rev
      BY <1>1, <2>1 DEF IInv, Fits, PromptIs, Current
    <3>2. Knows(d, save.sent.edits)
      BY <1>1, <3>1 DEF IInv, Known, PromptKnows
    <3> QED
      BY <1>1, <1>3, <1>4, <1>6, <3>2 DEF SaveKnown, Knows
  <2>4. ScreenKnows'
    <3> SUFFICES ASSUME Current, ~Pending' PROVE Knows(d, Top(tab.id))
      BY <1>1, <1>3, <1>4, <1>6, <2>2 DEF ScreenKnows, Knows, Top, Rev
    <3>1. prompt.variant # "moved"
      BY <1>1, <1>2, <1>6, <1>7 DEF Pending
    <3> QED
      BY <1>1, <2>1, <3>1 DEF IInv, Known, PromptKnows
  <2>5. PastKnows' /\ PromptKnows'
    <3>1. Knows(p, tab.graph.edits) /\ Knows(p, d.edits)
      BY <1>3, <1>5 DEF Good, Knows
    <3>2. PastKnows'
      BY <1>4, <1>6, <3>1 DEF PastKnows, Knows
    <3>3. PromptKnows'
      BY <1>1 DEF PromptKnows
    <3> QED
      BY <3>2, <3>3
  <2> QED
    BY <2>3, <2>4, <2>5 DEF Known
<1>11. Held'
  <2>1. \A x : (InDraft(x)' = InDraft(x)) /\ (Logged(x)' = Logged(x))
    BY <1>1 DEF InDraft, Logged, Rev
  <2> HIDE DEF InDraft, Logged
  <2> QED
    BY <1>1, <1>2, <1>3, <1>4, <1>6, <1>7, <2>1
       DEF IInv, Held, PastKept, DraftKept, LeftKept, EditsKept, Offered
<1> QED
  BY <1>8, <1>9, <1>10, <1>11 DEF IInv

\* "Reload theirs" puts the other version on screen and gives the window's edits up.
LEMMA ReloadTheirsKeeps == ASSUME IInv, ReloadTheirs PROVE IInv'
<1> DEFINE g == dialog.of
           v == dialog.got
           c == Fresh(g, v.edits)
           p == [tab.graph EXCEPT !.knows = @ \cup v.edits]
<1>1. /\ UNCHANGED <<log, save, rename>> /\ dialog # None /\ v # None /\ tab.id = g
      /\ tab' = [Committed(c, "edit", p) EXCEPT !.saved = c, !.rev = v.rev, !.dirty = FALSE]
      /\ draft' = Cleared(g) /\ prompt' = Kept /\ load' = Late /\ conflict' = None /\ dialog' = None
      /\ hist' = [hist EXCEPT !.gone = @ \cup (tab.graph.edits \ v.edits) \cup Offered]
  BY DEF ReloadTheirs, Shown
<1>2. /\ tab.graph \in Contents /\ tab.id # None /\ g \in Graphs /\ TypeOK /\ v \in Versions
      /\ save = None /\ load = None /\ At(g, v) /\ Good(tab.graph, g) /\ tab.busy = "no"
  BY <1>1 DEF IInv, TypeOK, Or, Tabs, Fits, Screen, Dialogs, DialogFits, Pending, Busy
<1>3. /\ c \in Contents /\ c.of = g /\ c.edits = v.edits /\ c.knows = v.edits /\ c # None
      /\ p \in Contents /\ p.of = g /\ p.edits = tab.graph.edits /\ p.knows = tab.graph.knows \cup v.edits
      /\ p # None
  BY <1>2, NoneAssumption DEF Contents, Fresh, Versions, Good
<1>4. /\ hist'.mine = hist.mine /\ hist'.gone = hist.gone \cup (tab.graph.edits \ v.edits) \cup Offered
      /\ hist' \in [made: 0..MaxEdit, mine: SUBSET Edits, gone: SUBSET Edits, deaths: 0..MaxDie]
  BY <1>1, <1>2, OfferedType DEF TypeOK, Contents
<1> HIDE DEF c, p
<1>5. /\ tab' \in Tabs /\ tab'.graph = c /\ tab'.past = p /\ tab'.id = tab.id /\ tab'.rev = v.rev
      /\ tab'.saved = c /\ tab'.busy = tab.busy /\ ~tab'.dirty
  <2> DEFINE t == Committed(c, "edit", p)
  <2>1. t \in Tabs /\ t.graph = c /\ t.past = p /\ t.id = tab.id /\ t.busy = tab.busy
    BY <1>2, <1>3, CommitIs
  <2> HIDE DEF t
  <2>2. tab' = [t EXCEPT !.saved = c, !.rev = v.rev, !.dirty = FALSE]
    BY <1>1 DEF t
  <2> QED
    BY <1>2, <1>3, <2>1, <2>2 DEF Tabs, Or, Versions
<1>6. /\ prompt' \in Or(Prompts) /\ (prompt' = None <=> prompt = None)
      /\ prompt # None => prompt'.of = prompt.of /\ prompt'.draft = prompt.draft /\ prompt'.variant = "kept"
      /\ load' = None
  BY <1>1, <1>2, KeptIs, LateIs
<1>7. draft' \in [Graphs -> Or(Drafts)] /\ draft'[g] = None /\ \A h \in Graphs : h # g => draft'[h] = draft[h]
  BY <1>1, <1>2, ClearedIs
<1>8. TypeOK'
  BY <1>1, <1>4, <1>5, <1>6, <1>7 DEF IInv, TypeOK, Or
<1>9. v.rev \in 1..Rev(g) /\ log[g][v.rev] = v.edits /\ Rev(g) \in Nat /\ tab.rev \in 1..Rev(g)
  BY <1>1, <1>2 DEF At, Rev, TypeOK, IInv, Fits, Screen
<1>10. rename # None /\ ~Sunk(rename) =>
         /\ rename.rev <= v.rev /\ rename.of = g /\ rename.rev \in Nat /\ rename.got \in Nat
         /\ rename.answer = "ok" => rename.got <= v.rev \/ v.edits = rename.sent.edits
         /\ Lands(rename) => v.edits = rename.sent.edits
         /\ Newest(rename) => Top(g) = v.edits /\ v.rev >= rename.rev /\ v.rev >= tab.rev
  <2> SUFFICES ASSUME rename # None, ~Sunk(rename)
               PROVE  /\ rename.rev <= v.rev /\ rename.of = g /\ rename.rev \in Nat /\ rename.got \in Nat
                      /\ rename.answer = "ok" => rename.got <= v.rev \/ v.edits = rename.sent.edits
                      /\ Lands(rename) => v.edits = rename.sent.edits
                      /\ Newest(rename) => Top(g) = v.edits /\ v.rev >= rename.rev /\ v.rev >= tab.rev
    OBVIOUS
  <2>1. /\ rename \in Renames /\ rename.of = g /\ SentOf(rename) /\ RenameAndDialog /\ RenameAndSaved
        /\ rename.rev \in Nat /\ rename.got \in Nat
    BY <1>1 DEF IInv, TypeOK, Or, Renames, Revs, Fits, RenameFits
  <2>2. CASE Lands(rename)
    <3>1. v.rev = Rev(g) /\ tab.rev = Rev(g)
      BY <1>1, <1>9, <2>1, <2>2 DEF Lands, RenameAndDialog, IInv, Fits, RenameFits, Sunk
    <3> QED
      BY <1>1, <1>2, <1>9, <2>1, <2>2, <3>1, BasedOnRename DEF RenameAndDialog, Lands, Newest
  <2>3. CASE ~Lands(rename)
    BY <1>1, <1>9, <2>1, <2>3 DEF RenameAndDialog, RenameAndSaved, Newest, SentOf, Top
  <2> QED
    BY <2>2, <2>3
<1>11. Fits'
  <2>1. Screen' /\ Bounded' /\ Busy' /\ SavedStored'
    BY <1>1, <1>2, <1>3, <1>4, <1>5, <1>6, <1>9
       DEF IInv, Fits, Screen, Bounded, Busy, SavedStored, SavedAt, Good, Knows, Rev, Same
  <2>2. LoadFits' /\ DialogFits' /\ SaveFits'
    BY <1>1, <1>2, <1>6 DEF LoadFits, DialogFits, SaveFits
  <2>3. \A h \in Graphs : DraftFits(h)'
    BY <1>1, <1>4, <1>7 DEF IInv, Fits, DraftFits, Good, Knows, Top, Rev
  <2>4. RenameFits'
    <3> SUFFICES ASSUME rename # None PROVE RenameFits'
      BY <1>1 DEF RenameFits
    <3>1. SentOf(rename)' /\ (Sunk(rename)' <=> Sunk(rename))
      BY <1>1, <1>4 DEF IInv, Fits, RenameFits, SentOf, Good, Knows, Sunk, Rev
    <3>2. CASE ~Sunk(rename)
      <4>1. RenameAndSaved'
        <5>1. rename.answer = "ok" => rename.got \in 1..Rev(g) /\ log[g][rename.got] = rename.sent.edits
          BY <1>10, <3>2 DEF IInv, Fits, RenameFits, SentOf
        <5>2. Newest(rename) => log[rename.of][rename.rev] = rename.sent.edits
          BY <3>2 DEF IInv, Fits, RenameFits, RenameAndSaved
        <5> QED
          BY <1>1, <1>3, <1>5, <1>9, <1>10, <3>2, <5>1, <5>2
             DEF RenameAndSaved, SavedAt, Lands, Newest, Rev
      <4>2. RenameAndDraft' /\ RenameAndSave' /\ RenameAndDialog'
        BY <1>1, <1>2, <1>7, <1>10, <3>2 DEF RenameAndDraft, RenameAndSave, RenameAndDialog
      <4>3. prompt' # None /\ prompt'.of = tab'.id => prompt'.draft.rev <= rename.rev
        BY <1>5, <1>6, <3>2 DEF IInv, Fits, RenameFits
      <4> QED
        BY <1>1, <1>5, <1>6, <1>10, <3>1, <3>2, <4>1, <4>2, <4>3 DEF RenameFits
    <3> QED
      BY <1>1, <3>1, <3>2 DEF RenameFits
  <2>5. PromptIs'
    BY <1>1, <1>2, <1>4, <1>5, <1>6, <1>7 DEF IInv, Fits, PromptIs, Offered, Good, Knows, Rev
  <2> QED
    BY <2>1, <2>2, <2>3, <2>4, <2>5 DEF Fits
<1>12. Current' => Top(g) = v.edits
  <2>1. rename # None /\ Newest(rename) => ~Sunk(rename)
    BY DEF Newest, Sunk
  <2> QED
    BY <1>1, <1>2, <1>5, <1>9, <1>10, <2>1 DEF Current, Newest, Top, Rev
<1>13. Known'
  <2>1. ScreenKnows' /\ SaveKnown' /\ PastKnows'
    BY <1>1, <1>2, <1>3, <1>4, <1>5, <1>12 DEF ScreenKnows, SaveKnown, PastKnows, Knows, Top, Rev
  <2>2. PromptKnows'
    <3> SUFFICES ASSUME prompt # None, prompt.of = g, Current', prompt.draft.rev = v.rev
                 PROVE  Knows(prompt.draft.graph, v.edits) /\ Knows(prompt.draft.graph, tab.graph.edits)
      BY <1>1, <1>2, <1>3, <1>4, <1>5, <1>6, <1>12 DEF PromptKnows, Knows, Top, Rev
    <3>1. prompt.draft.rev <= tab.rev
      BY <1>1 DEF IInv, Fits, PromptIs
    <3>2. rename # None /\ Newest(rename) => ~Sunk(rename)
      BY DEF Newest, Sunk
    <3>3. Current /\ prompt.draft.rev = tab.rev
      BY <1>1, <1>2, <1>5, <1>9, <1>10, <3>1, <3>2 DEF Current, Newest, Rev
    <3> QED
      BY <1>1, <1>12, <3>3 DEF IInv, Known, PromptKnows
  <2> QED
    BY <2>1, <2>2 DEF Known
<1>14. Held'
  <2>1. \A x : Logged(x)' = Logged(x)
    BY <1>1 DEF Logged, Rev
  <2>2. \A x : InDraft(x) => InDraft(x)' \/ (draft[g] # None /\ x \in draft[g].graph.edits)
    BY <1>2, <1>7 DEF InDraft
  <2> HIDE DEF InDraft, Logged
  <2> QED
    BY <1>1, <1>2, <1>3, <1>4, <1>5, <1>6, <1>7, <2>1, <2>2
       DEF IInv, Held, PastKept, DraftKept, LeftKept, EditsKept, Offered
<1> QED
  BY <1>8, <1>11, <1>13, <1>14 DEF IInv

-----------------------------------------------------------------------------
(* Requests that start.                                                    *)

\* A 409 keeps the edits on screen and opens the dialog.
LEMMA SaveRefusedKeeps == ASSUME IInv, SaveRefused PROVE IInv'
<1>1. save # None /\ tab.id = save.of
  BY DEF SaveRefused, IInv, Fits, SaveFits
<1> QED
  BY <1>1, AnswerIsNo DEF SaveRefused

\* A save whose answer is lost leaves the window where it was.
LEMMA SaveFailedKeeps == ASSUME IInv, SaveFailed PROVE IInv'
  BY AnswerIsNo DEF SaveFailed

\* A load that starts has read nothing yet and is not late.
LEMMA StartLoadIs ==
  ASSUME NEW g \in Graphs
  PROVE  /\ StartLoad(g) \in Loads /\ StartLoad(g) # None
         /\ StartLoad(g).of = g /\ ~StartLoad(g).late /\ StartLoad(g).got = None
<1>1. StartLoad(g) \in Loads
  BY DEF StartLoad, Loads, Or
<1> QED
  BY <1>1, NoneAssumption DEF StartLoad

\* What is shown as saved is in the log.
LEMMA SavedLogged == ASSUME IInv, tab.id # None PROVE \A e \in tab.saved.edits : Logged(e)
<1>1. tab.id \in Graphs
  BY DEF IInv, TypeOK, Tabs, Or
<1>2. SavedAt(tab.rev)
  BY DEF IInv, Fits, SavedStored
<1> QED
  BY <1>1, <1>2 DEF SavedAt, Logged

\* At the newest rev, what is shown as saved is the newest version.
LEMMA SavedIsTop == ASSUME IInv, tab.id # None, tab.rev = Rev(tab.id) PROVE tab.saved.edits = Top(tab.id)
<1>1. tab.id \in Graphs /\ Rev(tab.id) \in Nat
  BY DEF IInv, TypeOK, Tabs, Or, Rev
<1>2. SavedAt(tab.rev)
  BY DEF IInv, Fits, SavedStored
<1> QED
  BY <1>1, <1>2 DEF SavedAt, Top

\* Another graph is opened from a screen that is saved.
LEMMA OpenKeeps == ASSUME IInv, MayAct = {}, NEW g \in Graphs, Open(g) PROVE IInv'
<1>1. /\ UNCHANGED <<log, draft, prompt, conflict, dialog, save, rename, hist>>
      /\ dialog = None /\ save = None /\ rename = None /\ log[g] # <<>> /\ ~tab.dirty
      /\ load' = StartLoad(g) /\ tab' = [tab EXCEPT !.busy = "loading"]
  BY DEF Open, Free, Quiet
<1>2. /\ load' \in Loads /\ load' # None /\ load'.of = g /\ ~load'.late /\ load'.got = None
  BY <1>1, StartLoadIs
<1>3. /\ tab' \in Tabs /\ tab'.graph = tab.graph /\ tab'.saved = tab.saved /\ tab'.id = tab.id
      /\ tab'.rev = tab.rev /\ tab'.dirty = tab.dirty /\ tab'.past = tab.past /\ tab'.busy = "loading"
  BY <1>1 DEF IInv, TypeOK, Tabs
<1>4. TypeOK'
  BY <1>1, <1>2, <1>3 DEF IInv, TypeOK, Or
<1>5. Fits'
  <2>1. Rev(g) >= 1
    BY <1>1 DEF IInv, TypeOK, Rev
  <2> QED
    BY <1>1, <1>2, <1>3, <2>1
       DEF IInv, Fits, Bounded, Screen, SavedStored, Busy, DraftFits, SaveFits, DialogFits,
           LoadFits, RenameFits, PromptIs, RenameAndSave, RenameAndDialog, RenameAndSaved,
           RenameAndDraft, SavedAt, Lands, Newest, Sunk, SentOf, Good, Knows, Top, At, Rev,
           Pending, Same
<1>6. Known'
  BY <1>1, <1>2, <1>3
     DEF IInv, Known, PromptKnows, ScreenKnows, SaveKnown, PastKnows, Current, Lands, Newest,
         Good, Knows, Top, Rev, Pending
<1>7. Held'
  <2>1. \A x : (InDraft(x)' = InDraft(x)) /\ (Logged(x)' = Logged(x))
    BY <1>1 DEF InDraft, Logged, Rev
  <2>2. tab.graph # None => \A x \in tab.graph.edits : Logged(x)
    BY <1>1, SavedLogged DEF IInv, Fits, Screen, Same
  <2> HIDE DEF InDraft, Logged
  <2> QED
    BY <1>1, <1>2, <1>3, <2>1, <2>2
       DEF IInv, Held, PastKept, DraftKept, LeftKept, EditsKept, Offered
<1> QED
  BY <1>4, <1>5, <1>6, <1>7 DEF IInv

\* A save sends what is on screen, which knows the newest version if the save can land.
LEMMA SaveKeeps ==
  ASSUME IInv, NEW then \in Or(Graphs), Save(then), then # None => rename = None /\ Rev(then) >= 1
  PROVE  IInv'
<1>1. /\ UNCHANGED <<log, draft, prompt, conflict, rename, load, hist>> /\ dialog = None
      /\ tab.graph # None /\ tab.id # None /\ tab.busy = "no"
  BY DEF Save, Free
<1>2. /\ tab \in Tabs /\ tab.id \in Graphs /\ tab.graph \in Contents /\ save = None /\ load = None
      /\ Rev(tab.id) \in Nat /\ tab.rev \in 1..Rev(tab.id) /\ TypeOK /\ Good(tab.graph, tab.id)
  BY <1>1 DEF IInv, TypeOK, Or, Tabs, Fits, Busy, Screen, Rev
<1>3. CASE /\ conflict = tab.id /\ UNCHANGED <<save, tab>>
           /\ dialog' = [of |-> tab.id, got |-> None, compared |-> FALSE]
  <2>1. dialog' \in Dialogs /\ dialog'.of = tab.id /\ dialog'.got = None /\ dialog' # None
    <3>1. dialog' \in Dialogs
      BY <1>2, <1>3 DEF Dialogs, Or
    <3> QED
      BY <1>3, <3>1, NoneAssumption
  <2>2. TypeOK'
    BY <1>1, <1>2, <1>3, <2>1 DEF TypeOK, Or
  <2>3. Fits'
    BY <1>1, <1>2, <1>3, <2>1
       DEF IInv, Fits, Bounded, Screen, SavedStored, Busy, DraftFits, SaveFits, DialogFits,
           LoadFits, RenameFits, PromptIs, RenameAndSave, RenameAndDialog, RenameAndSaved,
           RenameAndDraft, SavedAt, Lands, Newest, Sunk, SentOf, Good, Knows, Top, At, Rev,
           Pending, Same
  <2>4. Known'
    BY <1>1, <1>3, <2>1
       DEF IInv, Known, PromptKnows, ScreenKnows, SaveKnown, PastKnows, Current, Lands, Newest,
           Good, Knows, Top, Rev, Pending
  <2>5. Held'
    BY <1>1, <1>3
       DEF IInv, Held, PastKept, DraftKept, LeftKept, EditsKept, InDraft, Logged, Offered, Rev
  <2> QED
    BY <2>2, <2>3, <2>4, <2>5 DEF IInv
<1>4. CASE /\ conflict # tab.id /\ tab.dirty /\ UNCHANGED dialog
           /\ save' = [of |-> tab.id, rev |-> tab.rev, sent |-> tab.graph, then |-> then,
                       answer |-> "out", got |-> 0]
           /\ tab' = [tab EXCEPT !.busy = "saving"]
  <2>1. /\ save' \in Saves /\ save'.of = tab.id /\ save'.rev = tab.rev /\ save'.sent = tab.graph
        /\ save'.then = then /\ save'.answer = "out" /\ save' # None
    <3>1. save' \in Saves
      BY <1>2, <1>4, BoundAssumption DEF Saves, Answers, Revs, Tabs
    <3> QED
      BY <1>4, <3>1, NoneAssumption
  <2>2. /\ tab' \in Tabs /\ tab'.graph = tab.graph /\ tab'.saved = tab.saved /\ tab'.id = tab.id
        /\ tab'.rev = tab.rev /\ tab'.dirty = tab.dirty /\ tab'.past = tab.past /\ tab'.busy = "saving"
    BY <1>2, <1>4 DEF Tabs
  <2>3. TypeOK'
    BY <1>1, <1>2, <1>4, <2>1, <2>2 DEF TypeOK, Or
  <2>4. Current' <=> Current
    BY <1>1, <1>2, <2>1, <2>2 DEF Current, Newest, Lands, Rev
  <2>5. Fits'
    <3>1. SaveFits'
      <4>1. Lands(save)' => Knows(tab.graph, Top(tab.id))
        BY <1>1, <1>2, <1>4, <2>1 DEF IInv, Known, ScreenKnows, Current, Pending, Lands, Rev
      <4> QED
        BY <1>1, <1>2, <1>4, <2>1, <2>2, <4>1
           DEF SaveFits, SentOf, Sunk, Lands, Good, Knows, Top, Rev
    <3>2. RenameFits'
      <4> SUFFICES ASSUME rename # None PROVE RenameFits'
        BY <1>1 DEF RenameFits
      <4>1. SentOf(rename)' /\ (Sunk(rename)' <=> Sunk(rename))
        BY <1>1 DEF IInv, Fits, RenameFits, SentOf, Good, Knows, Sunk, Rev
      <4>2. CASE ~Sunk(rename)
        <5>1. /\ rename.of = tab.id /\ rename.rev <= tab.rev /\ rename.rev \in Nat /\ rename.got \in Nat
              /\ rename.answer = "ok" => rename.got <= Rev(tab.id)
          BY <4>2 DEF IInv, TypeOK, Or, Renames, Revs, Fits, RenameFits, SentOf
        <5>2. RenameAndSave'
          BY <1>1, <1>2, <2>1, <5>1 DEF RenameAndSave, Sunk, Rev
        <5> QED
          BY <1>1, <1>2, <1>4, <2>2, <4>1, <4>2, <5>1, <5>2
             DEF IInv, Fits, RenameFits, RenameAndDialog,
             RenameAndSaved, RenameAndDraft, SavedAt, Lands, Newest, Knows, Rev
      <4> QED
        BY <1>1, <4>1, <4>2 DEF RenameFits
    <3>3. PromptIs'
      BY <1>1, <1>2, <1>4, <2>2 DEF IInv, Fits, PromptIs, Good, Knows, Rev
    <3>4. (\A g \in Graphs : DraftFits(g)') /\ LoadFits' /\ DialogFits' /\ Busy'
      BY <1>1, <1>2, <1>4, <2>1, <2>2
         DEF IInv, Fits, DraftFits, LoadFits, DialogFits, Busy, Good, Knows, Top, Rev
    <3>5. Screen' /\ Bounded' /\ SavedStored'
      BY <1>1, <1>2, <2>2
         DEF IInv, Fits, Screen, Bounded, SavedStored, SavedAt, Good, Knows, Rev, Same
    <3> QED
      BY <3>1, <3>2, <3>3, <3>4, <3>5 DEF Fits
  <2>6. Known'
    <3>1. Lands(save)' => tab.rev = Rev(tab.id) /\ Current
      BY <1>1, <2>1 DEF Lands, Current, Rev
    <3>2. PromptKnows' /\ ScreenKnows'
      BY <1>1, <1>2, <2>1, <2>2, <2>4, <3>1
         DEF IInv, Known, PromptKnows, ScreenKnows, Knows, Top, Rev, Pending
    <3>3. SaveKnown' /\ PastKnows'
      BY <1>1, <1>2, <1>4, <2>1, <2>2 DEF IInv, Known, SaveKnown, PastKnows, Good, Knows
    <3> QED
      BY <3>2, <3>3 DEF Known
  <2>7. Held'
    BY <1>1, <1>2, <2>2
       DEF IInv, Held, PastKept, DraftKept, LeftKept, EditsKept, InDraft, Logged, Offered, Rev
  <2> QED
    BY <2>3, <2>5, <2>6, <2>7 DEF IInv
<1> QED
  BY <1>3, <1>4 DEF Save

\* A rename sends what is shown as saved.
LEMMA RenameKeeps == ASSUME IInv, MayAct = {}, Rename PROVE IInv'
<1>1. /\ UNCHANGED <<log, tab, draft, prompt, conflict, dialog, save, load, hist>> /\ dialog = None
      /\ tab.id # None /\ tab.saved # None /\ rename = None /\ load = None
      /\ draft[tab.id] # None => draft[tab.id].rev = tab.rev
      /\ rename' = [of |-> tab.id, rev |-> tab.rev, sent |-> tab.saved, answer |-> "out", got |-> 0]
  BY DEF Rename, Free, Still
<1>2. /\ tab \in Tabs /\ tab.id \in Graphs /\ tab.saved \in Contents /\ TypeOK /\ Good(tab.saved, tab.id)
      /\ Rev(tab.id) \in Nat /\ tab.rev \in 1..Rev(tab.id)
  BY <1>1 DEF IInv, TypeOK, Or, Tabs, Fits, Screen, Rev
<1>3. /\ rename' \in Renames /\ rename'.of = tab.id /\ rename'.rev = tab.rev /\ rename'.sent = tab.saved
      /\ rename'.answer = "out" /\ rename' # None
  <2>1. rename' \in Renames
    BY <1>1, <1>2, BoundAssumption DEF Renames, Answers, Revs, Tabs
  <2> QED
    BY <1>1, <2>1, NoneAssumption
<1>4. TypeOK'
  BY <1>1, <1>2, <1>3 DEF TypeOK, Or
<1>5. RenameFits'
  <2>1. SentOf(rename)'
    BY <1>1, <1>2, <1>3 DEF SentOf, Good, Knows, Rev
  <2>2. RenameAndSave' /\ RenameAndDialog' /\ RenameAndSaved'
    BY <1>1, <1>2, <1>3
       DEF IInv, Fits, SaveFits, Sunk, Rev, RenameAndSave, RenameAndDialog, RenameAndSaved, Newest
  <2>3. RenameAndDraft'
    <3> SUFFICES ASSUME tab.rev = Rev(tab.id), draft[tab.id] # None
                 PROVE  Knows(draft[tab.id].graph, tab.saved.edits)
      BY <1>1, <1>3 DEF RenameAndDraft, Lands, Newest, Knows, Rev
    <3> QED
      BY <1>1, <1>2, SavedIsTop DEF IInv, Fits, DraftFits
  <2>4. prompt # None /\ prompt.of = tab.id => prompt.draft.rev <= tab.rev
    BY DEF IInv, Fits, PromptIs
  <2> QED
    BY <1>1, <1>2, <1>3, <2>1, <2>2, <2>3, <2>4 DEF RenameFits
<1>6. Fits'
  BY <1>1, <1>5
     DEF IInv, Fits, Bounded, Screen, SavedStored, Busy, DraftFits, SaveFits, DialogFits, LoadFits,
     PromptIs, SavedAt, Lands, Sunk, SentOf, Good, Knows, Top, At, Rev, Pending
<1>7. Known'
  BY <1>1, <1>3
     DEF IInv, Known, PromptKnows, ScreenKnows, SaveKnown, PastKnows, Current, Lands, Newest,
         Good, Knows, Top, Rev, Pending
<1>8. Held'
  BY <1>1
     DEF IInv, Held, PastKept, DraftKept, LeftKept, EditsKept, InDraft, Logged, Offered, Rev
<1> QED
  BY <1>4, <1>6, <1>7, <1>8 DEF IInv

\* "Discard" puts what was saved back on screen, in one commit that can be undone.
LEMMA DiscardAndOpenKeeps == ASSUME IInv, MayAct = {}, NEW g \in Graphs, DiscardAndOpen(g) PROVE IInv'
<1> DEFINE more == (tab.graph.edits \ tab.saved.edits) \cup Offered
                    \cup (IF tab.id = None \/ draft[tab.id] = None THEN {} ELSE draft[tab.id].graph.edits)
<1>1. /\ UNCHANGED <<log, conflict, dialog, save, rename>> /\ dialog = None /\ save = None /\ rename = None
      /\ log[g] # <<>> /\ tab.dirty /\ tab.graph # None
      /\ tab' = [Committed(tab.saved, "edit", tab.graph) EXCEPT !.busy = "loading"]
      /\ draft' = IF tab.id = None THEN draft ELSE Cleared(tab.id)
      /\ prompt' = Kept /\ load' = StartLoad(g)
      /\ hist' = [hist EXCEPT !.gone = @ \cup (tab.graph.edits \ tab.saved.edits) \cup Offered
                                     \cup (IF tab.id = None \/ draft[tab.id] = None THEN {}
                                           ELSE draft[tab.id].graph.edits)]
  BY DEF DiscardAndOpen, Free, Quiet
<1>2. /\ tab.id # None /\ tab.id \in Graphs /\ TypeOK /\ tab.graph \in Contents /\ tab.saved \in Contents
      /\ tab.saved # None /\ Good(tab.saved, tab.id) /\ Good(tab.graph, tab.id)
      /\ draft[tab.id] \in Or(Drafts)
  BY <1>1 DEF IInv, TypeOK, Or, Tabs, Fits, Screen
<1>3. /\ tab' \in Tabs /\ tab'.graph = tab.saved /\ tab'.past = tab.graph /\ tab'.id = tab.id
      /\ tab'.rev = tab.rev /\ tab'.saved = tab.saved /\ tab'.busy = "loading" /\ ~tab'.dirty
  <2> DEFINE t == Committed(tab.saved, "edit", tab.graph)
  <2>1. t \in Tabs /\ t.graph = tab.saved /\ t.past = tab.graph /\ t.id = tab.id /\ t.rev = tab.rev
        /\ t.saved = tab.saved /\ (t.dirty <=> ~Same(tab.saved, tab.saved))
    BY <1>2, CommitIs
  <2>2. Same(tab.saved, tab.saved)
    BY <1>2 DEF Same
  <2> HIDE DEF t
  <2>3. tab' = [t EXCEPT !.busy = "loading"]
    BY <1>1 DEF t
  <2> QED
    BY <2>1, <2>2, <2>3 DEF Tabs
<1>4. draft' \in [Graphs -> Or(Drafts)] /\ draft'[tab.id] = None
      /\ \A h \in Graphs : h # tab.id => draft'[h] = draft[h]
  BY <1>1, <1>2, ClearedIs
<1>5. /\ prompt' \in Or(Prompts) /\ (prompt' = None <=> prompt = None)
      /\ prompt # None => prompt'.of = prompt.of /\ prompt'.draft = prompt.draft /\ prompt'.variant = "kept"
      /\ load' \in Loads /\ load' # None /\ load'.of = g /\ ~load'.late /\ load'.got = None
  BY <1>1, <1>2, KeptIs, StartLoadIs
<1>6. more \subseteq Edits
  BY <1>2, OfferedType DEF Contents, Or, Drafts
<1>7. /\ hist'.mine = hist.mine /\ hist'.gone = hist.gone \cup more
      /\ hist' \in [made: 0..MaxEdit, mine: SUBSET Edits, gone: SUBSET Edits, deaths: 0..MaxDie]
  <2> HIDE DEF more
  <2>1. hist' = [hist EXCEPT !.gone = hist.gone \cup more]
    BY <1>1 DEF more
  <2> QED
    BY <1>2, <1>6, <2>1 DEF TypeOK
<1>8. /\ Offered \subseteq more /\ tab.graph.edits \subseteq tab.saved.edits \cup more
      /\ draft[tab.id] # None => draft[tab.id].graph.edits \subseteq more
  BY <1>2
<1> HIDE DEF more
<1>9. TypeOK'
  BY <1>1, <1>3, <1>4, <1>5, <1>7 DEF IInv, TypeOK, Or
<1>10. Fits'
  <2>1. Screen' /\ Bounded' /\ SavedStored' /\ Busy'
    <3>1. Screen'
      BY <1>1, <1>2, <1>3, <1>7 DEF IInv, Fits, Screen, Good, Knows, Rev, Same
    <3>2. Bounded' /\ Busy'
      BY <1>1, <1>3, <1>5 DEF IInv, Fits, Bounded, Busy, Rev
    <3>3. SavedStored'
      BY <1>1, <1>2, <1>3 DEF IInv, Fits, SavedStored, SavedAt, Rev
    <3> QED
      BY <3>1, <3>2, <3>3
  <2>2. \A h \in Graphs : DraftFits(h)'
    BY <1>1, <1>4, <1>7 DEF IInv, Fits, DraftFits, Good, Knows, Top, Rev
  <2>3. LoadFits' /\ SaveFits' /\ DialogFits' /\ RenameFits'
    <3>1. Rev(g) >= 1
      BY <1>1, <1>2 DEF TypeOK, Rev
    <3> QED
      BY <1>1, <1>5, <3>1 DEF LoadFits, SaveFits, DialogFits, RenameFits, Rev
  <2>4. PromptIs'
    BY <1>1, <1>2, <1>3, <1>5, <1>7, <1>8 DEF IInv, Fits, PromptIs, Offered, Good, Knows, Rev
  <2> QED
    BY <2>1, <2>2, <2>3, <2>4 DEF Fits
<1>11. Known'
  <2>1. Current' => Current /\ tab.rev = Rev(tab.id) /\ tab.saved.edits = Top(tab.id)
    BY <1>1, <1>2, <1>3, SavedIsTop DEF Current, Rev
  <2>2. ScreenKnows' /\ SaveKnown' /\ PastKnows'
    <3>1. ScreenKnows'
      BY <1>1, <1>2, <1>3, <1>7, <2>1 DEF IInv, Known, ScreenKnows, Good, Knows, Top, Rev, Pending
    <3>2. SaveKnown'
      BY <1>1 DEF SaveKnown
    <3>3. PastKnows'
      BY <1>1, <1>2, <1>3, <1>5, <1>7, <2>1
         DEF IInv, Known, ScreenKnows, PastKnows, Good, Knows, Top, Rev, Pending
    <3> QED
      BY <3>1, <3>2, <3>3
  <2>3. PromptKnows'
    <3>1. prompt # None /\ prompt.of = tab.id /\ Current /\ prompt.draft.rev = tab.rev =>
             /\ Knows(prompt.draft.graph, Top(tab.id))
             /\ Knows(prompt.draft.graph, tab.graph.edits)
      BY DEF IInv, Known, PromptKnows
    <3>2. Top(tab.id)' = Top(tab.id) /\ hist'.mine = hist.mine /\ save' = None
      BY <1>1, <1>3, <1>7 DEF Top, Rev
    <3> QED
      BY <1>3, <1>5, <2>1, <3>1, <3>2 DEF PromptKnows, Knows
  <2> QED
    BY <2>2, <2>3 DEF Known
<1>12. Held'
  <2>1. \A x : Logged(x)' = Logged(x)
    BY <1>1 DEF Logged, Rev
  <2>2. \A x : InDraft(x) => InDraft(x)' \/ (draft[tab.id] # None /\ x \in draft[tab.id].graph.edits)
    BY <1>2, <1>4 DEF InDraft
  <2>3. \A x \in tab.saved.edits : Logged(x)
    BY <1>2, SavedLogged
  <2> HIDE DEF InDraft, Logged
  <2>4. PastKept' /\ DraftKept' /\ LeftKept'
    BY <1>2, <1>3, <1>4, <1>5, <1>7, <1>8, <2>1, <2>3 DEF PastKept, DraftKept, LeftKept
  <2>5. EditsKept'
    BY <1>2, <1>3, <1>7, <1>8, <2>1, <2>2 DEF IInv, Held, EditsKept
  <2> QED
    BY <2>4, <2>5 DEF Held
<1> QED
  BY <1>9, <1>10, <1>11, <1>12 DEF IInv

\* A load in time replaces what is on screen; one that is late replaces nothing.
LEMMA LoadAnswerKeeps == ASSUME IInv, LoadAnswer PROVE IInv'
<1>1. /\ load # None /\ load.got # None /\ load' = None
      /\ UNCHANGED <<log, draft, dialog, save, rename, hist>>
  BY DEF LoadAnswer
<1>2. /\ load \in Loads /\ load.of \in Graphs /\ load.got \in Versions /\ TypeOK /\ save = None /\ dialog = None
  BY <1>1 DEF IInv, TypeOK, Or, Loads, Fits, Busy, DialogFits
<1>3. CASE load.late
  <2>1. tab' = [tab EXCEPT !.busy = "no"] /\ UNCHANGED <<prompt, conflict>>
    BY <1>3 DEF LoadAnswer
  <2>2. /\ tab' \in Tabs /\ tab'.graph = tab.graph /\ tab'.saved = tab.saved /\ tab'.id = tab.id
        /\ tab'.rev = tab.rev /\ tab'.dirty = tab.dirty /\ tab'.past = tab.past /\ tab'.busy = "no"
    BY <1>2, <2>1 DEF TypeOK, Tabs
  <2>3. TypeOK'
    BY <1>1, <1>2, <2>1, <2>2 DEF TypeOK, Or
  <2>4. Fits'
    BY <1>1, <1>2, <2>1, <2>2
       DEF IInv, Fits, Bounded, Screen, SavedStored, Busy, DraftFits, SaveFits, DialogFits,
           LoadFits, RenameFits, PromptIs, RenameAndSave, RenameAndDialog, RenameAndSaved,
           RenameAndDraft, SavedAt, Lands, Newest, Sunk, SentOf, Good, Knows, Top, At, Rev,
           Pending, Same
  <2>5. Known'
    BY <1>1, <1>2, <1>3, <2>1, <2>2
       DEF IInv, Known, PromptKnows, ScreenKnows, SaveKnown, PastKnows, Current, Lands, Newest,
           Good, Knows, Top, Rev, Pending
  <2>6. Held'
    BY <1>1, <2>1, <2>2
       DEF IInv, Held, PastKept, DraftKept, LeftKept, EditsKept, InDraft, Logged, Offered, Rev
  <2> QED
    BY <2>3, <2>4, <2>5, <2>6 DEF IInv
<1>4. CASE ~load.late
  <2> DEFINE g == load.of
             v == load.got
             d == draft[g]
             c == Fresh(g, v.edits)
             p == [of |-> g, draft |-> d, variant |-> IF d.rev < v.rev THEN "moved" ELSE "same"]
  <2>1. /\ tab' = Loaded(c, v.rev) /\ conflict' = None
        /\ prompt' = IF d = None \/ d.graph.edits = v.edits THEN None ELSE p
    BY <1>4 DEF LoadAnswer
  <2>2. c \in Contents /\ c.of = g /\ c.edits = v.edits /\ c.knows = v.edits /\ c # None
    BY <1>2, NoneAssumption DEF Contents, Fresh, Versions
  <2>3. /\ At(g, v) /\ Rev(g) \in Nat /\ d \in Or(Drafts) /\ v.rev \in Revs /\ g # None
        /\ d # None => d.rev <= v.rev
    BY <1>1, <1>2, GraphsAssumption DEF IInv, Fits, LoadFits, TypeOK, Rev, Versions
  <2>4. d # None => p \in Prompts /\ p # None /\ p.of = g /\ p.draft = d /\ p.variant # "kept"
                    /\ (p.variant = "same" => ~(d.rev < v.rev))
    <3> SUFFICES ASSUME d # None PROVE p \in Prompts /\ p # None /\ p.of = g /\ p.draft = d
                    /\ p.variant # "kept" /\ (p.variant = "same" => ~(d.rev < v.rev))
      OBVIOUS
    <3>1. p \in Prompts
      BY <1>2, <2>3 DEF Prompts, Or
    <3> QED
      BY <3>1, NoneAssumption
  <2>5. DraftFits(g)
    BY <1>2 DEF IInv, Fits
  <2> HIDE DEF c, p, d
  <2>6. /\ tab' \in Tabs /\ tab'.graph = c /\ tab'.saved = c /\ tab'.id = g /\ tab'.rev = v.rev
        /\ ~tab'.dirty /\ tab'.past = None /\ tab'.busy = "no"
    BY <1>2, <2>1, <2>2, <2>3 DEF Loaded, Tabs, Or
  <2>7. prompt' \in Or(Prompts) /\ (prompt' # None => prompt' = p /\ d # None)
    BY <2>1, <2>4 DEF Or
  <2>8. TypeOK'
    BY <1>1, <1>2, <2>1, <2>6, <2>7 DEF TypeOK, Or
  <2>9. Fits'
    <3>1. Screen' /\ Bounded' /\ SavedStored' /\ Busy'
      BY <1>1, <1>2, <2>2, <2>3, <2>6
         DEF IInv, Fits, Screen, Bounded, SavedStored, SavedAt, Busy, At, Good, Knows, Rev, Same
    <3>2. (\A h \in Graphs : DraftFits(h)') /\ LoadFits' /\ SaveFits' /\ DialogFits'
      BY <1>1, <1>2 DEF IInv, Fits, DraftFits, LoadFits, SaveFits, DialogFits, Good, Knows, Top, Rev
    <3>3. RenameFits'
      BY <1>1 DEF IInv, Fits, RenameFits, Sunk, SentOf, Good, Knows, Rev
    <3>4. PromptIs'
      BY <1>1, <1>2, <2>1, <2>3, <2>4, <2>5, <2>6, <2>7 DEF PromptIs, DraftFits, Good, Knows, Rev, d
    <3> QED
      BY <3>1, <3>2, <3>3, <3>4 DEF Fits
  <2>10. Current' => v.rev = Rev(g) /\ v.edits = Top(g)
    BY <1>1, <1>2, <2>3, <2>6 DEF IInv, Fits, RenameFits, Sunk, Newest, Current, At, Top, Rev
  <2>11. Known'
    <3>1. ScreenKnows' /\ SaveKnown' /\ PastKnows'
      BY <1>1, <1>2, <2>2, <2>6, <2>10 DEF ScreenKnows, SaveKnown, PastKnows, Knows, Top, Rev
    <3>2. PromptKnows'
      <4> SUFFICES ASSUME prompt' # None, Current', d.rev = v.rev \/ prompt'.variant = "same"
                   PROVE  Knows(d.graph, Top(g))
        BY <1>1, <1>2, <2>2, <2>4, <2>6, <2>7, <2>10 DEF PromptKnows, Knows, Top, Rev
      <4>1. d # None /\ d.rev = v.rev
        BY <2>3, <2>4, <2>7 DEF Or, Drafts, Revs
      <4> QED
        BY <2>5, <2>10, <4>1 DEF DraftFits, d
    <3> QED
      BY <3>1, <3>2 DEF Known
  <2>12. Held'
    <3>1. \A x : (InDraft(x)' = InDraft(x)) /\ (Logged(x)' = Logged(x))
      BY <1>1 DEF InDraft, Logged, Rev
    <3> HIDE DEF InDraft, Logged
    <3>2. PastKept' /\ LeftKept'
      BY <1>1, <2>6 DEF PastKept, LeftKept
    <3>3. DraftKept'
      BY <1>1, <2>1, <2>2, <2>4, <2>6, <2>7 DEF DraftKept, Offered, d
    <3>4. EditsKept'
      BY <1>1, <1>4, <3>1 DEF IInv, Held, EditsKept, LeftKept
    <3> QED
      BY <3>2, <3>3, <3>4 DEF Held
  <2> QED
    BY <2>8, <2>9, <2>11, <2>12 DEF IInv
<1> QED
  BY <1>3, <1>4

-----------------------------------------------------------------------------
(* The server stores a version.                                            *)

\* The log of g has one more version and every older one.
LEMMA LogGrows ==
  ASSUME log \in [Graphs -> Seq(SUBSET Edits)], NEW g \in Graphs, NEW S \in SUBSET Edits,
         log' = [log EXCEPT ![g] = Append(@, S)]
  PROVE  /\ log' \in [Graphs -> Seq(SUBSET Edits)]
         /\ \A h \in Graphs : h # g => log'[h] = log[h]
         /\ Rev(g) \in Nat /\ Rev(g)' = Rev(g) + 1 /\ log'[g][Rev(g) + 1] = S
         /\ \A r \in 1..Rev(g) : log'[g][r] = log[g][r]
<1>1. log[g] \in Seq(SUBSET Edits) /\ log'[g] = Append(log[g], S)
  OBVIOUS
<1>2. /\ Len(log[g]) \in Nat /\ Len(Append(log[g], S)) = Len(log[g]) + 1
      /\ Append(log[g], S)[Len(log[g]) + 1] = S
      /\ \A r \in 1..Len(log[g]) : Append(log[g], S)[r] = log[g][r]
  BY <1>1
<1> QED
  BY <1>1, <1>2 DEF Rev

\* The same for every graph at once.
LEMMA LogKept ==
  ASSUME log \in [Graphs -> Seq(SUBSET Edits)], NEW g \in Graphs, NEW S \in SUBSET Edits,
         log' = [log EXCEPT ![g] = Append(@, S)]
  PROVE  /\ \A h \in Graphs : /\ Rev(h) \in Nat /\ Rev(h)' \in Nat /\ Rev(h) <= Rev(h)'
                              /\ h # g => Rev(h)' = Rev(h) /\ Top(h)' = Top(h)
                              /\ \A r \in 1..Rev(h) : r \in 1..Rev(h)' /\ log'[h][r] = log[h][r]
         /\ Top(g)' = S
         /\ \A e : Logged(e) => Logged(e)'
         /\ \A e \in S : Logged(e)'
<1>1. /\ \A h \in Graphs : h # g => log'[h] = log[h]
      /\ Rev(g) \in Nat /\ Rev(g)' = Rev(g) + 1 /\ log'[g][Rev(g) + 1] = S
      /\ \A r \in 1..Rev(g) : log'[g][r] = log[g][r]
  BY LogGrows
<1>2. \A h \in Graphs : Rev(h) \in Nat
  BY DEF Rev
<1>3. \A h \in Graphs : /\ Rev(h) \in Nat /\ Rev(h)' \in Nat /\ Rev(h) <= Rev(h)'
                        /\ h # g => Rev(h)' = Rev(h) /\ Top(h)' = Top(h)
                        /\ \A r \in 1..Rev(h) : r \in 1..Rev(h)' /\ log'[h][r] = log[h][r]
  <2> TAKE h \in Graphs
  <2>1. CASE h = g
    <3>1. Rev(g) <= Rev(g)' /\ Rev(g)' \in Nat
      BY <1>1
    <3>2. \A r \in 1..Rev(g) : r \in 1..Rev(g)' /\ log'[g][r] = log[g][r]
      <4> TAKE r \in 1..Rev(g)
      <4>1. r \in 1..(Rev(g) + 1)
        BY <1>1
      <4> QED
        BY <1>1, <4>1
    <3> QED
      BY <1>1, <2>1, <3>1, <3>2
  <2>2. CASE h # g
    BY <1>1, <1>2, <2>2 DEF Rev, Top
  <2> QED
    BY <2>1, <2>2
<1>4. Top(g)' = S
  BY <1>1 DEF Top
<1>5. \A e : Logged(e) => Logged(e)'
  BY <1>3 DEF Logged
<1>6. \A e \in S : Logged(e)'
  BY <1>1 DEF Logged
<1> QED
  BY <1>3, <1>4, <1>5, <1>6

\* What does not depend on what is stored, and which request stored it.
LEMMA GrowthKeeps ==
  ASSUME IInv, NEW g \in Graphs, NEW S \in SUBSET Edits, log' = [log EXCEPT ![g] = Append(@, S)],
         Rev(g) < MaxRev, UNCHANGED <<tab, draft, prompt, conflict, dialog, load>>,
         save' = None <=> save = None, hist'.mine = hist.mine, hist'.gone = hist.gone
  PROVE  /\ Bounded' /\ Screen' /\ SavedStored' /\ Busy' /\ (\A h \in Graphs : DraftFits(h)')
         /\ DialogFits' /\ LoadFits' /\ PromptIs' /\ Held'
<1>1. /\ \A h \in Graphs : /\ Rev(h) \in Nat /\ Rev(h)' \in Nat /\ Rev(h) <= Rev(h)'
                           /\ h # g => Rev(h)' = Rev(h) /\ Top(h)' = Top(h)
                           /\ \A r \in 1..Rev(h) : r \in 1..Rev(h)' /\ log'[h][r] = log[h][r]
      /\ Rev(g)' = Rev(g) + 1
      /\ \A e : Logged(e) => Logged(e)'
  BY LogGrows, LogKept DEF IInv, TypeOK
<1>2. tab.id = None \/ tab.id \in Graphs
  BY DEF IInv, TypeOK, Tabs, Or
<1>3. Bounded'
  BY <1>1, BoundAssumption DEF IInv, Fits, Bounded
<1>4. Screen'
  BY <1>1, <1>2 DEF IInv, Fits, Screen, Good, Knows
<1>5. SavedStored'
  <2> SUFFICES ASSUME tab.id # None PROVE SavedAt(tab.rev)'
    BY DEF SavedStored
  <2>1. PICK r \in 1..Rev(tab.id) : r >= tab.rev /\ log[tab.id][r] = tab.saved.edits
    BY DEF IInv, Fits, SavedStored, SavedAt
  <2>2. r \in 1..Rev(tab.id)' /\ log'[tab.id][r] = log[tab.id][r]
    BY <1>1, <1>2
  <2> QED
    BY <2>1, <2>2 DEF SavedAt
<1>6. Busy'
  BY DEF IInv, Fits, Busy
<1>7. \A h \in Graphs : DraftFits(h)'
  <2> TAKE h \in Graphs
  <2>1. DraftFits(h) /\ Rev(h) \in Nat
    BY <1>1 DEF IInv, Fits
  <2>2. CASE h = g
    BY <1>1, <2>1, <2>2 DEF DraftFits, Good, Knows
  <2>3. CASE h # g
    BY <1>1, <2>1, <2>3 DEF DraftFits, Good, Knows
  <2> QED
    BY <2>2, <2>3
<1>8. DialogFits' /\ LoadFits'
  <2>1. load # None => load.of \in Graphs
    BY DEF IInv, TypeOK, Or, Loads
  <2>2. \A h \in Graphs : \A v : At(h, v) => At(h, v)'
    BY <1>1 DEF At
  <2>3. DialogFits'
    <3>1. dialog' = dialog /\ load' = load /\ tab' = tab /\ conflict' = conflict
          /\ (save' = None <=> save = None)
      OBVIOUS
    <3>2. dialog # None =>
            /\ Pending /\ dialog.of = tab.id /\ dialog.of \in Graphs /\ load = None /\ save = None
            /\ dialog.got # None => At(dialog.of, dialog.got)
      BY <1>2 DEF IInv, Fits, DialogFits, Pending
    <3> HIDE DEF At, IInv
    <3> QED
      BY <2>2, <3>1, <3>2 DEF DialogFits, Pending
  <2>4. LoadFits'
    <3>1. \A h \in Graphs : Rev(h) >= 1 => Rev(h)' >= 1
      BY <1>1
    <3> QED
      BY <2>1, <2>2, <3>1 DEF IInv, Fits, LoadFits
  <2> QED
    BY <2>3, <2>4
<1>9. PromptIs'
  <2>1. prompt # None => prompt.of \in Graphs
    BY DEF IInv, TypeOK, Or, Prompts
  <2> QED
    BY <1>1, <1>2, <2>1 DEF IInv, Fits, PromptIs, Good, Knows
<1>10. Held'
  <2>1. \A x : InDraft(x)' = InDraft(x)
    BY DEF InDraft
  <2> HIDE DEF InDraft, Logged
  <2> QED
    BY <1>1, <2>1 DEF IInv, Held, PastKept, DraftKept, LeftKept, EditsKept, Offered
<1> QED
  BY <1>3, <1>4, <1>5, <1>6, <1>7, <1>8, <1>9, <1>10

\* What requests that stored nothing may still do.
LEMMA RequestsLose ==
  ASSUME IInv, NEW g \in Graphs, NEW S \in SUBSET Edits, log' = [log EXCEPT ![g] = Append(@, S)],
         NEW r, r.of \in Graphs, SentOf(r), hist'.mine = hist.mine, r.rev \in Nat, r.got \in Nat
  PROVE  LET LandsNext == r.answer = "out" /\ r.rev = Rev(r.of)'
             NewestNext == r.answer = "ok" /\ r.got = Rev(r.of)'
             SunkNext == r.answer # "ok" /\ (r.answer = "out" => r.rev < Rev(r.of)')
         IN  /\ LandsNext => Lands(r) /\ r.of # g
             /\ NewestNext => Newest(r) /\ r.of # g
             /\ Sunk(r) => SunkNext
             /\ r.of = g /\ r.answer # "ok" => SunkNext
<1>1. /\ \A h \in Graphs : Rev(h) \in Nat /\ Rev(h)' \in Nat /\ (h # g => Rev(h)' = Rev(h))
      /\ Rev(g)' = Rev(g) + 1
  BY LogGrows, LogKept DEF IInv, TypeOK
<1>2. r.rev <= Rev(r.of) /\ (r.answer = "ok" => r.got <= Rev(r.of))
  BY <1>1 DEF SentOf
<1> QED
  BY <1>1, <1>2 DEF Lands, Newest, Sunk

\* What is shown as saved stays stored.
LEMMA SavedAtKept ==
  ASSUME IInv, UNCHANGED tab, tab.id \in Graphs,
         \A h \in Graphs : \A r \in 1..Rev(h) : r \in 1..Rev(h)' /\ log'[h][r] = log[h][r]
  PROVE  \A v : SavedAt(v) => SavedAt(v)'
<1> SUFFICES ASSUME NEW v, SavedAt(v) PROVE SavedAt(v)'
  OBVIOUS
<1>1. PICK r \in 1..Rev(tab.id) : r >= v /\ log[tab.id][r] = tab.saved.edits
  BY DEF SavedAt
<1>2. r \in 1..Rev(tab.id)' /\ log'[tab.id][r] = tab.saved.edits
  BY <1>1
<1> QED
  BY <1>1, <1>2 DEF SavedAt

\* A rename that has not landed, when another version is stored.
LEMMA RenameWaits ==
  ASSUME IInv, NEW g \in Graphs, NEW S \in SUBSET Edits, log' = [log EXCEPT ![g] = Append(@, S)],
         UNCHANGED <<tab, draft, prompt, dialog, load, rename>>, hist'.mine = hist.mine,
         \/ UNCHANGED save
         \/ save # None /\ save.of = g /\ Lands(save) /\ save' # None /\ save'.rev = save.rev /\ save'.then = save.then
  PROVE  RenameFits'
<1> SUFFICES ASSUME rename # None PROVE RenameFits'
  BY DEF RenameFits
<1>1. rename \in Renames /\ rename.of \in Graphs /\ rename.rev \in Nat /\ rename.got \in Nat /\ SentOf(rename)
  BY DEF IInv, TypeOK, Or, Renames, Revs, Fits, RenameFits
<1>2. /\ Lands(rename)' => Lands(rename) /\ rename.of # g
      /\ Newest(rename)' => Newest(rename) /\ rename.of # g
      /\ Sunk(rename) => Sunk(rename)'
  BY <1>1, RequestsLose DEF Lands, Newest, Sunk
<1>3. /\ \A h \in Graphs : /\ Rev(h) \in Nat /\ Rev(h)' \in Nat /\ Rev(h) <= Rev(h)'
                           /\ \A r \in 1..Rev(h) : r \in 1..Rev(h)' /\ log'[h][r] = log[h][r]
  BY LogKept DEF IInv, TypeOK
<1>4. SentOf(rename)'
  BY <1>1, <1>3 DEF SentOf, Good, Knows
<1>5. CASE ~Sunk(rename)
  <2>1. rename.of = tab.id /\ RenameAndSave /\ RenameAndDialog /\ RenameAndSaved /\ RenameAndDraft
    BY <1>5 DEF IInv, Fits, RenameFits
  <2>2. RenameAndSave'
    <3>1. save # None => save \in Saves /\ save.of \in Graphs /\ save.rev \in Nat /\ save.got \in Nat /\ SentOf(save)
      BY DEF IInv, TypeOK, Or, Saves, Revs, Fits, SaveFits
    <3>2. CASE UNCHANGED save
      <4>1. save # None /\ Sunk(save) => Sunk(save)'
        BY <3>1, <3>2, RequestsLose DEF Sunk
      <4> QED
        BY <2>1, <3>2, <4>1 DEF RenameAndSave
    <3>3. CASE save # None /\ save.of = g /\ Lands(save) /\ save' # None /\ save'.rev = save.rev /\ save'.then = save.then
      <4>1. save # None /\ ~Sunk(save)
        BY <3>1, <3>3 DEF Lands, Sunk
      <4> QED
        BY <2>1, <3>3, <4>1 DEF RenameAndSave
    <3> QED
      BY <3>2, <3>3
  <2>3. RenameAndDialog' /\ RenameAndDraft'
    BY <1>2, <2>1 DEF RenameAndDialog, RenameAndDraft, Knows
  <2>4. RenameAndSaved'
    <3>1. \A v : SavedAt(v) => SavedAt(v)'
      BY <1>1, <1>3, <2>1, SavedAtKept
    <3>2. Newest(rename)' => log'[rename.of][rename.rev] = log[rename.of][rename.rev]
      BY <1>1, <1>3 DEF SentOf
    <3> QED
      BY <1>2, <2>1, <3>1, <3>2 DEF RenameAndSaved
  <2> QED
    BY <1>4, <1>5, <2>2, <2>3, <2>4 DEF IInv, Fits, RenameFits
<1> QED
  BY <1>2, <1>4, <1>5 DEF RenameFits

\* Another window adds a version: what was current no longer is, and no request waits for it.
LEMMA OtherSaveKeeps == ASSUME IInv, NEW g \in Graphs, OtherSave(g) PROVE IInv'
<1> DEFINE S == Last(log[g]) \cup {hist.made + 1}
<1>1. /\ UNCHANGED <<tab, draft, prompt, conflict, dialog, save, rename, load>>
      /\ log' = [log EXCEPT ![g] = Append(@, S)] /\ hist' = [hist EXCEPT !.made = @ + 1]
      /\ Rev(g) \in 1..(MaxRev - 1) /\ hist.made < MaxEdit
  BY DEF OtherSave
<1>2. TypeOK /\ log[g] \in Seq(SUBSET Edits) /\ Rev(g) \in Nat /\ Rev(g) < MaxRev /\ hist.made + 1 \in Edits
      /\ hist.made + 1 \in 0..MaxEdit
  BY <1>1, BoundAssumption DEF IInv, TypeOK, Rev, Edits
<1>3. S \in SUBSET Edits
  BY <1>1, <1>2 DEF Last, Rev
<1> HIDE DEF S
<1>4. /\ hist'.mine = hist.mine /\ hist'.gone = hist.gone
      /\ hist' \in [made: 0..MaxEdit, mine: SUBSET Edits, gone: SUBSET Edits, deaths: 0..MaxDie]
  BY <1>1, <1>2, BoundAssumption DEF TypeOK
<1>5. TypeOK'
  BY <1>1, <1>2, <1>3, <1>4, LogGrows DEF TypeOK
<1>6. /\ \A h \in Graphs : /\ Rev(h) \in Nat /\ Rev(h)' \in Nat /\ Rev(h) <= Rev(h)'
                           /\ h # g => Rev(h)' = Rev(h) /\ Top(h)' = Top(h)
                           /\ \A r \in 1..Rev(h) : r \in 1..Rev(h)' /\ log'[h][r] = log[h][r]
      /\ Rev(g)' = Rev(g) + 1
  BY <1>1, <1>2, <1>3, LogGrows, LogKept DEF TypeOK
<1>7. save # None => /\ save.of \in Graphs /\ SentOf(save) /\ save.of = tab.id
                     /\ Lands(save)' => Lands(save) /\ save.of # g
                     /\ Newest(save)' => Newest(save) /\ save.of # g
                     /\ Sunk(save) => Sunk(save)'
  <2> SUFFICES ASSUME save # None PROVE /\ save.of \in Graphs /\ SentOf(save) /\ save.of = tab.id
                                        /\ Lands(save)' => Lands(save) /\ save.of # g
                                        /\ Newest(save)' => Newest(save) /\ save.of # g
                                        /\ Sunk(save) => Sunk(save)'
    OBVIOUS
  <2>1. /\ save \in Saves /\ save.of \in Graphs /\ save.rev \in Nat /\ save.got \in Nat
        /\ SentOf(save) /\ save.of = tab.id
    BY DEF IInv, TypeOK, Or, Saves, Revs, Fits, SaveFits
  <2> QED
    BY <1>1, <1>3, <1>4, <2>1, RequestsLose DEF Lands, Newest, Sunk
<1>8. Fits'
  <2>1. SaveFits'
    <3> SUFFICES ASSUME save # None PROVE SaveFits'
      BY <1>1 DEF SaveFits
    <3>1. SentOf(save)'
      <4>1. SentOf(save) /\ save.of \in Graphs
        BY <1>7
      <4>2. save.rev \in 1..Rev(save.of)' /\ Good(save.sent, save.of)'
        BY <1>4, <1>1, <1>6, <4>1 DEF SentOf, Good, Knows
      <4>3. save.answer = "ok" => save.got \in 1..Rev(save.of)' /\ log'[save.of][save.got] = save.sent.edits
        BY <1>1, <1>6, <4>1 DEF SentOf
      <4> QED
        BY <1>1, <4>1, <4>2, <4>3 DEF SentOf
    <3>2. save.then # None => Rev(save.then)' >= 1
      <4>1. save.then \in Or(Graphs)
        BY DEF IInv, TypeOK, Or, Saves
      <4> QED
        BY <1>1, <1>6, <4>1 DEF IInv, Fits, SaveFits, Or
    <3> QED
      BY <1>1, <1>4, <1>6, <1>7, <3>1, <3>2 DEF IInv, Fits, SaveFits, Knows
  <2>2. RenameFits'
    BY <1>1, <1>3, <1>4, RenameWaits
  <2>3. /\ Bounded' /\ Screen' /\ SavedStored' /\ Busy' /\ (\A h \in Graphs : DraftFits(h)')
        /\ DialogFits' /\ LoadFits' /\ PromptIs'
    BY <1>1, <1>2, <1>3, <1>4, GrowthKeeps
  <2> QED
    BY <2>1, <2>2, <2>3 DEF Fits
<1>9. tab.id # None /\ Current' => Current /\ tab.id # g /\ tab.id \in Graphs
  <2> SUFFICES ASSUME tab.id # None, Current' PROVE Current /\ tab.id # g
    BY DEF IInv, TypeOK, Tabs, Or
  <2>1. tab.id \in Graphs /\ tab.rev \in 1..Rev(tab.id)
    BY DEF IInv, TypeOK, Tabs, Or, Fits, Screen
  <2>2. CASE tab.rev = Rev(tab.id)'
    <3>1. tab.id # g
      BY <1>1, <1>2, <1>6, <2>1, <2>2
    <3> QED
      BY <1>1, <1>6, <2>1, <2>2, <3>1 DEF Current
  <2>3. CASE rename # None /\ Newest(rename)'
    <3>1. /\ rename \in Renames /\ rename.of \in Graphs /\ rename.rev \in Nat /\ rename.got \in Nat /\ SentOf(rename)
      BY <2>3 DEF IInv, TypeOK, Or, Renames, Revs, Fits, RenameFits
    <3>2. Newest(rename) /\ rename.of # g
      BY <1>1, <1>3, <1>4, <2>3, <3>1, RequestsLose DEF Newest
    <3>3. rename.of = tab.id
      BY <2>3, <3>2 DEF IInv, Fits, RenameFits, Sunk, Newest
    <3> QED
      BY <2>3, <3>2, <3>3 DEF Current
  <2>4. CASE save # None /\ (Lands(save)' \/ Newest(save)')
    BY <1>7, <2>4 DEF Current
  <2> QED
    BY <1>1, <2>2, <2>3, <2>4 DEF Current, Lands, Newest, Rev
<1>10. Known'
  <2>1. tab.graph # None \/ tab.past # None => tab.id # None
    BY DEF IInv, Fits, Screen
  <2>2. prompt # None => prompt.of \in Graphs /\ prompt.of # None
    BY GraphsAssumption DEF IInv, TypeOK, Or, Prompts
  <2>3. PromptKnows'
    BY <1>1, <1>4, <1>6, <1>7, <1>9, <2>2 DEF IInv, Known, PromptKnows, Knows
  <2>4. ScreenKnows' /\ SaveKnown' /\ PastKnows'
    BY <1>1, <1>4, <1>6, <1>7, <1>9, <2>1
       DEF IInv, Known, ScreenKnows, SaveKnown, PastKnows, Knows, Pending
  <2> QED
    BY <2>3, <2>4 DEF Known
<1>11. Held'
  BY <1>1, <1>2, <1>3, <1>4, GrowthKeeps
<1> QED
  BY <1>5, <1>8, <1>10, <1>11 DEF IInv

\* What comes of a save: a new version, or nothing.
LEMMA SaveLandsIs ==
  ASSUME IInv, SaveLands
  PROVE  /\ save # None /\ save.answer = "out" /\ save \in Saves
         /\ UNCHANGED <<tab, draft, prompt, conflict, dialog, rename, load, hist>>
         /\ save' \in Saves /\ save' # None /\ save'.of = save.of /\ save'.rev = save.rev
         /\ save'.sent = save.sent /\ save'.then = save.then /\ save'.answer # "out"
         /\ \/ /\ Lands(save) /\ Rev(save.of) < MaxRev
               /\ log' = [log EXCEPT ![save.of] = Append(@, save.sent.edits)]
               /\ save'.answer = "ok" => save'.got = save.rev + 1
            \/ log' = log /\ save'.answer # "ok"
<1>1. Put(save, save')
  BY DEF SaveLands
<1>2. /\ save # None /\ save \in Saves /\ save.answer = "out" /\ save.of \in Graphs /\ save.rev \in Nat
      /\ UNCHANGED <<tab, draft, prompt, conflict, dialog, rename, load, hist>>
  BY <1>1 DEF SaveLands, Put, IInv, TypeOK, Or, Saves, Revs
<1>3. PICK a \in Answers, n \in Revs : save' = [save EXCEPT !.answer = a, !.got = n]
  BY Zenon DEF SaveLands
<1>4. /\ save' \in Saves /\ save'.of = save.of /\ save'.rev = save.rev
      /\ save'.sent = save.sent /\ save'.then = save.then
  BY <1>2, <1>3 DEF Saves
<1>5. \/ /\ Rev(save.of) = save.rev /\ save.rev < MaxRev
         /\ log' = [log EXCEPT ![save.of] = Append(@, save.sent.edits)]
         /\ save'.answer \in {"ok", "failed"} /\ (save'.answer = "ok" => save'.got = save.rev + 1)
      \/ log' = log /\ save'.answer \in {"conflict", "failed"}
  BY <1>1, <1>2 DEF Put, Saves
<1> QED
  BY <1>2, <1>4, <1>5, NoneAssumption DEF Lands

\* The save lands on the newest version or is refused.
LEMMA SaveLandsKeeps == ASSUME IInv, SaveLands PROVE IInv'
<1> DEFINE g == save.of
           S == save.sent.edits
<1>1. /\ save # None /\ save.answer = "out" /\ save \in Saves
      /\ UNCHANGED <<tab, draft, prompt, conflict, dialog, rename, load, hist>>
      /\ save' \in Saves /\ save' # None /\ save'.of = g /\ save'.rev = save.rev
      /\ save'.sent = save.sent /\ save'.then = save.then /\ save'.answer # "out"
  BY SaveLandsIs
<1>2. /\ TypeOK /\ g \in Graphs /\ S \in SUBSET Edits /\ g = tab.id /\ SentOf(save) /\ save.rev \in Nat
      /\ conflict # g /\ dialog = None /\ load = None /\ Rev(g) \in Nat
      /\ save.then # None => save.then \in Graphs /\ Rev(save.then) >= 1 /\ save.rev <= tab.rev
      /\ tab.rev \in 1..Rev(g)
  BY <1>1, GraphsAssumption
     DEF IInv, TypeOK, Saves, Contents, Fits, SaveFits, Revs, Rev, Busy, Screen, Tabs, Or
<1>3. CASE /\ Lands(save) /\ Rev(g) < MaxRev
           /\ log' = [log EXCEPT ![g] = Append(@, S)]
           /\ save'.answer = "ok" => save'.got = save.rev + 1
  <2>1. /\ \A h \in Graphs : /\ Rev(h) \in Nat /\ Rev(h)' \in Nat /\ Rev(h) <= Rev(h)'
                             /\ \A r \in 1..Rev(h) : r \in 1..Rev(h)' /\ log'[h][r] = log[h][r]
        /\ Len(log'[g]) = Rev(g) + 1 /\ log'[g][Rev(g) + 1] = S
        /\ log' \in [Graphs -> Seq(SUBSET Edits)]
    BY <1>2, <1>3, LogGrows, LogKept DEF TypeOK, Rev
  <2>2. TypeOK'
    BY <1>1, <1>2, <2>1 DEF TypeOK, Or
  <2>3. SaveFits'
    <3>1. SentOf(save)'
      <4>1. save'.rev \in 1..(Rev(g) + 1) /\ Good(save.sent, g)
        BY <1>1, <1>2 DEF SentOf
      <4>2. save'.answer = "ok" => save'.got = Rev(g) + 1 /\ save'.got = save'.rev + 1
        BY <1>1, <1>3 DEF Lands
      <4>3. Rev(g)' = Rev(g) + 1 /\ hist' = hist
        BY <1>1, <2>1 DEF Rev
      <4> QED
        BY <1>1, <1>2, <2>1, <4>1, <4>2, <4>3 DEF SentOf, Good, Knows
    <3>2. tab.rev <= save.rev
      BY <1>1, <1>2, <1>3 DEF Lands
    <3>3. save.then # None => Rev(save.then)' >= 1
      BY <1>1, <1>2, <2>1
    <3> QED
      BY <1>1, <1>2, <3>1, <3>2, <3>3 DEF SaveFits, Lands
  <2>4. RenameFits'
    BY <1>1, <1>2, <1>3, RenameWaits
  <2>5. /\ Bounded' /\ Screen' /\ SavedStored' /\ Busy' /\ (\A h \in Graphs : DraftFits(h)')
        /\ DialogFits' /\ LoadFits' /\ PromptIs' /\ Held'
    BY <1>1, <1>2, <1>3, GrowthKeeps
  <2>6. Current /\ Lands(save) /\ ~Lands(save)' /\ Top(tab.id)' = S
    BY <1>1, <1>2, <1>3, <2>1 DEF Current, Lands, Top, Rev
  <2>7. Known'
    BY <1>1, <2>6 DEF IInv, Known, PromptKnows, ScreenKnows, SaveKnown, PastKnows, Knows, Pending
  <2> QED
    BY <2>2, <2>3, <2>4, <2>5, <2>7 DEF IInv, Fits
<1>4. CASE log' = log /\ save'.answer # "ok"
  <2>1. TypeOK'
    BY <1>1, <1>2, <1>4 DEF TypeOK, Or
  <2>2. Sunk(save)' /\ ~Lands(save)' /\ ~Newest(save)'
    BY <1>1, <1>4 DEF Sunk, Lands, Newest
  <2>3. SaveFits'
    <3>1. SentOf(save)'
      BY <1>1, <1>2, <1>4 DEF SentOf, Good, Knows, Rev
    <3>2. save.then # None => Rev(save.then)' >= 1
      BY <1>1, <1>2, <1>4 DEF Rev
    <3> QED
      BY <1>1, <1>2, <1>4, <2>2, <3>1, <3>2 DEF SaveFits
  <2>4. RenameFits'
    <3> SUFFICES ASSUME rename # None PROVE RenameFits'
      BY <1>1 DEF RenameFits
    <3>1. SentOf(rename)' /\ (Sunk(rename)' <=> Sunk(rename))
      BY <1>1, <1>4 DEF IInv, Fits, RenameFits, SentOf, Good, Knows, Sunk, Rev
    <3>2. RenameAndSave => RenameAndSave'
      BY <1>1, <2>2 DEF RenameAndSave
    <3> QED
      BY <1>1, <1>4, <3>1, <3>2 DEF IInv, Fits, RenameFits, RenameAndDialog,
         RenameAndSaved, RenameAndDraft, SavedAt, Lands, Newest, Knows, Rev
  <2>5. /\ Bounded' /\ Screen' /\ SavedStored' /\ Busy' /\ (\A h \in Graphs : DraftFits(h)')
        /\ DialogFits' /\ LoadFits' /\ PromptIs'
    BY <1>1, <1>4
       DEF IInv, Fits, Bounded, Screen, SavedStored, SavedAt, Busy, DraftFits, DialogFits, LoadFits,
       PromptIs, At, Good, Knows, Top, Rev, Pending, Same
  <2>6. Current' => Current
    BY <1>1, <1>4, <2>2 DEF Current, Newest, Rev
  <2>7. Known'
    BY <1>1, <1>4, <2>2, <2>6 DEF IInv, Known, PromptKnows, ScreenKnows, SaveKnown, PastKnows,
       Knows, Top, Rev, Pending
  <2>8. Held'
    BY <1>1, <1>4
       DEF IInv, Held, PastKept, DraftKept, LeftKept, EditsKept, InDraft, Logged, Offered, Rev
  <2> QED
    BY <2>1, <2>3, <2>4, <2>5, <2>7, <2>8 DEF IInv, Fits
<1> QED
  BY <1>3, <1>4, SaveLandsIs

\* What comes of a rename: a new version with the content of the newest, or nothing.
LEMMA RenameLandsIs ==
  ASSUME IInv, RenameLands
  PROVE  /\ rename # None /\ rename.answer = "out" /\ rename \in Renames
         /\ UNCHANGED <<tab, draft, prompt, conflict, dialog, save, load, hist>>
         /\ rename' \in Renames /\ rename' # None /\ rename'.of = rename.of /\ rename'.rev = rename.rev
         /\ rename'.sent = rename.sent /\ rename'.answer # "out"
         /\ \/ /\ Lands(rename) /\ Rev(rename.of) < MaxRev
               /\ log' = [log EXCEPT ![rename.of] = Append(@, rename.sent.edits)]
               /\ rename'.answer = "ok" => rename'.got = rename.rev + 1
            \/ log' = log /\ rename'.answer # "ok"
<1>1. Put(rename, rename')
  BY DEF RenameLands
<1>2. /\ rename # None /\ rename \in Renames /\ rename.answer = "out" /\ rename.of \in Graphs
      /\ rename.rev \in Nat /\ UNCHANGED <<tab, draft, prompt, conflict, dialog, save, load, hist>>
  BY <1>1 DEF RenameLands, Put, IInv, TypeOK, Or, Renames, Revs
<1>3. PICK a \in Answers, n \in Revs : rename' = [rename EXCEPT !.answer = a, !.got = n]
  BY Zenon DEF RenameLands
<1>4. /\ rename' \in Renames /\ rename'.of = rename.of /\ rename'.rev = rename.rev
      /\ rename'.sent = rename.sent
  BY <1>2, <1>3 DEF Renames
<1>5. \/ /\ Rev(rename.of) = rename.rev /\ rename.rev < MaxRev
         /\ log' = [log EXCEPT ![rename.of] = Append(@, rename.sent.edits)]
         /\ rename'.answer \in {"ok", "failed"} /\ (rename'.answer = "ok" => rename'.got = rename.rev + 1)
      \/ log' = log /\ rename'.answer \in {"conflict", "failed"}
  BY <1>1, <1>2 DEF Put, Renames
<1> QED
  BY <1>2, <1>4, <1>5, NoneAssumption DEF Lands

\* The rename lands with the content of the version it replaces, or is refused.
LEMMA RenameLandsKeeps == ASSUME IInv, RenameLands PROVE IInv'
<1> DEFINE g == rename.of
           S == rename.sent.edits
<1>1. /\ rename # None /\ rename.answer = "out" /\ rename \in Renames
      /\ UNCHANGED <<tab, draft, prompt, conflict, dialog, save, load, hist>>
      /\ rename' \in Renames /\ rename' # None /\ rename'.of = g /\ rename'.rev = rename.rev
      /\ rename'.sent = rename.sent /\ rename'.answer # "out"
  BY RenameLandsIs
<1>2. /\ TypeOK /\ g \in Graphs /\ S \in SUBSET Edits /\ SentOf(rename) /\ rename.rev \in Nat /\ Rev(g) \in Nat
  BY <1>1 DEF IInv, TypeOK, Renames, Contents, Fits, RenameFits, Revs, Rev
<1>3. CASE /\ Lands(rename) /\ Rev(g) < MaxRev
           /\ log' = [log EXCEPT ![g] = Append(@, S)]
           /\ rename'.answer = "ok" => rename'.got = rename.rev + 1
  <2>1. /\ \A h \in Graphs : /\ Rev(h) \in Nat /\ Rev(h)' \in Nat /\ Rev(h) <= Rev(h)'
                             /\ \A r \in 1..Rev(h) : r \in 1..Rev(h)' /\ log'[h][r] = log[h][r]
        /\ Len(log'[g]) = Rev(g) + 1 /\ log'[g][Rev(g) + 1] = S
        /\ log' \in [Graphs -> Seq(SUBSET Edits)]
    BY <1>2, <1>3, LogGrows, LogKept DEF TypeOK, Rev
  <2>2. TypeOK'
    BY <1>1, <1>2, <2>1 DEF TypeOK, Or
  <2>3. /\ ~Sunk(rename) /\ g = tab.id /\ load = None /\ rename.rev <= tab.rev /\ rename.rev = Rev(g)
        /\ RenameAndSave /\ RenameAndDialog /\ RenameAndSaved /\ RenameAndDraft /\ tab.id # None
        /\ prompt # None /\ prompt.of = tab.id => prompt.draft.rev <= rename.rev
    BY <1>1, <1>2, <1>3, GraphsAssumption DEF Lands, Sunk, IInv, Fits, RenameFits
  <2>4. tab.rev = Rev(g) /\ Current /\ Top(g) = S /\ tab.saved.edits = S
    <3>1. tab.rev = Rev(g)
      BY <1>2, <2>3 DEF IInv, Fits, Screen
    <3> QED
      BY <1>3, <2>3, <3>1, SavedIsTop DEF Current, RenameAndSaved
  <2>5. save # None => /\ save.of = g /\ SentOf(save)' /\ ~Lands(save)' /\ ~Newest(save)' /\ Sunk(save)'
                       /\ save.rev \in Nat
    <3> SUFFICES ASSUME save # None PROVE /\ save.of = g /\ SentOf(save)' /\ ~Lands(save)' /\ ~Newest(save)'
                                          /\ Sunk(save)' /\ save.rev \in Nat
      OBVIOUS
    <3>1. /\ save \in Saves /\ save.rev \in Nat /\ save.got \in Nat /\ SentOf(save) /\ save.of = g
          /\ tab.rev <= save.rev \/ Sunk(save)
      BY <2>3 DEF IInv, TypeOK, Or, Saves, Revs, Fits, SaveFits
    <3>2. save.rev <= Rev(g) /\ (save.answer = "ok" => save.rev < Rev(g))
      BY <1>2, <3>1 DEF SentOf
    <3>3. save.answer # "ok"
      BY <1>2, <2>4, <3>1, <3>2 DEF Sunk
    <3>4. SentOf(save)'
      BY <1>1, <2>1, <3>1, <3>3, <1>2 DEF SentOf, Good, Knows
    <3> QED
      BY <1>1, <1>2, <2>1, <3>1, <3>2, <3>3, <3>4 DEF Lands, Newest, Sunk, Rev
  <2>6. SaveFits'
    <3> SUFFICES ASSUME save # None PROVE SaveFits'
      BY <1>1 DEF SaveFits
    <3>1. save.then # None => Rev(save.then)' >= 1
      <4>1. save.then \in Or(Graphs)
        BY DEF IInv, TypeOK, Or, Saves
      <4> QED
        BY <1>1, <2>1, <4>1 DEF IInv, Fits, SaveFits, Or
    <3> QED
      BY <1>1, <2>5, <3>1 DEF IInv, Fits, SaveFits
  <2>7. RenameFits'
    <3>1. SentOf(rename)'
      <4>1. rename'.rev \in 1..(Rev(g) + 1) /\ Good(rename.sent, g)
        BY <1>1, <1>2 DEF SentOf
      <4>2. rename'.answer = "ok" => rename'.got = Rev(g) + 1 /\ rename'.got = rename'.rev + 1
        BY <1>1, <1>3 DEF Lands
      <4>3. Rev(g)' = Rev(g) + 1 /\ hist' = hist
        BY <1>1, <2>1 DEF Rev
      <4> QED
        BY <1>1, <1>2, <2>1, <4>1, <4>2, <4>3 DEF SentOf, Good, Knows
    <3>2. CASE rename'.answer # "ok"
      BY <1>1, <3>1, <3>2 DEF RenameFits, Sunk
    <3>3. CASE rename'.answer = "ok"
      <4>1. rename'.got = Rev(g) + 1
        BY <1>3, <2>3, <3>3
      <4>2. RenameAndSave'
        BY <1>1, <2>3, <2>5 DEF RenameAndSave, Sunk
      <4>3. RenameAndDialog'
        <5> SUFFICES ASSUME dialog # None, dialog.got # None PROVE RenameAndDialog'
          BY <1>1 DEF RenameAndDialog
        <5>1. /\ rename.rev <= dialog.got.rev /\ tab.rev <= dialog.got.rev
              /\ dialog.got.rev \in 1..Rev(g) /\ log[g][dialog.got.rev] = dialog.got.edits
          BY <2>3 DEF RenameAndDialog, IInv, Fits, DialogFits, At
        <5>2. dialog.got.edits = S
          BY <1>2, <2>3, <2>4, <5>1 DEF Top
        <5> QED
          BY <1>1, <5>1, <5>2 DEF RenameAndDialog
      <4>4. RenameAndSaved'
        <5>1. SavedAt(rename.got)'
          <6>1. Rev(tab.id)' = Rev(g) + 1
            BY <1>1, <2>1, <2>3 DEF Rev
          <6> QED
            BY <1>1, <1>2, <2>1, <2>3, <2>4, <4>1, <6>1 DEF SavedAt
        <5>2. log'[g][rename.rev] = S
          BY <1>2, <2>1, <2>3, <2>4 DEF SentOf, Top
        <5> QED
          BY <1>1, <3>3, <5>1, <5>2 DEF RenameAndSaved, Lands
      <4>5. RenameAndDraft'
        BY <1>1, <1>3, <2>3 DEF RenameAndDraft, Knows
      <4> QED
        BY <1>1, <2>3, <3>1, <4>2, <4>3, <4>4, <4>5 DEF RenameFits
    <3> QED
      BY <3>2, <3>3
  <2>8. /\ Bounded' /\ Screen' /\ SavedStored' /\ Busy' /\ (\A h \in Graphs : DraftFits(h)')
        /\ DialogFits' /\ LoadFits' /\ PromptIs' /\ Held'
    BY <1>1, <1>2, <1>3, GrowthKeeps
  <2>9. Top(tab.id)' = S
    BY <1>1, <2>1, <2>3 DEF Top, Rev
  <2>10. Known'
    <3>1. PromptKnows'
      BY <1>1, <2>3, <2>4, <2>5, <2>9 DEF IInv, Known, PromptKnows, Knows
    <3>2. ScreenKnows' /\ SaveKnown' /\ PastKnows'
      BY <1>1, <2>3, <2>4, <2>5, <2>9
         DEF IInv, Known, ScreenKnows, SaveKnown, PastKnows, Knows, Pending
    <3> QED
      BY <3>1, <3>2 DEF Known
  <2> QED
    BY <2>2, <2>6, <2>7, <2>8, <2>10 DEF IInv, Fits
<1>4. CASE log' = log /\ rename'.answer # "ok"
  <2>1. TypeOK'
    BY <1>1, <1>2, <1>4 DEF TypeOK, Or
  <2>2. Sunk(rename)' /\ ~Lands(rename)' /\ ~Newest(rename)'
    BY <1>1, <1>4 DEF Sunk, Lands, Newest
  <2>3. RenameFits'
    BY <1>1, <1>2, <1>4, <2>2 DEF RenameFits, SentOf, Good, Knows, Rev
  <2>5. /\ Bounded' /\ Screen' /\ SavedStored' /\ Busy' /\ (\A h \in Graphs : DraftFits(h)')
        /\ DialogFits' /\ LoadFits' /\ PromptIs' /\ SaveFits'
    BY <1>1, <1>4
       DEF IInv, Fits, Bounded, Screen, SavedStored, SavedAt, Busy, DraftFits, DialogFits, LoadFits,
       PromptIs, SaveFits, SentOf, Sunk, Lands, At, Good, Knows, Top, Rev, Pending, Same
  <2>6. Current' => Current
    BY <1>1, <1>4, <2>2 DEF Current, Newest, Lands, Rev
  <2>7. Known'
    BY <1>1, <1>4, <2>2, <2>6 DEF IInv, Known, PromptKnows, ScreenKnows, SaveKnown, PastKnows,
       Lands, Knows, Top, Rev, Pending
  <2>8. Held'
    BY <1>1, <1>4
       DEF IInv, Held, PastKept, DraftKept, LeftKept, EditsKept, InDraft, Logged, Offered, Rev
  <2> QED
    BY <2>1, <2>3, <2>5, <2>7, <2>8 DEF IInv, Fits
<1> QED
  BY <1>3, <1>4, RenameLandsIs

-----------------------------------------------------------------------------
(* Answers of ok.                                                          *)

\* A save that the server took is at least as new as any rename that may still count.
LEMMA SaveIsNewer ==
  ASSUME IInv, save # None, save.answer = "ok"
  PROVE  /\ save.of = tab.id /\ tab.id \in Graphs /\ tab.id # None /\ SentOf(save) /\ save.got \in Revs
         /\ save.rev \in Nat /\ Rev(tab.id) \in Nat
         /\ tab.rev < save.got /\ save.got <= Rev(tab.id) /\ save.sent \in Contents
         /\ tab.graph # None /\ dialog = None /\ load = None /\ conflict # tab.id
         /\ prompt # None => prompt.variant = "kept"
         /\ rename # None /\ ~Sunk(rename) =>
               /\ save.then = None /\ rename.of = tab.id /\ rename.answer = "ok" /\ rename.got < save.got
               /\ rename.rev < save.got
<1>1. /\ save \in Saves /\ save.of = tab.id /\ tab.id \in Graphs /\ tab.id # None /\ SentOf(save)
      /\ save.got \in Revs /\ save.rev \in Nat /\ Rev(tab.id) \in Nat /\ save.sent \in Contents
      /\ dialog = None /\ load = None /\ conflict # tab.id /\ ~Sunk(save) /\ tab.rev \in Nat
  BY GraphsAssumption DEF IInv, TypeOK, Or, Saves, Revs, Rev, Fits, SaveFits, Busy, Sunk, Tabs
<1>2. tab.rev <= save.rev /\ save.got = save.rev + 1 /\ save.got <= Rev(tab.id)
  BY <1>1 DEF IInv, Fits, SaveFits, SentOf
<1>3. tab.graph # None
  BY <1>1 DEF IInv, Fits, Screen
<1>4. prompt # None => prompt.variant = "kept"
  BY DEF IInv, Fits, PromptIs
<1>5. ASSUME rename # None, ~Sunk(rename)
      PROVE  /\ save.then = None /\ rename.of = tab.id /\ rename.answer = "ok" /\ rename.got < save.got
             /\ rename.rev < save.got
  <2>1. /\ rename \in Renames /\ rename.rev \in Nat /\ rename.got \in Nat /\ rename.of = tab.id
        /\ rename.rev <= tab.rev /\ RenameAndSave /\ SentOf(rename)
    BY <1>5 DEF IInv, TypeOK, Or, Renames, Revs, Fits, RenameFits
  <2>2. rename.answer = "ok"
    BY <1>1, <1>2, <1>5, <2>1 DEF Sunk
  <2>3. rename.got <= save.rev /\ rename.got = rename.rev + 1
    BY <1>1, <2>1, <2>2 DEF RenameAndSave, SentOf
  <2> QED
    BY <1>1, <1>2, <2>1, <2>2, <2>3 DEF RenameAndSave
<1> QED
  BY <1>1, <1>2, <1>3, <1>4, <1>5

\* The answer of the save: its version is the window's, and is clean if nothing was edited since.
LEMMA SaveOkKeeps == ASSUME IInv, SaveOk PROVE IInv'
<1> DEFINE g == save.of
             n == [rev |-> save.got, graph |-> tab.graph]
             t == Finished(g, save.got, save.sent)
<1>1. /\ UNCHANGED <<log, prompt, conflict, dialog, rename, hist>> /\ save # None /\ save.answer = "ok"
      /\ tab' = [t EXCEPT !.busy = After(save.then)] /\ save' = None
      /\ load' = IF save.then = None THEN load ELSE StartLoad(save.then)
      /\ draft' = LET d == Cleaned(draft, tab') IN
                  IF Same(tab.graph, save.sent) THEN [d EXCEPT ![g] = None] ELSE WriteDraft(d, tab')
  BY DEF SaveOk
<1>2. /\ g = tab.id /\ g \in Graphs /\ g # None /\ SentOf(save) /\ save.got \in Revs /\ save.rev \in Nat
      /\ Rev(g) \in Nat /\ tab.rev < save.got /\ save.got <= Rev(g) /\ save.sent \in Contents /\ tab.graph # None
      /\ dialog = None /\ load = None /\ conflict # g
      /\ prompt # None => prompt.variant = "kept"
      /\ rename # None /\ ~Sunk(rename) =>
            /\ save.then = None /\ rename.of = g /\ rename.answer = "ok" /\ rename.got < save.got
            /\ rename.rev < save.got
  BY <1>1, SaveIsNewer
<1>3. /\ TypeOK /\ tab \in Tabs /\ tab.graph \in Contents /\ save \in Saves /\ save.then \in Or(Graphs)
      /\ Good(tab.graph, g) /\ tab.rev \in Nat /\ log[g][save.got] = save.sent.edits /\ save.got = save.rev + 1
      /\ Good(save.sent, g) /\ save.sent # None /\ save.got \in 1..Rev(g)
      /\ save.then # None => Rev(save.then) >= 1
  BY <1>1, <1>2, NoneAssumption
     DEF IInv, TypeOK, Or, Tabs, Saves, Revs, Fits, Screen, SentOf, SaveFits
<1>4. /\ tab' \in Tabs /\ tab'.graph = tab.graph /\ tab'.saved = save.sent /\ tab'.id = g
      /\ tab'.rev = save.got /\ (tab'.dirty <=> ~Same(tab.graph, save.sent)) /\ tab'.past = tab.past
      /\ tab'.busy = IF save.then = None THEN "no" ELSE "loading"
  <2>1. (~Same(tab.graph, save.sent)) \in BOOLEAN
    BY Zenon DEF Same
  <2> DEFINE b == ~Same(tab.graph, save.sent)
  <2> HIDE DEF b
  <2>2. t = [tab EXCEPT !.id = g, !.rev = save.got, !.saved = save.sent, !.dirty = b]
    BY DEF Finished, b
  <2> HIDE DEF t
  <2>3. /\ tab' \in Tabs /\ tab'.graph = tab.graph /\ tab'.saved = save.sent /\ tab'.id = g
        /\ tab'.rev = save.got /\ tab'.dirty = b /\ tab'.past = tab.past
        /\ tab'.busy = IF save.then = None THEN "no" ELSE "loading"
    <3> DEFINE busy == IF save.then = None THEN "no" ELSE "loading"
    <3>1. tab' = [t EXCEPT !.busy = busy] /\ busy \in {"no", "loading"}
      BY <1>1 DEF After
    <3> HIDE DEF busy
    <3>2. b \in BOOLEAN
      BY <2>1 DEF b
    <3>3. /\ t \in Tabs /\ t.graph = tab.graph /\ t.saved = save.sent /\ t.id = g
          /\ t.rev = save.got /\ t.dirty = b /\ t.past = tab.past
      BY <1>2, <1>3, <2>2, <3>2 DEF Tabs, Or
    <3>4. /\ tab' \in Tabs /\ tab'.graph = t.graph /\ tab'.saved = t.saved /\ tab'.id = t.id
          /\ tab'.rev = t.rev /\ tab'.dirty = t.dirty /\ tab'.past = t.past /\ tab'.busy = busy
      BY <3>1, <3>3 DEF Tabs
    <3> QED
      BY <3>3, <3>4 DEF busy
  <2> QED
    BY <2>3 DEF b
<1>5. n \in Drafts /\ n.rev = save.got /\ n.graph = tab.graph /\ n # None
  BY <1>2, <1>3, NoneAssumption DEF Drafts
<1> HIDE DEF n, t
<1>6. /\ draft' \in [Graphs -> Or(Drafts)] /\ \A h \in Graphs \ {g} : draft'[h] = draft[h]
      /\ draft'[g] = IF Same(tab.graph, save.sent) THEN None ELSE n
  <2> DEFINE u == tab'
             d == Cleaned(draft, u)
  <2>1. u.id = tab.id /\ u.id = g /\ u.graph = tab.graph /\ u.rev = save.got
        /\ (u.dirty <=> ~Same(tab.graph, save.sent))
    BY <1>2, <1>4
  <2>2. draft' = IF Same(tab.graph, save.sent) THEN [d EXCEPT ![g] = None] ELSE WriteDraft(d, u)
    BY <1>1
  <2> HIDE DEF u
  <2>3. /\ d \in [Graphs -> Or(Drafts)] /\ \A h \in Graphs : d[h] = draft[h] \/ (d[h] = None /\ h = tab.id)
    BY <1>3, <2>1, CleanedIs
  <2> HIDE DEF d
  <2>4. CASE Same(tab.graph, save.sent)
    BY <1>2, <2>2, <2>3, <2>4 DEF Or
  <2>5. CASE ~Same(tab.graph, save.sent)
    <3>1. draft' = [d EXCEPT ![g] = n]
      BY <1>2, <2>1, <2>2, <2>5 DEF WriteDraft, n
    <3> QED
      BY <1>2, <1>5, <2>3, <2>5, <3>1 DEF Or
  <2> QED
    BY <2>4, <2>5
<1>7. /\ load' \in Or(Loads) /\ (load' # None <=> save.then # None)
      /\ load' # None => load'.of = save.then /\ ~load'.late /\ load'.got = None
  <2>1. CASE save.then = None
    BY <1>1, <1>2, <2>1 DEF Or
  <2>2. CASE save.then # None
    BY <1>1, <1>3, <2>2, StartLoadIs DEF Or
  <2> QED
    BY <2>1, <2>2
<1>8. TypeOK'
  BY <1>1, <1>3, <1>4, <1>6, <1>7 DEF TypeOK, Or
<1>9. Screen' /\ Bounded' /\ SavedStored' /\ Busy'
  <2>1. Screen'
    BY <1>1, <1>2, <1>3, <1>4 DEF IInv, Fits, Screen, Good, Knows, Rev, Same
  <2>2. Bounded' /\ Busy'
    BY <1>1, <1>2, <1>4, <1>7 DEF IInv, Fits, Bounded, Busy, Rev
  <2>3. SavedStored'
    BY <1>1, <1>2, <1>3, <1>4 DEF SavedStored, SavedAt, Rev
  <2> QED
    BY <2>1, <2>2, <2>3
<1>10. \A h \in Graphs : DraftFits(h)'
  <2>1. save.got = Rev(g) => Knows(tab.graph, Top(g))
    BY <1>1, <1>2 DEF IInv, Known, ScreenKnows, Current, Newest, Pending
  <2> TAKE h \in Graphs
  <2>2. CASE h = g
    BY <1>1, <1>3, <1>5, <1>6, <2>1, <2>2 DEF DraftFits, Good, Knows, Top, Rev
  <2>3. CASE h # g
    BY <1>1, <1>6, <2>3 DEF IInv, Fits, DraftFits, Good, Knows, Top, Rev
  <2> QED
    BY <2>2, <2>3
<1>11. SaveFits' /\ DialogFits' /\ LoadFits'
  BY <1>1, <1>2, <1>3, <1>7 DEF SaveFits, DialogFits, LoadFits, Rev
<1>12. rename # None => Sunk(rename) \/ (~Lands(rename) /\ ~Newest(rename))
  <2>1. rename # None => rename.got \in Nat
    BY <1>3 DEF TypeOK, Or, Renames, Revs
  <2> QED
    BY <1>2, <1>3, <2>1 DEF Lands, Newest
<1>13. RenameFits'
  <2> SUFFICES ASSUME rename # None PROVE RenameFits'
    BY <1>1 DEF RenameFits
  <2>1. SentOf(rename)' /\ (Sunk(rename)' <=> Sunk(rename))
    BY <1>1 DEF IInv, Fits, RenameFits, SentOf, Good, Knows, Sunk, Rev
  <2>2. CASE ~Sunk(rename)
    <3>1. RenameAndSave' /\ RenameAndDialog' /\ RenameAndDraft'
      BY <1>1, <1>2, <1>12, <2>2
         DEF RenameAndSave, RenameAndDialog, RenameAndDraft, Lands, Newest, Rev
    <3>2. rename.got <= save.got /\ rename.rev <= save.got
      BY <1>1, <1>2, <2>2 DEF IInv, TypeOK, Or, Renames, Revs
    <3>3. RenameAndSaved'
      BY <1>1, <1>2, <1>3, <1>4, <1>12, <2>2, <3>2 DEF RenameAndSaved, SavedAt, Lands, Newest, Rev
    <3> QED
      BY <1>1, <1>2, <1>4, <1>7, <2>1, <2>2, <3>1, <3>2, <3>3 DEF IInv, Fits, RenameFits
  <2> QED
    BY <1>1, <2>1, <2>2 DEF RenameFits
<1>14. PromptIs' /\ (prompt # None /\ prompt.of = g => prompt.draft.rev < save.got)
  <2>1. prompt # None => prompt.draft.rev \in Nat
    BY <1>3 DEF TypeOK, Or, Prompts, Drafts, Revs
  <2>2. prompt # None /\ prompt.of = g => prompt.draft.rev < save.got
    BY <1>2, <1>3, <2>1 DEF IInv, Fits, PromptIs
  <2> QED
    BY <1>1, <1>2, <1>3, <1>4, <2>1, <2>2 DEF IInv, Fits, PromptIs, Good, Knows, Rev
<1>15. Known'
  <2>1. Current' => Current
    BY <1>1, <1>2, <1>4, <1>12 DEF Current, Newest, Sunk, Rev
  <2>2. ScreenKnows' /\ SaveKnown' /\ PastKnows'
    BY <1>1, <1>2, <1>4, <2>1
       DEF IInv, Known, ScreenKnows, SaveKnown, PastKnows, Knows, Top, Rev, Pending
  <2>3. PromptKnows'
    BY <1>1, <1>2, <1>3, <1>4, <1>14 DEF PromptKnows, TypeOK, Or, Prompts, Drafts, Revs
  <2> QED
    BY <2>2, <2>3 DEF Known
<1>16. Held'
  <2>1. \A x : Logged(x)' = Logged(x)
    BY <1>1 DEF Logged, Rev
  <2>2. \A x : InDraft(x) => InDraft(x)' \/ (draft[g] # None /\ x \in draft[g].graph.edits)
    BY <1>2, <1>6 DEF InDraft
  <2>3. Same(tab.graph, save.sent) => \A x \in tab.graph.edits : Logged(x)
    BY <1>2, <1>3 DEF Logged, Same
  <2>4. ~Same(tab.graph, save.sent) => \A x \in tab.graph.edits : InDraft(x)'
    BY <1>2, <1>5, <1>6 DEF InDraft
  <2> HIDE DEF InDraft, Logged
  <2>5. PastKept' /\ DraftKept'
    BY <1>1, <1>2, <1>4, <1>5, <1>6 DEF IInv, Held, PastKept, DraftKept
  <2>6. LeftKept'
    BY <1>1, <1>4, <2>1, <2>3, <2>4 DEF LeftKept
  <2>7. draft[g] # None => draft[g].graph.edits \subseteq tab.graph.edits \cup hist.gone
    BY <1>2 DEF IInv, Held, DraftKept, Fits, PromptIs, Offered
  <2>8. EditsKept'
    BY <1>1, <1>2, <1>4, <2>1, <2>2, <2>7 DEF IInv, Held, EditsKept
  <2> QED
    BY <2>5, <2>6, <2>8 DEF Held
<1> QED
  BY <1>8, <1>9, <1>10, <1>11, <1>13, <1>14, <1>15, <1>16 DEF IInv, Fits

\* The answer of the rename moves the window, and a draft of its rev, to the new rev.
LEMMA RenameOkKeeps == ASSUME IInv, RenameOk PROVE IInv'
<1> DEFINE g == rename.of
<1>1. /\ UNCHANGED <<log, prompt, conflict, dialog, save, load, hist>>
      /\ rename # None /\ rename.answer = "ok" /\ rename' = None
      /\ tab' = [tab EXCEPT !.id = g, !.rev = rename.got,
                            !.dirty = tab.graph # None /\ ~Same(tab.graph, tab.saved)]
      /\ draft' = IF draft[g] = None THEN draft ELSE [draft EXCEPT ![g].rev = rename.got]
  BY DEF RenameOk
<1>2. /\ TypeOK /\ rename \in Renames /\ g \in Graphs /\ g # None /\ rename.got \in Revs /\ rename.rev \in Nat
      /\ g = tab.id /\ load = None /\ SentOf(rename) /\ RenameAndSave /\ RenameAndSaved /\ RenameAndDraft
      /\ prompt # None /\ prompt.of = tab.id => prompt.draft.rev <= rename.rev
      /\ rename.got \in Nat /\ tab \in Tabs /\ Rev(g) \in Nat
  BY <1>1, GraphsAssumption DEF IInv, TypeOK, Or, Renames, Revs, Rev, Fits, RenameFits, Sunk
<1>3. /\ rename.got = rename.rev + 1 /\ rename.got \in 1..Rev(g) /\ log[g][rename.got] = rename.sent.edits
      /\ tab.graph # None /\ SavedAt(rename.got)
      /\ rename.got = Rev(g) => Newest(rename) /\ Current /\ Top(g) = rename.sent.edits
  BY <1>1, <1>2 DEF SentOf, RenameAndSaved, Newest, Current, Top, IInv, Fits, Screen
<1>4. /\ tab' \in Tabs /\ tab'.graph = tab.graph /\ tab'.saved = tab.saved /\ tab'.id = g
      /\ tab'.rev = rename.got /\ tab'.dirty = tab.dirty /\ tab'.past = tab.past /\ tab'.busy = tab.busy
  <2>1. tab.dirty = (tab.graph # None /\ ~Same(tab.graph, tab.saved))
    <3>1. (tab.graph # None /\ ~Same(tab.graph, tab.saved)) \in BOOLEAN /\ tab.dirty \in BOOLEAN
      BY <1>2, Zenon DEF Same, Tabs
    <3>2. tab.dirty <=> (tab.graph # None /\ ~Same(tab.graph, tab.saved))
      BY <1>2, <1>3 DEF IInv, Fits, Screen
    <3> QED
      BY <3>1, <3>2
  <2> DEFINE b == tab.graph # None /\ ~Same(tab.graph, tab.saved)
  <2> HIDE DEF b
  <2>2. tab' = [tab EXCEPT !.id = g, !.rev = rename.got, !.dirty = b] /\ tab.dirty = b
    BY <1>1, <2>1 DEF b
  <2> QED
    BY <1>2, <2>2 DEF Tabs, Or
<1>5. /\ draft' \in [Graphs -> Or(Drafts)] /\ \A h \in Graphs : (draft'[h] = None <=> draft[h] = None)
      /\ \A h \in Graphs : draft[h] # None => draft'[h].graph = draft[h].graph
      /\ \A h \in Graphs : h # g => draft'[h] = draft[h]
      /\ draft[g] # None => draft'[g].rev = rename.got
  <2>1. CASE draft[g] = None
    BY <1>1, <1>2, <2>1 DEF TypeOK
  <2>2. CASE draft[g] # None
    <3> DEFINE d == [draft[g] EXCEPT !.rev = rename.got]
    <3>1. draft' = [draft EXCEPT ![g] = d] /\ draft[g] \in Drafts
      BY <1>1, <1>2, <2>2 DEF TypeOK, Or
    <3>2. d \in Drafts /\ d.rev = rename.got /\ d.graph = draft[g].graph /\ d # None
      BY <1>2, <3>1, NoneAssumption DEF Drafts
    <3> HIDE DEF d
    <3> QED
      BY <1>2, <2>2, <3>1, <3>2 DEF TypeOK, Or
  <2> QED
    BY <2>1, <2>2
<1>6. TypeOK'
  BY <1>1, <1>2, <1>4, <1>5 DEF TypeOK, Or
<1>7. Fits'
  <2>1. Screen' /\ Bounded' /\ SavedStored' /\ Busy'
    BY <1>1, <1>2, <1>3, <1>4
       DEF IInv, Fits, Screen, Bounded, SavedStored, SavedAt, Busy, Good, Knows, Rev, Same
  <2>2. \A h \in Graphs : DraftFits(h)'
    <3> TAKE h \in Graphs
    <3>1. CASE h = g
      <4>1. rename.got = Rev(g) /\ draft[g] # None => Knows(draft[g].graph, Top(g))
        BY <1>2, <1>3 DEF RenameAndDraft
      <4> QED
        BY <1>1, <1>2, <1>3, <1>5, <3>1, <4>1 DEF IInv, Fits, DraftFits, Good, Knows, Top, Rev
    <3>2. CASE h # g
      BY <1>1, <1>5, <3>2 DEF IInv, Fits, DraftFits, Good, Knows, Top, Rev
    <3> QED
      BY <3>1, <3>2
  <2>3. SaveFits'
    <3> SUFFICES ASSUME save # None PROVE SaveFits'
      BY <1>1 DEF SaveFits
    <3>1. save.rev \in Nat /\ SaveFits
      BY DEF IInv, TypeOK, Or, Saves, Revs, Fits
    <3>2. rename.got <= save.rev \/ Sunk(save)
      BY <1>1, <1>2 DEF RenameAndSave
    <3>3. save.then # None => save.rev <= rename.got
      BY <1>2, <1>3, <3>1 DEF RenameAndSave
    <3> QED
      BY <1>1, <1>2, <1>4, <3>1, <3>2, <3>3 DEF SaveFits, SentOf, Sunk, Lands, Good, Knows, Top, Rev
  <2>4. DialogFits' /\ LoadFits' /\ RenameFits'
    BY <1>1, <1>2, <1>4 DEF IInv, Fits, DialogFits, LoadFits, RenameFits, At, Pending, Rev
  <2>5. PromptIs'
    <3>1. prompt # None => prompt.of \in Graphs /\ prompt.draft.rev \in Nat
      BY <1>2 DEF TypeOK, Or, Prompts, Drafts, Revs
    <3> QED
      BY <1>1, <1>2, <1>3, <1>4, <1>5, <3>1 DEF IInv, Fits, PromptIs, Good, Knows, Rev
  <2> QED
    BY <2>1, <2>2, <2>3, <2>4, <2>5 DEF Fits
<1>8. Current' => Current
  BY <1>1, <1>2, <1>3, <1>4 DEF Current, Newest, Lands, Rev
<1>9. Known'
  <2>1. ScreenKnows' /\ SaveKnown' /\ PastKnows'
    BY <1>1, <1>2, <1>4, <1>8
       DEF IInv, Known, ScreenKnows, SaveKnown, PastKnows, Lands, Knows, Top, Rev, Pending
  <2>2. prompt # None /\ prompt.of = g => prompt.draft.rev # rename.got
    <3>1. prompt # None => prompt.draft.rev \in Nat
      BY <1>2 DEF TypeOK, Or, Prompts, Drafts, Revs
    <3> QED
      BY <1>2, <1>3, <3>1
  <2>3. PromptKnows'
    BY <1>1, <1>2, <1>4, <1>8, <2>2 DEF IInv, Known, PromptKnows, Lands, Knows, Top, Rev
  <2> QED
    BY <2>1, <2>3 DEF Known
<1>10. Held'
  <2>1. \A x : Logged(x)' = Logged(x)
    BY <1>1 DEF Logged, Rev
  <2>2. \A x : InDraft(x) => InDraft(x)'
    BY <1>5 DEF InDraft
  <2> HIDE DEF InDraft, Logged
  <2> QED
    BY <1>1, <1>2, <1>4, <1>5, <2>1, <2>2
       DEF IInv, Held, PastKept, DraftKept, LeftKept, EditsKept, Offered
<1> QED
  BY <1>6, <1>7, <1>9, <1>10 DEF IInv

\* Overwrite saves over a version the user has seen in Compare.
LEMMA OverwriteKeeps == ASSUME IInv, Overwrite PROVE IInv'
<1> DEFINE g == dialog.of
           S == tab.graph.edits
           t == Finished(g, dialog.got.rev + 1, tab.graph)
<1>1. /\ dialog # None /\ dialog.got # None /\ save = None /\ UNCHANGED <<prompt, save, rename, load, hist>>
      /\ IF Rev(g) = dialog.got.rev
         THEN /\ Rev(g) < MaxRev /\ log' = [log EXCEPT ![g] = Append(@, S)] /\ tab' = t
              /\ draft' = Cleared(g) /\ conflict' = None /\ dialog' = None
         ELSE /\ dialog' = [dialog EXCEPT !.got = None, !.compared = FALSE]
              /\ UNCHANGED <<log, tab, draft, conflict>>
  BY DEF Overwrite, Shown
<1>2. /\ TypeOK /\ dialog \in Dialogs /\ g = tab.id /\ g \in Graphs /\ g # None /\ load = None /\ Pending
      /\ tab.graph # None /\ tab.graph \in Contents /\ S \in SUBSET Edits /\ Good(tab.graph, g)
      /\ tab.rev \in 1..Rev(g) /\ Rev(g) \in Nat /\ tab \in Tabs
      /\ prompt # None => prompt.variant = "kept"
  BY <1>1
     DEF IInv, TypeOK, Or, Tabs, Contents, Fits, DialogFits, Pending, Screen, Dialogs, PromptIs, Rev
<1>3. CASE Rev(g) # dialog.got.rev
  <2>1. dialog' \in Dialogs /\ dialog'.of = g /\ dialog'.got = None /\ dialog' # None
    <3>1. dialog' \in Dialogs /\ dialog'.of = g /\ dialog'.got = None
      BY <1>1, <1>2, <1>3 DEF Dialogs, Or
    <3> QED
      BY <3>1, NoneAssumption
  <2>2. TypeOK'
    BY <1>1, <1>2, <1>3, <2>1 DEF TypeOK, Or
  <2>3. Fits'
    BY <1>1, <1>3, <2>1
       DEF IInv, Fits, Bounded, Screen, SavedStored, Busy, DraftFits, SaveFits, DialogFits,
           LoadFits, RenameFits, PromptIs, RenameAndSave, RenameAndDialog, RenameAndSaved,
           RenameAndDraft, SavedAt, Lands, Newest, Sunk, SentOf, Good, Knows, Top, At, Rev,
           Pending
  <2>4. Known'
    BY <1>1, <1>3
       DEF IInv, Known, PromptKnows, ScreenKnows, SaveKnown, PastKnows, Current, Lands, Newest,
           Good, Knows, Top, Rev, Pending
  <2>5. Held'
    BY <1>1, <1>3
       DEF IInv, Held, PastKept, DraftKept, LeftKept, EditsKept, InDraft, Logged, Offered, Rev
  <2> QED
    BY <2>2, <2>3, <2>4, <2>5 DEF IInv
<1>4. CASE Rev(g) = dialog.got.rev
  <2>1. /\ Rev(g) < MaxRev /\ log' = [log EXCEPT ![g] = Append(@, S)] /\ tab' = t
        /\ draft' = Cleared(g) /\ conflict' = None /\ dialog' = None
        /\ UNCHANGED <<prompt, save, rename, load, hist>> /\ save = None
    BY <1>1, <1>4
  <2>2. /\ \A h \in Graphs : /\ Rev(h) \in Nat /\ Rev(h)' \in Nat /\ Rev(h) <= Rev(h)'
                             /\ h # g => Rev(h)' = Rev(h) /\ Top(h)' = Top(h)
                             /\ \A r \in 1..Rev(h) : r \in 1..Rev(h)' /\ log'[h][r] = log[h][r]
        /\ Len(log'[g]) = Rev(g) + 1 /\ log'[g][Rev(g) + 1] = S
        /\ log' \in [Graphs -> Seq(SUBSET Edits)]
        /\ \A e : Logged(e) => Logged(e)'
    <3>1. log \in [Graphs -> Seq(SUBSET Edits)]
      BY <1>2 DEF TypeOK
    <3>2. Len(log'[tab.id]) = Rev(g) + 1 /\ log'[g][Rev(g) + 1] = S /\ log' \in [Graphs -> Seq(SUBSET Edits)]
      <4> DEFINE i == tab.id
      <4>1. i \in Graphs /\ log' = [log EXCEPT ![i] = Append(@, S)]
        BY <1>2, <2>1
      <4> HIDE DEF i
      <4>2. log'[i] = Append(log[i], S) /\ log[i] \in Seq(SUBSET Edits)
        BY <3>1, <4>1
      <4> QED
        BY <1>2, <3>1, <4>1, <4>2 DEF i, Rev
    <3> QED
      BY <1>2, <2>1, <3>1, <3>2, LogKept
  <2>3. Same(tab.graph, tab.graph)
    BY <1>2 DEF Same
  <2>4. /\ tab' \in Tabs /\ tab'.graph = tab.graph /\ tab'.saved = tab.graph /\ tab'.id = g
        /\ tab'.rev = Rev(g) + 1 /\ ~tab'.dirty /\ tab'.past = tab.past /\ tab'.busy = tab.busy
    <3>1. t = [tab EXCEPT !.id = g, !.rev = Rev(g) + 1, !.saved = tab.graph, !.dirty = FALSE]
      BY <1>4, <2>3 DEF Finished
    <3>2. Rev(g) + 1 \in Revs
      BY <1>2, <2>1, BoundAssumption DEF Revs
    <3> HIDE DEF t
    <3> QED
      BY <1>2, <2>1, <3>1, <3>2 DEF Tabs, Or
  <2> HIDE DEF t
  <2>5. draft' \in [Graphs -> Or(Drafts)] /\ draft'[g] = None /\ \A h \in Graphs : h # g => draft'[h] = draft[h]
    BY <1>2, <2>1, ClearedIs
  <2>6. TypeOK'
    BY <1>2, <2>1, <2>2, <2>4, <2>5 DEF TypeOK, Or
  <2>7. Screen' /\ Bounded' /\ SavedStored' /\ Busy'
    <3>1. Screen'
      <4>1. tab'.past # None => Good(tab.past, g)
        BY <1>2, <2>4 DEF IInv, Fits, Screen
      <4>2. tab'.rev \in 1..Len(log'[g])
        BY <1>2, <2>2, <2>4
      <4> QED
        BY <1>2, <2>1, <2>3, <2>4, <4>1, <4>2 DEF Screen, Good, Knows, Rev
    <3>2. Bounded'
      BY <1>2, <2>1, <2>2, BoundAssumption DEF IInv, Fits, Bounded, Rev
    <3>3. SavedStored'
      BY <1>2, <2>2, <2>4 DEF SavedStored, SavedAt, Rev
    <3>4. Busy'
      BY <2>1, <2>4 DEF IInv, Fits, Busy
    <3> QED
      BY <3>1, <3>2, <3>3, <3>4
  <2>8. \A h \in Graphs : DraftFits(h)'
    <3> TAKE h \in Graphs
    <3>1. CASE h = g
      BY <2>5, <3>1 DEF DraftFits
    <3>2. CASE h # g
      BY <2>1, <2>2, <2>5, <3>2 DEF IInv, Fits, DraftFits, Good, Knows
    <3> QED
      BY <3>1, <3>2
  <2>9. SaveFits' /\ DialogFits' /\ LoadFits'
    BY <1>2, <2>1 DEF SaveFits, DialogFits, LoadFits
  <2>10. RenameFits' /\ (rename # None => ~Newest(rename)')
    <3> SUFFICES ASSUME rename # None PROVE RenameFits' /\ ~Newest(rename)'
      BY <2>1 DEF RenameFits
    <3>1. rename \in Renames /\ rename.of \in Graphs /\ rename.rev \in Nat /\ rename.got \in Nat /\ SentOf(rename)
      BY DEF IInv, TypeOK, Or, Renames, Revs, Fits, RenameFits
    <3>2. SentOf(rename)'
      BY <2>1, <2>2, <3>1 DEF SentOf, Good, Knows
    <3>3. /\ Lands(rename)' => Lands(rename) /\ rename.of # g
          /\ Newest(rename)' => Newest(rename) /\ rename.of # g
          /\ Sunk(rename) => Sunk(rename)'
      BY <1>2, <2>1, <3>1, RequestsLose DEF Lands, Newest, Sunk
    <3>4. ~Sunk(rename) => rename.of = g /\ rename.rev <= Rev(g) /\ (rename.answer = "ok" => rename.got <= Rev(g))
      BY <1>2, <3>1 DEF IInv, Fits, RenameFits, SentOf
    <3>5. ~Newest(rename)'
      BY <3>3, <3>4 DEF Newest, Sunk
    <3>6. CASE ~Sunk(rename)
      <4>1. RenameAndSave' /\ RenameAndDialog' /\ RenameAndDraft'
        BY <2>1, <2>5, <3>4, <3>6 DEF RenameAndSave, RenameAndDialog, RenameAndDraft
      <4>2. RenameAndSaved'
        <5>1. rename.answer = "ok" => rename.got <= Rev(g) + 1
          BY <1>2, <3>1, <3>4, <3>6
        <5>2. rename.answer = "ok" => SavedAt(rename.got)'
          BY <1>2, <2>1, <2>2, <2>4, <5>1 DEF SavedAt, Rev
        <5> QED
          BY <2>1, <3>3, <3>4, <3>5, <3>6, <5>2 DEF RenameAndSaved
      <4>3. rename.rev <= Rev(g) + 1
        BY <1>2, <3>1, <3>4, <3>6
      <4> QED
        BY <1>2, <2>1, <2>4, <3>2, <3>4, <3>5, <3>6, <4>1, <4>2, <4>3 DEF IInv, Fits, RenameFits
    <3> QED
      BY <2>1, <3>2, <3>3, <3>5, <3>6 DEF RenameFits
  <2>11. PromptIs' /\ (prompt # None /\ prompt.of = g => prompt.draft.rev < Rev(g) + 1)
    <3>1. prompt # None => prompt.of \in Graphs /\ prompt.draft.rev \in Nat
      BY <1>2 DEF TypeOK, Or, Prompts, Drafts, Revs
    <3>2. prompt # None /\ prompt.of = g => prompt.draft.rev < Rev(g) + 1
      BY <1>2, <3>1 DEF IInv, Fits, PromptIs
    <3> QED
      BY <1>2, <2>1, <2>2, <2>4, <3>1, <3>2 DEF IInv, Fits, PromptIs, Good, Knows
  <2>12. Known'
    <3>1. Top(tab.id)' = S
      BY <1>2, <2>2, <2>4 DEF Top, Rev
    <3>2. tab.past # None => Knows(tab.past, S)
      BY <1>2 DEF IInv, Known, PastKnows
    <3>3. ScreenKnows' /\ SaveKnown' /\ PastKnows'
      BY <1>2, <2>1, <2>4, <3>1, <3>2 DEF ScreenKnows, SaveKnown, PastKnows, Good, Knows
    <3>4. prompt # None => prompt.draft.rev \in Nat
      BY <1>2 DEF TypeOK, Or, Prompts, Drafts, Revs
    <3>5. PromptKnows'
      BY <1>2, <2>1, <2>4, <2>11, <3>4 DEF PromptKnows
    <3> QED
      BY <3>3, <3>5 DEF Known
  <2>13. Held'
    <3>1. \A x : InDraft(x) => InDraft(x)' \/ (draft[g] # None /\ x \in draft[g].graph.edits)
      BY <1>2, <2>5 DEF InDraft
    <3> HIDE DEF InDraft, Logged
    <3>2. draft[g] # None => draft[g].graph.edits \subseteq S \cup hist.gone
      BY <1>2 DEF IInv, Held, DraftKept, Fits, PromptIs, Offered
    <3> QED
      BY <1>2, <2>1, <2>2, <2>4, <2>5, <3>1, <3>2
         DEF IInv, Held, PastKept, DraftKept, LeftKept, EditsKept
  <2> QED
    BY <2>6, <2>7, <2>8, <2>9, <2>10, <2>11, <2>12, <2>13 DEF IInv, Fits
<1> QED
  BY <1>3, <1>4

-----------------------------------------------------------------------------
(* A new graph, a death, and the whole.                                    *)

\* Save as goes on with a graph of its own, whose only version is what is on screen.
LEMMA SaveAsKeeps == ASSUME IInv, MayAct = {}, NEW g \in Graphs, SaveAs(g) PROVE IInv'
<1> DEFINE c == [tab.graph EXCEPT !.of = g]
           q == [tab.past EXCEPT !.of = g, !.knows = @ \cup c.edits]
           p == IF tab.past = None THEN None ELSE q
           S == tab.graph.edits
<1>1. /\ tab.graph # None /\ log[g] = <<>> /\ save = None /\ rename = None /\ load = None
      /\ prompt # None => prompt.variant = "kept"
      /\ log' = [log EXCEPT ![g] = <<c.edits>>]
      /\ tab' = [tab EXCEPT !.graph = c, !.saved = c, !.past = p, !.id = g, !.rev = 1, !.dirty = FALSE]
      /\ draft' = IF tab.id = None THEN draft ELSE Cleared(tab.id)
      /\ conflict' = None /\ dialog' = None /\ UNCHANGED <<prompt, save, rename, load, hist>>
  BY DEF SaveAs, Quiet, Still
<1>2. /\ TypeOK /\ tab \in Tabs /\ tab.graph \in Contents /\ tab.id \in Graphs /\ tab.id # None /\ g # None
      /\ S \in SUBSET Edits /\ Good(tab.graph, tab.id) /\ tab.rev \in 1..Rev(tab.id) /\ tab.past \in Or(Contents)
      /\ tab.past # None => Good(tab.past, tab.id)
  BY <1>1, GraphsAssumption DEF IInv, TypeOK, Or, Tabs, Contents, Fits, Screen
<1>3. Rev(g) = 0 /\ tab.id # g /\ log[g] \in Seq(SUBSET Edits)
  BY <1>1, <1>2 DEF TypeOK, Rev
<1>4. /\ c \in Contents /\ c.of = g /\ c.edits = S /\ c.knows = tab.graph.knows /\ c # None
  BY <1>2, NoneAssumption DEF Contents
<1>5. tab.past # None => /\ q \in Contents /\ q.of = g /\ q.edits = tab.past.edits
                         /\ q.knows = tab.past.knows \cup S /\ q # None
  <2> DEFINE k == tab.past.knows \cup S
  <2>1. q = [tab.past EXCEPT !.of = g, !.knows = k]
    BY <1>4
  <2>2. tab.past # None => tab.past \in Contents
    BY <1>2 DEF Or
  <2>3. tab.past \in Contents => k \in SUBSET Edits
    BY <1>2 DEF Contents
  <2> HIDE DEF c, q, S, k
  <2>4. tab.past # None => /\ q \in Contents /\ q.of = g /\ q.edits = tab.past.edits /\ q.knows = k
    BY <2>1, <2>2, <2>3 DEF Contents
  <2> QED
    BY <2>4, NoneAssumption DEF k
<1> HIDE DEF c, q
<1>6. p \in Or(Contents) /\ (p # None => tab.past # None /\ p = q)
  BY <1>5 DEF Or
<1> HIDE DEF p
<1>7. /\ tab' \in Tabs /\ tab'.graph = c /\ tab'.saved = c /\ tab'.past = p /\ tab'.id = g /\ tab'.rev = 1
      /\ ~tab'.dirty /\ tab'.busy = tab.busy
  <2>1. 1 \in Revs
    BY BoundAssumption DEF Revs
  <2> QED
    BY <1>1, <1>2, <1>4, <1>6, <2>1 DEF Tabs, Or
<1>8. log' = [log EXCEPT ![g] = Append(@, S)]
  <2>1. Append(log[g], S) = <<S>>
    BY <1>1
  <2> QED
    BY <1>1, <1>4, <2>1
<1>9. /\ \A h \in Graphs : /\ Rev(h) \in Nat /\ Rev(h)' \in Nat /\ Rev(h) <= Rev(h)'
                           /\ h # g => Rev(h)' = Rev(h) /\ Top(h)' = Top(h)
                           /\ \A r \in 1..Rev(h) : r \in 1..Rev(h)' /\ log'[h][r] = log[h][r]
      /\ Len(log'[g]) = 1 /\ log'[g][1] = S
      /\ log' \in [Graphs -> Seq(SUBSET Edits)]
      /\ \A e : Logged(e) => Logged(e)'
  <2>1. log \in [Graphs -> Seq(SUBSET Edits)] /\ S \in SUBSET Edits
    BY <1>2 DEF TypeOK
  <2>2. Rev(g)' = 1 /\ log'[g][1] = S /\ log' \in [Graphs -> Seq(SUBSET Edits)]
    <3>1. log'[g] = Append(<<>>, S) /\ log' \in [Graphs -> Seq(SUBSET Edits)]
      BY <1>1, <1>3, <1>8, <2>1
    <3> QED
      BY <2>1, <3>1 DEF Rev
  <2> QED
    BY <1>8, <2>1, <2>2, LogKept DEF Rev
<1>10. draft' \in [Graphs -> Or(Drafts)] /\ draft'[tab.id] = None
       /\ \A h \in Graphs : h # tab.id => draft'[h] = draft[h]
  BY <1>1, <1>2, ClearedIs
<1>11. TypeOK'
  BY <1>1, <1>2, <1>7, <1>9, <1>10 DEF TypeOK, Or
<1>12. draft'[g] = None
  BY <1>3, <1>10 DEF IInv, Fits, DraftFits
<1>13. Fits'
  <2>1. Screen'
    <3>1. Good(c, g) /\ (p # None => Good(p, g))
      BY <1>2, <1>4, <1>5, <1>6 DEF Good, Knows
    <3> QED
      BY <1>1, <1>2, <1>4, <1>7, <1>9, <3>1 DEF Screen, Good, Knows, Rev, Same
  <2>2. Bounded'
    BY <1>9, <1>1, BoundAssumption DEF IInv, Fits, Bounded, Rev
  <2>3. SavedStored'
    BY <1>4, <1>7, <1>9 DEF SavedStored, SavedAt, Rev
  <2>4. Busy' /\ SaveFits' /\ DialogFits' /\ LoadFits' /\ RenameFits'
    BY <1>1, <1>7 DEF IInv, Fits, Busy, SaveFits, DialogFits, LoadFits, RenameFits
  <2>5. \A h \in Graphs : DraftFits(h)'
    <3> TAKE h \in Graphs
    <3>1. CASE draft'[h] = None
      BY <3>1 DEF DraftFits
    <3>2. CASE draft'[h] # None
      BY <1>1, <1>9, <1>10, <1>12, <3>2 DEF IInv, Fits, DraftFits, Good, Knows
    <3> QED
      BY <3>1, <3>2
  <2>6. PromptIs'
    <3>1. prompt # None => prompt.of \in Graphs /\ prompt.of # g
      BY <1>2, <1>3 DEF TypeOK, Or, Prompts, IInv, Fits, PromptIs
    <3> QED
      BY <1>1, <1>7, <1>9, <3>1 DEF IInv, Fits, PromptIs, Good, Knows
  <2> QED
    BY <2>1, <2>2, <2>3, <2>4, <2>5, <2>6 DEF Fits
<1>14. Known'
  <2>1. Top(g)' = S
    BY <1>9 DEF Top, Rev
  <2>2. prompt # None => prompt.of # g
    BY <1>3 DEF IInv, Fits, PromptIs
  <2>3. p # None => Knows(p, S)
    BY <1>5, <1>6 DEF Knows
  <2> QED
    BY <1>1, <1>2, <1>4, <1>7, <2>1, <2>2, <2>3
       DEF Known, PromptKnows, ScreenKnows, SaveKnown, PastKnows, Good, Knows, Pending
<1>15. Held'
  <2>1. \A x : InDraft(x) => InDraft(x)' \/ (draft[tab.id] # None /\ x \in draft[tab.id].graph.edits)
    BY <1>2, <1>10 DEF InDraft
  <2> HIDE DEF InDraft, Logged
  <2>2. draft[tab.id] # None => draft[tab.id].graph.edits \subseteq S \cup hist.gone
    BY <1>1, <1>2 DEF IInv, Held, DraftKept, Fits, PromptIs, Offered
  <2>3. PastKept'
    BY <1>1, <1>4, <1>5, <1>6, <1>7 DEF IInv, Held, PastKept
  <2>4. DraftKept' /\ LeftKept'
    BY <1>1, <1>7, <1>12 DEF DraftKept, LeftKept
  <2>5. EditsKept'
    BY <1>1, <1>4, <1>7, <1>9, <2>1, <2>2 DEF IInv, Held, EditsKept
  <2> QED
    BY <2>3, <2>4, <2>5 DEF Held
<1> QED
  BY <1>11, <1>13, <1>14, <1>15 DEF IInv

\* The draft written last.
LEMMA WrittenKeeps ==
  ASSUME IInv, Rebase, MayAct = {}, UNCHANGED <<log>>, hist'.mine = hist.mine, draft' = WriteDraft(draft, tab)
  PROVE  /\ draft' \in [Graphs -> Or(Drafts)] /\ \A h \in Graphs : DraftFits(h)'
         /\ \A x \in hist.mine : x \in hist.gone \/ InDraft(x)' \/ Logged(x)
<1>1. CASE tab.graph = None \/ ~tab.dirty \/ tab.id = None
  <2>1. draft' = draft
    BY <1>1 DEF WriteDraft
  <2>2. tab.graph # None => tab.id # None /\ Same(tab.graph, tab.saved)
    BY <1>1 DEF IInv, Fits, Screen
  <2>3. tab.graph # None => \A x \in tab.graph.edits : Logged(x)
    BY <2>2, SavedLogged DEF Same
  <2>4. \A x : InDraft(x)' = InDraft(x)
    BY <2>1 DEF InDraft
  <2>5. \A h \in Graphs : DraftFits(h)'
    BY <2>1 DEF IInv, Fits, DraftFits, Good, Knows, Top, Rev
  <2> HIDE DEF InDraft, Logged
  <2> QED
    BY <2>1, <2>3, <2>4, <2>5 DEF IInv, TypeOK, Held, EditsKept
<1>2. CASE tab.graph # None /\ tab.dirty /\ tab.id # None
  <2> DEFINE d == [rev |-> tab.rev, graph |-> tab.graph]
  <2>1. /\ tab \in Tabs /\ tab.id \in Graphs /\ tab.graph \in Contents /\ draft \in [Graphs -> Or(Drafts)]
        /\ tab.rev \in 1..Rev(tab.id) /\ Rev(tab.id) \in Nat /\ Good(tab.graph, tab.id)
    BY <1>2 DEF IInv, TypeOK, Or, Fits, Screen, Tabs, Rev
  <2>2. draft' = [draft EXCEPT ![tab.id] = d]
    BY <1>2 DEF WriteDraft
  <2>3. d \in Drafts /\ d.rev = tab.rev /\ d.graph = tab.graph /\ d # None
    BY <2>1, NoneAssumption DEF Drafts, Tabs
  <2> HIDE DEF d
  <2>4. /\ draft' \in [Graphs -> Or(Drafts)] /\ draft'[tab.id] = d
        /\ \A h \in Graphs \ {tab.id} : draft'[h] = draft[h]
    BY <2>1, <2>2, <2>3 DEF Or
  <2>5. log[tab.id][tab.rev] \ hist.mine \subseteq tab.graph.knows
    BY <1>2 DEF Rebase, Based
  <2>6. \A h \in Graphs : DraftFits(h)'
    BY <1>2, <2>1, <2>3, <2>4, <2>5 DEF IInv, Fits, DraftFits, Good, Knows, Top, Rev
  <2>7. draft[tab.id] # None => draft[tab.id].graph.edits \subseteq tab.graph.edits \cup hist.gone
    BY <1>2 DEF IInv, Held, DraftKept, Fits, PromptIs, Offered
  <2>8. \A x : InDraft(x) => InDraft(x)' \/ (draft[tab.id] # None /\ x \in draft[tab.id].graph.edits)
    BY <2>1, <2>4 DEF InDraft
  <2>9. \A x \in tab.graph.edits : InDraft(x)'
    BY <2>1, <2>3, <2>4 DEF InDraft
  <2> HIDE DEF InDraft, Logged
  <2> QED
    BY <2>4, <2>6, <2>7, <2>8, <2>9 DEF IInv, Held, EditsKept
<1> QED
  BY <1>1, <1>2

\* A page that closes writes its draft; one that dies loses what no draft has.
LEMMA DieKeeps == ASSUME IInv, MayAct = {}, NEW clean \in BOOLEAN, Die(clean) PROVE IInv'
<1> DEFINE more == IF clean \/ tab.graph = None THEN {}
                   ELSE (UNION {c.edits : c \in {tab.graph, tab.past} \ {None}}) \ Drafted
<1>1. /\ tab' = NoGraph /\ prompt' = None /\ conflict' = None /\ dialog' = None
      /\ save' = None /\ rename' = None /\ load' = None /\ log' = log
      /\ clean => Rebase
      /\ draft' = IF clean THEN WriteDraft(draft, tab) ELSE draft
      /\ hist.deaths < MaxDie
  BY DEF Die
<1>2. hist' = [hist EXCEPT !.deaths = @ + 1, !.gone = @ \cup more]
  <2>1. hist' = [hist EXCEPT !.deaths = @ + 1,
                   !.gone = IF clean \/ tab.graph = None THEN @
                            ELSE @ \cup ((UNION {c.edits : c \in {tab.graph, tab.past} \ {None}}) \ Drafted)]
    BY DEF Die
  <2>2. CASE clean \/ tab.graph = None
    BY <2>1, <2>2
  <2>3. CASE ~(clean \/ tab.graph = None)
    BY <2>1, <2>3
  <2> QED
    BY <2>2, <2>3
<1>3. TypeOK /\ tab.graph \in Or(Contents) /\ tab.past \in Or(Contents)
  BY DEF IInv, TypeOK, Tabs
<1>4. more \subseteq Edits
  <2> SUFFICES ASSUME NEW x \in more PROVE x \in Edits
    OBVIOUS
  <2>1. \A c \in {tab.graph, tab.past} \ {None} : c.edits \subseteq Edits
    BY <1>3 DEF Or, Contents
  <2>2. PICK c \in {tab.graph, tab.past} \ {None} : x \in c.edits
    OBVIOUS
  <2> QED
    BY <2>1, <2>2
<1>5. ~clean /\ tab.graph # None => \A x \in tab.graph.edits : x \in more \/ InDraft(x)
  <2> SUFFICES ASSUME ~clean, tab.graph # None, NEW x \in tab.graph.edits, x \notin more PROVE InDraft(x)
    OBVIOUS
  <2>1. x \in UNION {c.edits : c \in {tab.graph, tab.past} \ {None}}
    OBVIOUS
  <2>2. x \in Drafted
    BY <2>1
  <2> QED
    BY <2>2 DEF Drafted, InDraft
<1> HIDE DEF more
<1>6. /\ hist'.mine = hist.mine /\ hist'.gone = hist.gone \cup more
      /\ hist' \in [made: 0..MaxEdit, mine: SUBSET Edits, gone: SUBSET Edits, deaths: 0..MaxDie]
  <2>1. hist.deaths + 1 \in 0..MaxDie
    BY <1>1, <1>3, BoundAssumption DEF TypeOK
  <2> QED
    BY <1>2, <1>3, <1>4, <2>1 DEF TypeOK
<1>7. NoGraph \in Tabs
  BY BoundAssumption DEF NoGraph, Tabs, Or, Revs
<1>8. /\ draft' \in [Graphs -> Or(Drafts)] /\ \A h \in Graphs : DraftFits(h)'
      /\ \A x \in hist.mine : x \in hist'.gone \/ InDraft(x)' \/ Logged(x)
  <2>1. CASE clean
    <3>1. /\ draft' \in [Graphs -> Or(Drafts)] /\ \A h \in Graphs : DraftFits(h)'
          /\ \A x \in hist.mine : x \in hist.gone \/ InDraft(x)' \/ Logged(x)
      BY <1>1, <1>6, <2>1, WrittenKeeps
    <3> HIDE DEF InDraft, Logged
    <3> QED
      BY <1>6, <3>1
  <2>2. CASE ~clean
    <3>1. \A x : InDraft(x)' = InDraft(x)
      BY <1>1, <2>2 DEF InDraft
    <3>2. \A h \in Graphs : DraftFits(h)'
      BY <1>1, <1>6, <2>2 DEF IInv, Fits, DraftFits, Good, Knows, Top, Rev
    <3> HIDE DEF InDraft, Logged
    <3> QED
      BY <1>1, <1>3, <1>5, <1>6, <2>2, <3>1, <3>2 DEF TypeOK, IInv, Held, EditsKept
  <2> QED
    BY <2>1, <2>2
<1>9. TypeOK'
  BY <1>1, <1>3, <1>6, <1>7, <1>8 DEF TypeOK, Or
<1>10. Fits'
  <2>1. Bounded' /\ Screen' /\ SavedStored' /\ Busy'
    BY <1>1 DEF IInv, Fits, Bounded, Screen, SavedStored, Busy, NoGraph, Rev
  <2> QED
    BY <1>1, <1>8, <2>1 DEF Fits, SaveFits, DialogFits, LoadFits, RenameFits, PromptIs
<1>11. Known'
  BY <1>1 DEF Known, PromptKnows, ScreenKnows, SaveKnown, PastKnows, NoGraph
<1>12. Held'
  <2>1. \A x : Logged(x)' = Logged(x)
    BY <1>1 DEF Logged, Rev
  <2> HIDE DEF InDraft, Logged
  <2> QED
    BY <1>1, <1>6, <1>8, <2>1 DEF Held, PastKept, DraftKept, LeftKept, EditsKept, NoGraph
<1> QED
  BY <1>9, <1>10, <1>11, <1>12 DEF IInv

\* A step of nothing.
LEMMA StutterKeeps == ASSUME IInv, UNCHANGED vars PROVE IInv'
<1>1. UNCHANGED <<log, tab, draft, prompt, conflict, dialog, save, rename, load, hist>>
  BY DEF vars
<1>2. TypeOK'
  BY <1>1 DEF IInv, TypeOK
<1>3. Fits'
  BY <1>1
     DEF IInv, Fits, Bounded, Screen, SavedStored, Busy, DraftFits, SaveFits, DialogFits,
         LoadFits, RenameFits, PromptIs, RenameAndSave, RenameAndDialog, RenameAndSaved,
         RenameAndDraft, SavedAt, Lands, Newest, Sunk, SentOf, Good, Knows, Top, At, Rev,
         Pending
<1>4. Known'
  BY <1>1
     DEF IInv, Known, PromptKnows, ScreenKnows, SaveKnown, PastKnows, Current, Lands, Newest,
         Good, Knows, Top, Rev, Pending
<1>5. Held'
  BY <1>1
     DEF IInv, Held, PastKept, DraftKept, LeftKept, EditsKept, InDraft, Logged, Offered, Rev
<1> QED
  BY <1>2, <1>3, <1>4, <1>5 DEF IInv

\* A window with nothing open.
LEMMA InitIs == ASSUME Init PROVE IInv
<1>1. /\ tab = NoGraph /\ draft = [g \in Graphs |-> None]
      /\ prompt = None /\ conflict = None /\ dialog = None /\ save = None /\ rename = None /\ load = None
      /\ hist = [made |-> 0, mine |-> {}, gone |-> {}, deaths |-> 0]
  BY DEF Init
<1>2. PICK stored \in First : log = [g \in Graphs |-> IF g \in stored THEN <<{}>> ELSE <<>>]
  BY DEF Init
<1>3. log \in [Graphs -> Seq(SUBSET Edits)] /\ \A g \in Graphs : Rev(g) \in {0, 1}
  <2>1. <<{}>> \in Seq(SUBSET Edits) /\ <<>> \in Seq(SUBSET Edits)
    OBVIOUS
  <2>2. \A g \in Graphs : log[g] \in {<<{}>>, <<>>}
    BY <1>2
  <2> QED
    BY <1>2, <2>1, <2>2 DEF Rev
<1>4. TypeOK
  BY <1>1, <1>3, BoundAssumption DEF TypeOK, NoGraph, Tabs, Or, Revs
<1>5. Fits
  <2>1. Bounded
    BY <1>3, BoundAssumption DEF Bounded
  <2> QED
    BY <1>1, <2>1
       DEF Fits, Screen, SavedStored, Busy, DraftFits, SaveFits, DialogFits, LoadFits, RenameFits,
       PromptIs, NoGraph
<1>6. Known
  BY <1>1 DEF Known, PromptKnows, ScreenKnows, SaveKnown, PastKnows, NoGraph
<1>7. Held
  BY <1>1 DEF Held, PastKept, DraftKept, LeftKept, EditsKept, NoGraph
<1> QED
  BY <1>4, <1>5, <1>6, <1>7 DEF IInv

\* "Save" before another graph is opened: a save that goes on to the load.
LEMMA SaveAndOpenKeeps == ASSUME IInv, MayAct = {}, NEW g \in Graphs, SaveAndOpen(g) PROVE IInv'
<1>1. Save(g) /\ rename = None /\ log[g] # <<>>
  BY DEF SaveAndOpen, Quiet
<1>2. Rev(g) >= 1
  BY <1>1 DEF IInv, TypeOK, Rev
<1> QED
  BY <1>1, <1>2, SaveKeeps DEF Or

\* Every step keeps the strengthening, by the lemmas above.
LEMMA StepKeeps == ASSUME IInv, MayAct = {}, [Next]_vars PROVE IInv'
<1>1. CASE User
  <2>1. CASE Edit \/ Undo \/ Autosave \/ Save(None) \/ Rename
    BY <2>1, EditKeeps, UndoKeeps, AutosaveKeeps, SaveKeeps, RenameKeeps DEF Or
  <2>2. CASE \E g \in Graphs : SaveAs(g) \/ Open(g) \/ DiscardAndOpen(g) \/ SaveAndOpen(g)
    BY <2>2, SaveAsKeeps, OpenKeeps, DiscardAndOpenKeeps, SaveAndOpenKeeps
  <2>3. CASE RestoreDraft \/ DropDraft
    BY <2>3, RestoreDraftKeeps, DropDraftKeeps
  <2>4. CASE Fetch \/ Compare \/ ReloadTheirs \/ Overwrite \/ CancelConflict
    BY <2>4, FetchKeeps, CompareKeeps, ReloadTheirsKeeps, OverwriteKeeps, CancelKeeps
  <2>5. CASE \E clean \in BOOLEAN : Die(clean)
    BY <2>5, DieKeeps
  <2> QED
    BY <1>1, <2>1, <2>2, <2>3, <2>4, <2>5 DEF User
<1>2. CASE Reply
  BY <1>2, SaveOkKeeps, SaveRefusedKeeps, SaveFailedKeeps, RenameOkKeeps, RenameFailedKeeps, LoadAnswerKeeps,
     LoadFailsKeeps DEF Reply
<1>3. CASE Network
  BY <1>3, SaveLandsKeeps, RenameLandsKeeps, LoadLandsKeeps, OtherSaveKeeps DEF Network
<1>4. CASE UNCHANGED vars
  BY <1>4, StutterKeeps
<1> QED
  BY <1>1, <1>2, <1>3, <1>4 DEF Next

\* The strengthening holds in every reachable state, when none of the switches is on.
THEOREM Invariant == ASSUME MayAct = {} PROVE Spec => []IInv
<1>1. Init => IInv
  BY InitIs
<1>2. IInv /\ [Next]_vars => IInv'
  BY StepKeeps
<1> QED
  BY <1>1, <1>2, PTL DEF Spec

\* Every variable keeps the shape its declaration gives it.
THEOREM TypeCorrect == ASSUME MayAct = {} PROVE Spec => []TypeOK
<1>1. IInv => TypeOK
  BY DEF IInv
<1> QED
  BY <1>1, Invariant, PTL

\* A graph shown as saved is a version the server has, of the window's rev or later
\* (finishSave, openGraph, renameOpen, "Reload theirs").
THEOREM ShownCleanIsSaved == ASSUME MayAct = {} PROVE Spec => []CleanIsSaved
<1>1. IInv => CleanIsSaved
  <2> SUFFICES ASSUME IInv, tab.graph # None, ~tab.dirty
               PROVE  \E r \in DOMAIN log[tab.id] : r >= tab.rev /\ log[tab.id][r] = tab.graph.edits
    BY DEF CleanIsSaved
  <2>1. tab.id # None /\ tab.id \in Graphs /\ Same(tab.graph, tab.saved)
    BY DEF IInv, Fits, Screen, TypeOK, Tabs, Or
  <2>2. SavedAt(tab.rev)
    BY <2>1 DEF IInv, Fits, SavedStored
  <2>3. DOMAIN log[tab.id] = 1..Rev(tab.id)
    BY <2>1 DEF IInv, TypeOK, Rev
  <2> QED
    BY <2>1, <2>2, <2>3 DEF SavedAt, Same
<1> QED
  BY <1>1, Invariant, PTL

\* An edit nobody gave up is on screen, in a draft, in the draft prompt or in a version,
\* whatever is answered late or dies in between (useDraftAutosave, checkDraft).
THEOREM EditsAreKept == ASSUME MayAct = {} PROVE Spec => []NoEditLost
<1>1. IInv => NoEditLost
  <2> SUFFICES ASSUME IInv, NEW e \in hist.mine, e \notin hist.gone
               PROVE  \/ \E c \in {tab.graph, tab.past} \ {None} : e \in c.edits
                      \/ \E g \in Graphs : draft[g] # None /\ e \in draft[g].graph.edits
                      \/ \E g \in Graphs : \E r \in DOMAIN log[g] : e \in log[g][r]
    BY DEF NoEditLost
  <2>1. InDraft(e) \/ Logged(e) \/ (tab.graph # None /\ e \in tab.graph.edits)
    BY DEF IInv, Held, EditsKept
  <2>2. \A g \in Graphs : DOMAIN log[g] = 1..Rev(g)
    BY DEF IInv, TypeOK, Rev
  <2> QED
    BY <2>1, <2>2 DEF InDraft, Logged
<1> QED
  BY <1>1, Invariant, PTL

\* What a save sends is of the graph it goes to.
LEMMA SentIsIts == ASSUME IInv, save # None PROVE save.sent.of = save.of
  BY DEF IInv, Fits, SaveFits, SentOf, Good

\* A save sends the content of the graph it is for, though loads, renames and saves of
\* other graphs come back in any order (saveFlow, openGraphById, renameOpen).
THEOREM SaveSendsItsGraph == ASSUME MayAct = {} PROVE Spec => SavesItsGraph
<1> DEFINE Its == save # None => save.sent.of = save.of
<1>1. IInv => Its
  BY SentIsIts
<1>2. Its' => [\A g \in Graphs : save' # save /\ save' # None => save'.sent.of = save'.of]_vars
  OBVIOUS
<1> HIDE DEF Its
<1> QED
  BY <1>1, <1>2, Invariant, PTL DEF SavesItsGraph

\* Only its landing changes a save and the log at once.
LEMMA OnlyLandings ==
  ASSUME Next, save # None, save.answer = "out", log' # log, save' # save
  PROVE  SaveLands
<1>1. CASE User
  <2> SUFFICES log' = log
    OBVIOUS
  <2>1. CASE Edit \/ Undo \/ Autosave
    BY <2>1 DEF Edit, Undo, Autosave
  <2>2. CASE Save(None) \/ Rename \/ RestoreDraft \/ DropDraft
    BY <2>2 DEF Save, Rename, RestoreDraft, DropDraft
  <2>3. ASSUME NEW g \in Graphs, SaveAs(g) \/ Open(g) PROVE log' = log
    BY <2>3 DEF SaveAs, Open
  <2>4. ASSUME NEW g \in Graphs, DiscardAndOpen(g) PROVE log' = log
    BY <2>4 DEF DiscardAndOpen
  <2>5. ASSUME NEW g \in Graphs, SaveAndOpen(g) PROVE log' = log
    BY <2>5 DEF SaveAndOpen, Save
  <2>6. CASE Fetch \/ Compare \/ ReloadTheirs
    BY <2>6 DEF Fetch, Compare, ReloadTheirs
  <2>7. CASE Overwrite \/ CancelConflict
    BY <2>7 DEF Overwrite, CancelConflict
  <2>8. CASE \E clean \in BOOLEAN : Die(clean)
    BY <2>8 DEF Die
  <2> QED
    BY <1>1, <2>1, <2>2, <2>3, <2>4, <2>5, <2>6, <2>7, <2>8 DEF User
<1>2. CASE Reply
  BY <1>2 DEF Reply, SaveOk, SaveRefused, SaveFailed, RenameOk, RenameFailed, LoadAnswer, LoadFails
<1>3. CASE Network
  BY <1>3 DEF Network, RenameLands, LoadLands, OtherSave
<1> QED
  BY <1>1, <1>2, <1>3 DEF Next

\* No save of the window drops an edit of another window that its content was made without
\* a sight of: "A 409 never overwrites", along every way older work comes back.
THEOREM SavesKnowWhatTheyReplace == ASSUME MayAct = {} PROVE Spec => KnowsWhatItReplaces
<1> DEFINE Knowing == save # None /\ save.answer = "out" /\ log'[save.of] # log[save.of] /\ save' # save
                         => Last(log[save.of]) \ hist.mine \subseteq save.sent.knows
<1>1. IInv /\ [Next]_vars => [Knowing]_vars
  <2> SUFFICES ASSUME IInv, Next, save # None, save.answer = "out", log'[save.of] # log[save.of], save' # save
               PROVE  Last(log[save.of]) \ hist.mine \subseteq save.sent.knows
    OBVIOUS
  <2>1. SaveLands
    BY OnlyLandings
  <2>2. Lands(save)
    BY <2>1, SaveLandsIs
  <2>3. save.of \in Graphs /\ Knows(save.sent, Top(save.of))
    BY <2>2 DEF IInv, TypeOK, Or, Saves, Fits, SaveFits
  <2>4. Last(log[save.of]) = Top(save.of)
    BY DEF Last, Top, Rev
  <2> QED
    BY <2>3, <2>4 DEF Knows
<1> HIDE DEF Knowing
<1>2. Spec => [][Knowing]_vars
  BY <1>1, Invariant, PTL DEF Spec
<1> QED
  BY <1>2 DEF KnowsWhatItReplaces, Knowing
=============================================================================
