---------------------------- MODULE GraphSession ----------------------------
(***************************************************************************)
(* One window of the node builder's editor over the graph server:           *)
(* useGraphSession.tsx, persistence.ts, store/graph.ts and                   *)
(* ConflictDialog.tsx.  A save, a rename and a load are requests whose       *)
(* answers come back later; between the two the user goes on, other windows  *)
(* save, or the page dies.                                                   *)
(*                                                                         *)
(* A graph's content is the set of edits it carries.  What it knows are the  *)
(* edits of other windows that were in view when it was made: a save may     *)
(* drop those on purpose, any other it would drop unseen.  The server        *)
(* accepts a save whose rev is the stored one (GraphStore).                  *)
(***************************************************************************)
EXTENDS Naturals, Sequences, FiniteSets, SequencesExt

CONSTANTS
    Graphs,         \* graph ids, in use or free
    First,          \* what may be stored at first: a set of sets of graphs
    None,           \* null
    MayAct,         \* switches, read by the guards
    MaxEdit,        \* bound: edits made, here and in other windows
    MaxRev,         \* bound: revs of one graph
    MaxDie          \* bound: deaths of the page

ASSUME GraphsAssumption == First \subseteq SUBSET Graphs /\ None \notin Graphs
ASSUME SwitchAssumption ==
    MayAct \subseteq {"switch", "kept", "rebased", "rename_moved", "undecided", "dropped"}
ASSUME BoundAssumption == MaxEdit \in Nat /\ MaxRev \in Nat \ {0} /\ MaxDie \in Nat

VARIABLES
    log,      \* the server: each graph's versions, rev 1 first; <<>>: no such graph
    tab,      \* the editor's store: the graph on screen and its meta
    draft,    \* localStorage: the draft of each graph
    prompt,   \* the "draft found" notice
    conflict, \* the pending save conflict
    dialog,   \* the conflict dialog: the server version it shows
    save,     \* the save request that is out (busy)
    rename,   \* the inline rename that is out
    load,     \* the newest load that is out
    hist      \* history, for the bounds and properties only

vars == <<log, tab, draft, prompt, conflict, dialog, save, rename, load, hist>>

Edits == 1..MaxEdit
Revs == 0..MaxRev
Or(S) == S \cup {None}
Answers == {"out", "ok", "conflict", "failed"}

Contents == [of: Graphs, edits: SUBSET Edits, knows: SUBSET Edits]
Versions == [rev: Revs, edits: SUBSET Edits]
Tabs == [graph: Or(Contents), saved: Or(Contents), id: Or(Graphs), rev: Revs,
         dirty: BOOLEAN, past: Or(Contents), step: {"edit", "restore"},
         redo: BOOLEAN, busy: {"no", "saving", "loading"}]
Drafts == [rev: Revs, graph: Contents]
Prompts == [of: Graphs, draft: Drafts, variant: {"same", "moved", "kept"}]
Dialogs == [of: Graphs, got: Or(Versions), compared: BOOLEAN]
Renames == [of: Graphs, rev: Revs, sent: Contents, answer: Answers, got: Revs]
Saves == [of: Graphs, rev: Revs, sent: Contents, then: Or(Graphs), answer: Answers, got: Revs]
Loads == [of: Graphs, late: BOOLEAN, got: Or(Versions)]

ASSUME NoneAssumption ==
    None \notin Contents \cup Versions \cup Drafts \cup Prompts \cup Dialogs
                 \cup Renames \cup Saves \cup Loads

TypeOK ==
    /\ log \in [Graphs -> Seq(SUBSET Edits)]
    /\ tab \in Tabs
    /\ draft \in [Graphs -> Or(Drafts)]
    /\ prompt \in Or(Prompts)
    /\ conflict \in Or(Graphs)
    /\ dialog \in Or(Dialogs)
    /\ save \in Or(Saves)
    /\ rename \in Or(Renames)
    /\ load \in Or(Loads)
    /\ hist \in [made: 0..MaxEdit, mine: SUBSET Edits, gone: SUBSET Edits, deaths: 0..MaxDie]

NoGraph == [graph |-> None, saved |-> None, id |-> None, rev |-> 0, dirty |-> FALSE,
            past |-> None, step |-> "edit", redo |-> FALSE, busy |-> "no"]

Init ==
    /\ \E stored \in First : log = [g \in Graphs |-> IF g \in stored THEN <<{}>> ELSE <<>>]
    /\ tab = NoGraph
    /\ draft = [g \in Graphs |-> None]
    /\ prompt = None /\ conflict = None /\ dialog = None
    /\ save = None /\ rename = None /\ load = None
    /\ hist = [made |-> 0, mine |-> {}, gone |-> {}, deaths |-> 0]

Rev(g) == Len(log[g])
Stored(g) == [rev |-> Rev(g), edits |-> Last(log[g])]
Fresh(g, edits) == [of |-> g, edits |-> edits, knows |-> edits]

\* The same graph object.
Same(c, d) == c # None /\ d # None /\ c.of = d.of /\ c.edits = d.edits

\* Nothing modal is open; and without "switch" the window opens or creates no graph while
\* a save or a rename is out, and renames or creates none while a load is.
Free == dialog = None
Quiet == "switch" \in MayAct \/ (save = None /\ rename = None)
Still == "switch" \in MayAct \/ load = None

-----------------------------------------------------------------------------
(* The server and the other windows.                                       *)

OtherSave(g) ==
    /\ Rev(g) \in 1..(MaxRev - 1) /\ hist.made < MaxEdit
    /\ log' = [log EXCEPT ![g] = Append(@, Last(@) \cup {hist.made + 1})]
    /\ hist' = [hist EXCEPT !.made = @ + 1]
    /\ UNCHANGED <<tab, draft, prompt, conflict, dialog, save, rename, load>>

\* What a PUT of request r comes to: saved, refused for its rev, or failed, before the
\* server had it or with the answer lost after it.
Put(r, got) ==
    /\ r # None /\ r.answer = "out"
    /\ \/ /\ Rev(r.of) = r.rev /\ r.rev < MaxRev
          /\ log' = [log EXCEPT ![r.of] = Append(@, r.sent.edits)]
          /\ got \in {[r EXCEPT !.answer = "ok", !.got = r.rev + 1],
                      [r EXCEPT !.answer = "failed"]}
       \/ /\ Rev(r.of) # r.rev /\ log' = log
          /\ got = [r EXCEPT !.answer = "conflict", !.got = Rev(r.of)]
       \/ log' = log /\ got = [r EXCEPT !.answer = "failed"]

SaveLands ==
    /\ save # None
    /\ \E a \in Answers, n \in Revs : save' = [save EXCEPT !.answer = a, !.got = n]
    /\ Put(save, save')
    /\ UNCHANGED <<tab, draft, prompt, conflict, dialog, rename, load, hist>>

RenameLands ==
    /\ rename # None
    /\ \E a \in Answers, n \in Revs : rename' = [rename EXCEPT !.answer = a, !.got = n]
    /\ Put(rename, rename')
    /\ UNCHANGED <<tab, draft, prompt, conflict, dialog, save, load, hist>>

LoadLands ==
    /\ load # None /\ load.got = None
    /\ load' = [load EXCEPT !.got = Stored(load.of)]
    /\ UNCHANGED <<log, tab, draft, prompt, conflict, dialog, save, rename, hist>>

-----------------------------------------------------------------------------
(* The store and the drafts.                                               *)

\* commit: one undo step; the redo list goes.
Committed(next, step, before) ==
    [tab EXCEPT !.graph = next, !.past = before, !.step = step, !.redo = FALSE,
                !.dirty = ~Same(next, tab.saved)]

\* Mutant: the old id stays.
LoadedOldId(c, rev) ==
    [graph |-> c, saved |-> c, id |-> IF tab.id = None THEN c.of ELSE tab.id, rev |-> rev,
     dirty |-> FALSE, past |-> None, step |-> "edit", redo |-> FALSE, busy |-> "no"]

\* openGraph: the loaded graph, clean, with no history.
Loaded(c, rev) ==
    [graph |-> c, saved |-> c, id |-> c.of, rev |-> rev, dirty |-> FALSE,
     past |-> None, step |-> "edit", redo |-> FALSE, busy |-> "no"]

\* A commit while the draft prompt is up means "keep the server version".
Kept == IF prompt = None THEN None ELSE [prompt EXCEPT !.variant = "kept"]

\* A load that began before the commit will come too late (commitSeq).
Late == IF load = None THEN None ELSE [load EXCEPT !.late = TRUE]

\* What the user gives up by a commit while a draft is offered.
Offered == IF prompt = None THEN {} ELSE prompt.draft.graph.edits

\* useDraftAutosave's subscription: a graph that turns clean without a load loses its
\* draft, unless a restored draft was just undone.
Cleaned(d, t) ==
    IF tab.dirty /\ ~t.dirty /\ t.graph # None /\ t.id = tab.id /\ t.id # None /\ ~t.redo
    THEN [d EXCEPT ![t.id] = None] ELSE d

Cleared(g) == [draft EXCEPT ![g] = None]

\* writeDraftNow: the store's graph under the store's meta, though a restored draft of an
\* older rev is not based on it.  Without "rebased" no draft of such a graph is written.
Based == tab.id # None /\ tab.graph # None
            => log[tab.id][tab.rev] \subseteq tab.graph.knows \cup hist.mine
Rebase == "rebased" \in MayAct \/ Based

WriteDraft(d, t) ==
    IF t.graph = None \/ ~t.dirty \/ t.id = None THEN d
    ELSE [d EXCEPT ![t.id] = [rev |-> t.rev, graph |-> t.graph]]

\* Mutant: the graph counts as saved whatever was sent.
FinishedClean(g, rev, sent) ==
    [tab EXCEPT !.id = g, !.rev = rev, !.saved = tab.graph, !.dirty = FALSE]

\* finishSave: edits made while the request was out stay dirty.
Finished(g, rev, sent) ==
    [tab EXCEPT !.id = g, !.rev = rev, !.saved = sent, !.dirty = ~Same(tab.graph, sent)]

Edit ==
    /\ Free /\ tab.graph # None /\ hist.made < MaxEdit
    /\ tab' = Committed([tab.graph EXCEPT !.edits = @ \cup {hist.made + 1}], "edit", tab.graph)
    /\ prompt' = Kept /\ load' = Late
    /\ hist' = [hist EXCEPT !.made = @ + 1, !.mine = @ \cup {hist.made + 1},
                             !.gone = @ \cup Offered]
    /\ UNCHANGED <<log, draft, conflict, dialog, save, rename>>

\* undo, the last step only; what it takes back the user gave up.
Undo ==
    /\ Free /\ tab.past # None
    /\ tab' = [tab EXCEPT !.graph = tab.past, !.past = None, !.step = "edit",
                          !.redo = tab.step = "restore",
                          !.dirty = ~Same(tab.past, tab.saved)]
    /\ draft' = Cleaned(draft, tab')
    /\ prompt' = Kept /\ load' = Late
    /\ hist' = [hist EXCEPT !.gone = @ \cup (tab.graph.edits \ tab.past.edits) \cup Offered]
    /\ UNCHANGED <<log, conflict, dialog, save, rename>>

\* The five-second timer, or the tab is hidden.
Autosave ==
    /\ tab.graph # None /\ tab.dirty /\ Rebase
    /\ draft' = WriteDraft(draft, tab)
    /\ UNCHANGED <<log, tab, prompt, conflict, dialog, save, rename, load, hist>>

-----------------------------------------------------------------------------
(* Saving.                                                                 *)

\* saveFlow: an unresolved conflict opens its dialog again and sends nothing; a clean
\* graph has nothing to save.  "then" is the graph to open after it (confirmLeave).
Save(then) ==
    /\ Free /\ tab.graph # None /\ tab.id # None /\ tab.busy = "no"
    /\ \/ /\ conflict = tab.id
          /\ dialog' = [of |-> tab.id, got |-> None, compared |-> FALSE]
          /\ UNCHANGED <<save, tab>>
       \/ /\ conflict # tab.id /\ tab.dirty
          /\ save' = [of |-> tab.id, rev |-> tab.rev, sent |-> tab.graph, then |-> then,
                       answer |-> "out", got |-> 0]
          /\ tab' = [tab EXCEPT !.busy = "saving"]
          /\ UNCHANGED dialog
    /\ UNCHANGED <<log, draft, prompt, conflict, rename, load, hist>>

\* openGraphById of "then" starts as soon as its save is done.
StartLoad(g) == [of |-> g, late |-> FALSE, got |-> None]
After(then) == IF then = None THEN "no" ELSE "loading"

\* Mutant: the draft goes although edits came after the request.
SaveOkDropsDraft ==
    /\ save # None /\ save.answer = "ok"
    /\ tab' = [Finished(save.of, save.got, save.sent) EXCEPT !.busy = After(save.then)]
    /\ draft' = Cleared(save.of)
    /\ load' = IF save.then = None THEN load ELSE StartLoad(save.then)
    /\ save' = None
    /\ UNCHANGED <<log, prompt, conflict, dialog, rename, hist>>

\* The store takes the save; the draft goes, or is rewritten to hold the newer edits.
SaveOk ==
    /\ save # None /\ save.answer = "ok"
    /\ tab' = [Finished(save.of, save.got, save.sent) EXCEPT !.busy = After(save.then)]
    /\ draft' = LET d == Cleaned(draft, tab') IN
                IF Same(tab.graph, save.sent) THEN [d EXCEPT ![save.of] = None]
                ELSE WriteDraft(d, tab')
    /\ load' = IF save.then = None THEN load ELSE StartLoad(save.then)
    /\ save' = None
    /\ UNCHANGED <<log, prompt, conflict, dialog, rename, hist>>

\* Mutant: a 409 makes the next save use the server's rev.
SaveRefusedRetries ==
    /\ save # None /\ save.answer = "conflict" /\ save' = None
    /\ tab' = [tab EXCEPT !.busy = "no", !.rev = save.got]
    /\ UNCHANGED <<log, draft, prompt, conflict, dialog, rename, load, hist>>

\* A 409 keeps the edits and opens the conflict dialog if its graph is still open.
SaveRefused ==
    /\ save # None /\ save.answer = "conflict"
    /\ conflict' = save.of
    /\ dialog' = IF tab.id = save.of
                 THEN [of |-> save.of, got |-> None, compared |-> FALSE] ELSE dialog
    /\ save' = None /\ tab' = [tab EXCEPT !.busy = "no"]
    /\ UNCHANGED <<log, draft, prompt, rename, load, hist>>

SaveFailed ==
    /\ save # None /\ save.answer = "failed" /\ save' = None
    /\ tab' = [tab EXCEPT !.busy = "no"]
    /\ UNCHANGED <<log, draft, prompt, conflict, dialog, rename, load, hist>>

\* createFromCurrent, under its modal name dialog: the window goes on in the new graph.
\* It clears the old graph's draft even when a prompt still offers it ("undecided").
SaveAs(g) ==
    /\ tab.graph # None /\ log[g] = <<>> /\ save = None /\ Quiet /\ Still
    /\ prompt # None => prompt.variant = "kept" \/ "undecided" \in MayAct
    /\ ~Free => dialog.of = tab.id /\ dialog.got # None
    /\ LET c == [tab.graph EXCEPT !.of = g]
           p == IF tab.past = None THEN None
                ELSE [tab.past EXCEPT !.of = g, !.knows = @ \cup c.edits]
       IN  /\ log' = [log EXCEPT ![g] = <<c.edits>>]
           /\ tab' = [tab EXCEPT !.graph = c, !.saved = c, !.past = p, !.id = g, !.rev = 1,
                                 !.dirty = FALSE]
    /\ draft' = IF tab.id = None THEN draft ELSE Cleared(tab.id)
    /\ conflict' = None /\ dialog' = None
    /\ UNCHANGED <<prompt, save, rename, load, hist>>

\* renameOpen: sends the saved version under the new name; the edits stay unsaved.
Rename ==
    /\ Free /\ tab.id # None /\ tab.saved # None /\ rename = None /\ Still
    /\ ("rename_moved" \notin MayAct /\ draft[tab.id] # None) => draft[tab.id].rev = tab.rev
    /\ rename' = [of |-> tab.id, rev |-> tab.rev, sent |-> tab.saved, answer |-> "out",
                  got |-> 0]
    /\ UNCHANGED <<log, tab, draft, prompt, conflict, dialog, save, load, hist>>

\* The new meta goes into the store whatever graph is there, and the rev into the draft.
RenameOk ==
    /\ rename # None /\ rename.answer = "ok"
    /\ tab' = [tab EXCEPT !.id = rename.of, !.rev = rename.got,
                          !.dirty = tab.graph # None /\ ~Same(tab.graph, tab.saved)]
    /\ draft' = IF draft[rename.of] = None THEN draft
                ELSE [draft EXCEPT ![rename.of].rev = rename.got]
    /\ rename' = None
    /\ UNCHANGED <<log, prompt, conflict, dialog, save, load, hist>>

RenameFailed ==
    /\ rename # None /\ rename.answer \in {"conflict", "failed"} /\ rename' = None
    /\ UNCHANGED <<log, tab, draft, prompt, conflict, dialog, save, load, hist>>

-----------------------------------------------------------------------------
(* Opening a graph.                                                        *)

\* confirmLeave with nothing to lose.
Open(g) ==
    /\ Free /\ Quiet /\ log[g] # <<>> /\ ~tab.dirty
    /\ load' = StartLoad(g) /\ tab' = [tab EXCEPT !.busy = "loading"]
    /\ UNCHANGED <<log, draft, prompt, conflict, dialog, save, rename, hist>>

\* "Discard": the draft goes and the graph on screen is the saved one again.
DiscardAndOpen(g) ==
    /\ Free /\ Quiet /\ log[g] # <<>> /\ tab.dirty /\ tab.graph # None
    /\ tab' = [Committed(tab.saved, "edit", tab.graph) EXCEPT !.busy = "loading"]
    /\ draft' = IF tab.id = None THEN draft ELSE Cleared(tab.id)
    /\ prompt' = Kept
    /\ load' = StartLoad(g)
    /\ hist' = [hist EXCEPT !.gone = @ \cup (tab.graph.edits \ tab.saved.edits) \cup Offered
                                     \cup (IF tab.id = None \/ draft[tab.id] = None THEN {}
                                           ELSE draft[tab.id].graph.edits)]
    /\ UNCHANGED <<log, conflict, dialog, save, rename>>

\* "Save", then open.
SaveAndOpen(g) == Quiet /\ log[g] # <<>> /\ tab.dirty /\ Save(g)

\* The answer of the newest load is shown unless the store moved on meanwhile; then the
\* graph's draft, if it differs, is offered.
LoadAnswer ==
    /\ load # None /\ load.got # None /\ load' = None
    /\ IF load.late
       THEN tab' = [tab EXCEPT !.busy = "no"] /\ UNCHANGED <<prompt, conflict>>
       ELSE LET g == load.of  d == draft[g]
                variant == IF d.rev < load.got.rev THEN "moved" ELSE "same"
            IN  /\ tab' = Loaded(Fresh(g, load.got.edits), load.got.rev)
                /\ conflict' = None
                /\ prompt' = IF d = None \/ d.graph.edits = load.got.edits THEN None
                             ELSE [of |-> g, draft |-> d, variant |-> variant]
    /\ UNCHANGED <<log, draft, dialog, save, rename, hist>>

\* A load that fails leaves everything as it was: the edits that "Discard" took off the
\* screen for it are one undo away, and a conflict they were in is still pending.  Not
\* without "dropped".
LoadFails ==
    /\ (tab.id # None /\ conflict = tab.id /\ ~tab.dirty /\ tab.past # None)
          => "dropped" \in MayAct
    /\ load # None /\ load' = None /\ tab' = [tab EXCEPT !.busy = "no"]
    /\ UNCHANGED <<log, draft, prompt, conflict, dialog, save, rename, hist>>

-----------------------------------------------------------------------------
(* The draft prompt.                                                       *)

\* restoreDraft: one commit.  Only a prompt that still reads "moved" leaves a conflict
\* for the next save; the one an edit has turned into "Draft kept" does not.
RestoreDraft ==
    /\ Free /\ prompt # None /\ tab.id = prompt.of /\ tab.graph # None
    /\ (prompt.variant = "kept" /\ prompt.draft.rev < tab.rev) => "kept" \in MayAct
    /\ LET d == prompt.draft.graph
       IN  tab' = Committed(d, "restore", [tab.graph EXCEPT !.knows = @ \cup d.knows])
    /\ conflict' = IF prompt.variant = "moved" THEN prompt.of ELSE conflict
    /\ prompt' = None /\ load' = Late
    /\ hist' = [hist EXCEPT !.gone = (@ \ prompt.draft.graph.edits)
                                     \cup (tab.graph.edits \ prompt.draft.graph.edits)]
    /\ UNCHANGED <<log, draft, dialog, save, rename>>

\* Discard, or the ten seconds of "Draft kept" are over: only the offered draft goes.
DropDraft ==
    /\ prompt # None /\ prompt' = None
    /\ draft' = IF prompt.variant # "kept" \/ draft[prompt.of] = prompt.draft
                THEN Cleared(prompt.of) ELSE draft
    /\ hist' = [hist EXCEPT !.gone = @ \cup prompt.draft.graph.edits]
    /\ UNCHANGED <<log, tab, conflict, dialog, save, rename, load>>

-----------------------------------------------------------------------------
(* The conflict dialog.                                                    *)

Shown == dialog # None /\ dialog.got # None

Fetch ==
    /\ dialog # None /\ dialog.got = None
    /\ dialog' = [dialog EXCEPT !.got = Stored(dialog.of)]
    /\ UNCHANGED <<log, tab, draft, prompt, conflict, save, rename, load, hist>>

\* Compare shows what the server version has: the user knows it now.
Compare ==
    /\ Shown /\ dialog' = [dialog EXCEPT !.compared = TRUE]
    /\ tab' = [tab EXCEPT !.graph.knows = @ \cup dialog.got.edits]
    /\ UNCHANGED <<log, draft, prompt, conflict, save, rename, load, hist>>

\* Reload theirs: one commit that undo can take back, and clean.
ReloadTheirs ==
    /\ Shown /\ tab.id = dialog.of
    /\ LET theirs == Fresh(dialog.of, dialog.got.edits)
           mine == [tab.graph EXCEPT !.knows = @ \cup dialog.got.edits]
       IN  tab' = [Committed(theirs, "edit", mine) EXCEPT
                      !.saved = theirs, !.rev = dialog.got.rev, !.dirty = FALSE]
    /\ draft' = Cleared(dialog.of)
    /\ prompt' = Kept /\ load' = Late
    /\ conflict' = None /\ dialog' = None
    /\ hist' = [hist EXCEPT !.gone = @ \cup (tab.graph.edits \ dialog.got.edits) \cup Offered]
    /\ UNCHANGED <<log, save, rename>>

\* Overwrite, once compared and at the rev compared; when the server moved again the
\* dialog asks for a new look.  The dialog is modal until the answer.
Overwrite ==
    /\ Shown /\ dialog.compared /\ save = None
    /\ IF Rev(dialog.of) = dialog.got.rev
       THEN /\ Rev(dialog.of) < MaxRev
            /\ log' = [log EXCEPT ![dialog.of] = Append(@, tab.graph.edits)]
            /\ tab' = Finished(dialog.of, dialog.got.rev + 1, tab.graph)
            /\ draft' = Cleared(dialog.of)
            /\ conflict' = None /\ dialog' = None
       ELSE /\ dialog' = [dialog EXCEPT !.got = None, !.compared = FALSE]
            /\ UNCHANGED <<log, tab, draft, conflict>>
    /\ UNCHANGED <<prompt, save, rename, load, hist>>

CancelConflict ==
    /\ dialog # None /\ dialog' = None
    /\ UNCHANGED <<log, tab, draft, prompt, conflict, save, rename, load, hist>>

-----------------------------------------------------------------------------

Drafted == UNION {draft[g].graph.edits : g \in {h \in Graphs : draft[h] # None}}

\* The page is closed, which writes the draft, or dies, which does not: what was on screen
\* and in no draft is gone.  An unanswered request may have reached the server or not.
Die(clean) ==
    /\ hist.deaths < MaxDie /\ (clean => Rebase)
    /\ tab' = NoGraph /\ prompt' = None /\ conflict' = None /\ dialog' = None
    /\ save' = None /\ rename' = None /\ load' = None
    /\ draft' = IF clean THEN WriteDraft(draft, tab) ELSE draft
    /\ hist' = [hist EXCEPT !.deaths = @ + 1,
                   !.gone = IF clean \/ tab.graph = None THEN @
                            ELSE @ \cup ((UNION {c.edits : c \in {tab.graph, tab.past} \ {None}})
                                         \ Drafted)]
    /\ UNCHANGED log

User ==
    \/ Edit \/ Undo \/ Autosave \/ Save(None) \/ Rename
    \/ \E g \in Graphs : SaveAs(g) \/ Open(g) \/ DiscardAndOpen(g) \/ SaveAndOpen(g)
    \/ RestoreDraft \/ DropDraft
    \/ Fetch \/ Compare \/ ReloadTheirs \/ Overwrite \/ CancelConflict
    \/ \E clean \in BOOLEAN : Die(clean)

Reply ==
    \/ SaveOk \/ SaveRefused \/ SaveFailed
    \/ RenameOk \/ RenameFailed \/ LoadAnswer \/ LoadFails

Network == SaveLands \/ RenameLands \/ LoadLands \/ \E g \in Graphs : OtherSave(g)

Next == User \/ Reply \/ Network

Spec == Init /\ [][Next]_vars

-----------------------------------------------------------------------------
(* Properties.                                                             *)

\* What is put onto the server under a graph is that graph: a request that comes back
\* late never leaves the window with one graph on screen and another's id and rev in
\* its meta (useGraphSession.tsx finishSave, renameOpen, openGraphById).
SavesItsGraph ==
    [][\A g \in Graphs : save' # save /\ save' # None => save'.sent.of = save'.of]_vars

\* A save that lands never drops an edit of the stored version that nobody in this
\* window has seen: every way to bring back older work (a draft of an older rev, an
\* undone reload, a pending conflict) goes through the conflict dialog first
\* (useGraphSession.tsx "A 409 never overwrites"; surfaces S03, S04).
KnowsWhatItReplaces ==
    [][save # None /\ save.answer = "out" /\ log'[save.of] # log[save.of] /\ save' # save
        => Last(log[save.of]) \ hist.mine \subseteq save.sent.knows]_vars

\* A graph shown as saved is, edit for edit, a version the server has: the one of its rev,
\* or a later one when a rename was answered after the save that followed it.
CleanIsSaved ==
    tab.graph # None /\ ~tab.dirty
        => \E r \in DOMAIN log[tab.id] : r >= tab.rev /\ log[tab.id][r] = tab.graph.edits

\* An edit nobody gave up is always somewhere: on screen or one undo away, in a draft, in
\* the prompt that offers one, or in a version of some graph (S03: "Edits survive a
\* crash, a reload or a closed tab").
NoEditLost ==
    \A e \in hist.mine \ hist.gone :
        \/ \E c \in {tab.graph, tab.past} \ {None} : e \in c.edits
        \/ \E g \in Graphs : draft[g] # None /\ e \in draft[g].graph.edits
        \/ prompt # None /\ e \in prompt.draft.graph.edits
        \/ \E g \in Graphs : \E r \in DOMAIN log[g] : e \in log[g][r]
=============================================================================
