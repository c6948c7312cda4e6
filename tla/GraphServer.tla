---------------------------- MODULE GraphServer -----------------------------
(***************************************************************************)
(* What the graph store promises its callers: each request takes effect at  *)
(* once, at some moment between the call and its answer, on one table of     *)
(* graphs.  A save replaces exactly the rev it names, a name is never used    *)
(* twice, and a refusal says why, as things stood at that moment.            *)
(***************************************************************************)
EXTENDS Naturals

CONSTANTS Clients, Graphs, Names, Contents, Legacy, None, Damaged

VARIABLES
    graphs,  \* id -> None, Damaged or [rev, name, data]
    made,    \* ids that were ever given out
    call     \* the request of each client and its answer, once there is one

vars == <<graphs, made, call>>

Ops == {"create", "copy", "update", "delete", "seed"}
NoAnswer == [kind |-> "none", rev |-> 0]
Says(kind, rev) == [kind |-> kind, rev |-> rev]

\* What a client may ask for.
Requests == [op: Ops, g: Graphs \cup {None}, rev: Nat, name: Names \cup {None},
             data: Contents \cup {None}, ans: {NoAnswer}]

Readable(g) == graphs[g] \notin {None, Damaged}
Owners(name) == {g \in Graphs : Readable(g) /\ graphs[g].name = name}

Waits(t, ops) == call[t] # None /\ call[t].op \in ops /\ call[t].ans = NoAnswer
Answered(t, answer) == call' = [call EXCEPT ![t].ans = answer]

Ask(t) ==
    /\ call[t] = None
    /\ call'[t] \in Requests /\ call' = [call EXCEPT ![t] = call'[t]]
    /\ UNCHANGED <<graphs, made>>

Add(g, name, data) ==
    /\ g \notin made /\ Owners(name) = {}
    /\ graphs' = [graphs EXCEPT ![g] = [rev |-> 1, name |-> name, data |-> data]]
    /\ made' = made \cup {g}

Make(t) ==
    /\ Waits(t, {"create", "copy"})
    /\ \E g \in Graphs, data \in Contents :
          /\ call[t].op = "create" => data = call[t].data
          /\ Add(g, call[t].name, data)
    /\ Answered(t, Says("ok", 1))

Import(t) ==
    /\ Waits(t, {"seed"})
    /\ \E g \in Graphs, name \in Names, data \in Legacy : Add(g, name, data)
    /\ UNCHANGED call

Replace(t) ==
    /\ Waits(t, {"update"})
    /\ LET g == call[t].g
           name == IF call[t].name = None THEN graphs[g].name ELSE call[t].name
           rev == call[t].rev + 1
       IN  /\ Readable(g) /\ graphs[g].rev = call[t].rev
           /\ Owners(name) \subseteq {g}
           /\ graphs' = [graphs EXCEPT ![g] = [rev |-> rev, name |-> name, data |-> call[t].data]]
           /\ Answered(t, Says("ok", rev))
    /\ UNCHANGED made

Remove(t) ==
    /\ Waits(t, {"delete"})
    /\ LET g == call[t].g IN
       /\ graphs[g] = Damaged \/ (Readable(g) /\ graphs[g].rev = call[t].rev)
       /\ graphs' = [graphs EXCEPT ![g] = None]
    /\ Answered(t, Says("ok", 0)) /\ UNCHANGED made

Refuse(t) ==
    /\ Waits(t, Ops)
    /\ LET g == call[t].g  c == call[t] IN
       \/ /\ c.op \in {"create", "copy", "update"}
          /\ Owners(c.name) \ (IF c.op = "update" THEN {g} ELSE {}) # {}
          /\ Answered(t, Says("taken", 0))
       \/ c.op \in {"copy", "update", "delete"} /\ graphs[g] = None /\ Answered(t, Says("missing", 0))
       \/ c.op \in {"copy", "update", "delete"} /\ graphs[g] = Damaged /\ Answered(t, Says("corrupt", 0))
       \/ /\ c.op \in {"update", "delete"} /\ Readable(g) /\ graphs[g].rev # c.rev
          /\ Answered(t, Says("conflict", graphs[g].rev))
       \/ Answered(t, Says("failed", 0))
    /\ UNCHANGED <<graphs, made>>

Seeded(t) == Waits(t, {"seed"}) /\ Answered(t, Says("ok", 0)) /\ UNCHANGED <<graphs, made>>

Return(t) ==
    /\ call[t] # None /\ call[t].ans # NoAnswer /\ call' = [call EXCEPT ![t] = None]
    /\ UNCHANGED <<graphs, made>>

Damage(g) ==
    /\ Readable(g) /\ graphs' = [graphs EXCEPT ![g] = Damaged] /\ UNCHANGED <<made, call>>

Crash == call' = [t \in Clients |-> None] /\ UNCHANGED <<graphs, made>>

Init ==
    /\ \E first \in SUBSET Graphs :
          /\ made = first
          /\ \E bad \in SUBSET first, name \in [first -> Names], data \in [first -> Contents] :
                graphs = [g \in Graphs |->
                            IF g \in bad THEN Damaged
                            ELSE IF g \in first
                            THEN [rev |-> 1, name |-> name[g], data |-> data[g]] ELSE None]
    /\ call = [t \in Clients |-> None]

Next ==
    \/ \E t \in Clients : \/ Ask(t) \/ Make(t) \/ Import(t) \/ Replace(t) \/ Remove(t)
                          \/ Refuse(t) \/ Seeded(t) \/ Return(t)
    \/ \E g \in Graphs : Damage(g)
    \/ Crash

Spec == Init /\ [][Next]_vars
=============================================================================
