------------------------------ MODULE MCGraphs ------------------------------
(* What the node builder keeps on the server, each on a small instance of its    *)
(* own: the graphs, the asset library and the cook cache.  A behaviour picks     *)
(* one in its first state and keeps it.                                       *)
EXTENDS GraphStore, TLC

CONSTANTS c1, c2, g1, g2, n1, n2, old, l1, l2, l3, l4

\* Of the library and of the cook cache.
CONSTANTS
    Threads, Assets, CacheMax, MaxVersion, MaxRestart,
    CookThreads, CookKeys, MaxEntries, MaxBytes, Ttl, MaxAge, Sizes, MaxTime, MaxAsk

VARIABLES
    setup,
    files, markers, cache, gen, lock, th, past,
    entries, inflight, req, now

libraryvars == <<files, markers, cache, gen, lock, th, past>>
cookvars == <<entries, inflight, req, now>>

MCClients == {c1, c2}
MCGraphIds == {g1, g2}
MCFirst == g1 :> n1
MCNames == {n1, n2}
MCContents == {old}
MCLegacy == {old}
MCSeedNames == old :> {n2}
MCLocks == {l1, l2, l3, l4}

Library == INSTANCE AssetLibrary
Cook == INSTANCE CookCache WITH Requests <- CookThreads, Keys <- CookKeys

MCInit ==
    /\ Init /\ Library!Init /\ Cook!Init
    /\ setup \in {"graphs", "library", "cooks"}

\* The bounds may stop the two others; the graphs are checked for deadlock.
MCNext ==
    /\ \/ setup = "graphs" /\ Next /\ UNCHANGED <<libraryvars, cookvars>>
       \/ setup = "library" /\ Library!Next /\ UNCHANGED <<vars, cookvars>>
       \/ setup = "cooks" /\ Cook!Next /\ UNCHANGED <<vars, libraryvars>>
       \/ setup # "graphs" /\ UNCHANGED <<vars, libraryvars, cookvars>>
    /\ UNCHANGED setup

MCSpec == MCInit /\ [][MCNext]_<<setup, vars, libraryvars, cookvars>>

\* Nothing tells the clients, the threads and the keys apart; all properties are safety
\* properties.
Alike == Permutations(MCClients) \cup Permutations(Threads) \cup Permutations(CookKeys)

DeletedIsGone == Library!DeletedIsGone
NumberGivenOnce == Library!NumberGivenOnce
SingleFlight == Cook!SingleFlight
WaitsForACook == Cook!WaitsForACook
=============================================================================
