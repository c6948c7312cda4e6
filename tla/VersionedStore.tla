--------------------------- MODULE VersionedStore ---------------------------
(***************************************************************************)
(* What bots.json promises the rest of the program, whatever the threads    *)
(* that save it do: each save that lands is newer than the last one, holds  *)
(* a state that memory really had, and is what a restart begins with.  Only *)
(* a power loss may bring an older save back.                               *)
(***************************************************************************)
EXTENDS Naturals

VARIABLES
    ver,     \* the state in memory
    stored,  \* the state in bots.json
    losses   \* power losses

Init == ver = 0 /\ stored = 0 /\ losses = 0

Change == ver' > ver /\ ver' \in Nat /\ UNCHANGED <<stored, losses>>
Land == stored' > stored /\ stored' <= ver /\ UNCHANGED <<ver, losses>>
Restart == ver' = stored /\ UNCHANGED <<stored, losses>>
Lose == losses' = losses + 1 /\ stored' \in 0..stored /\ ver' = stored'

Next == Change \/ Land \/ Restart \/ Lose

Spec == Init /\ [][Next]_<<ver, stored, losses>>
=============================================================================
