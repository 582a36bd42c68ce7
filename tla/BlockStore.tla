----------------------------- MODULE BlockStore -----------------------------
(***************************************************************************)
(* What the drivers may take a block device for: blocks that are read as   *)
(* they were last written, and a medium on which each block has some value *)
(* it had since the last flush.  A power loss, or dropping a cache, brings *)
(* such values back.                                                       *)
(***************************************************************************)
CONSTANTS Blocks, Values

VARIABLES
    store,    \* what a read returns
    medium,   \* what survives a power loss
    since     \* per block the values it had since the last flush

Init ==
    /\ store \in [Blocks -> Values]
    /\ medium = store
    /\ since = [b \in Blocks |-> {store[b]}]

\* Some blocks are written, each at once or not at all; a write that is
\* overtaken by a newer one still counts as one that may reach the medium.
Write ==
    /\ store' \in [Blocks -> Values] /\ since' \in [Blocks -> SUBSET Values]
    /\ \A b \in Blocks : \E v \in Values :
          since'[b] = since[b] \cup {v} /\ store'[b] \in {store[b], v}
    /\ UNCHANGED medium

Settle ==
    /\ medium' \in [Blocks -> Values]
    /\ \A b \in Blocks : medium'[b] \in since[b]
    /\ UNCHANGED <<store, since>>

Flush ==
    /\ medium' = store
    /\ since' = [b \in Blocks |-> {store[b]}]
    /\ UNCHANGED store

Lose ==
    /\ store' \in [Blocks -> Values]
    /\ \A b \in Blocks : store'[b] \in since[b]
    /\ UNCHANGED <<medium, since>>

Next == Write \/ Settle \/ Flush \/ Lose

vars == <<store, medium, since>>

Spec == Init /\ [][Next]_vars
=============================================================================
