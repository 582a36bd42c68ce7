------------------------------ MODULE DirTree -------------------------------
(***************************************************************************)
(* What the directories of a volume promise their user: one call at a time *)
(* adds, removes or moves an entry.  A call that returns Ok has done so; a *)
(* call that fails, or is dropped, has done so or nothing, whichever the   *)
(* driver settles on before the next call; where what a rename replaces is *)
(* not kept, it may also have removed that and moved nothing.              *)
(***************************************************************************)
EXTENDS Naturals, FiniteSets

CONSTANTS
    Root,
    KeepsReplaced   \* whether a rename that fails keeps what it was to replace

VARIABLES
    tree,   \* entries <<directory, name, node>>; node.dir and node.first
    goal,   \* {what the call under way makes of the tree}, or {}
    last    \* whether the last call returned Ok

At(t, d, n) == {e \in t : e[1] = d /\ e[2] = n}
In(t, d) == {e \in t : e[1] = d}
Directories(t) == {Root} \cup {e[3].first : e \in {e \in t : e[3].dir}}

\* The directories at or below d.
Below(t, d) ==
    LET step[k \in 0 .. Cardinality(t)] ==
            IF k = 0 THEN {d}
            ELSE step[k - 1] \cup {e[3].first : e \in {e \in t : e[1] \in step[k - 1] /\ e[3].dir}}
    IN  step[Cardinality(t)]

Added(t, g) ==
    \E e \in g \ t :
        /\ g = t \cup {e}
        /\ e[1] \in Directories(t) /\ At(t, e[1], e[2]) = {}
        /\ \A f \in t : f[3] # e[3]

Removed(t, g) ==
    \E e \in t \ g :
        /\ g = t \ {e}
        /\ e[3].dir => In(t, e[3].first) = {}

Moved(t, g) ==
    \E e \in t \ g, f \in g \ t :
        LET replaced == At(t, f[1], f[2])
        IN  /\ g = ((t \ {e}) \ replaced) \cup {f}
            /\ f[3] = e[3] /\ f[1] \in Directories(t)
            /\ e[3].dir => f[1] \notin Below(t, e[3].first)
            /\ \A r \in replaced : r[3].dir = e[3].dir /\ (r[3].dir => In(t, r[3].first) = {})

Begin ==
    /\ goal = {}
    /\ \E g \in goal' :
          /\ goal' = {g}
          /\ Added(tree, g) \/ Removed(tree, g) \/ Moved(tree, g)
    /\ UNCHANGED <<tree, last>>

Return ==
    /\ goal = {tree'} /\ goal' = {}
    /\ last' = "ok"

\* What goes besides the source when the call replaces: At(tree, ...) of it.
Replaced(t, g) == {r \in t \ g : \E f \in g \ t : f[1] = r[1] /\ f[2] = r[2]}
Settle ==
    /\ goal # {} /\ goal' = {}
    /\ tree' \in {tree} \cup goal \cup (IF KeepsReplaced THEN {} ELSE {tree \ Replaced(tree, g) : g \in goal})
    /\ last' = "failed"

TreeInit == goal = {} /\ last = "ok"
TreeSpec == TreeInit /\ [][Begin \/ Return \/ Settle]_<<tree, goal, last>>
=============================================================================
