---------------------------- MODULE ClusterTable ----------------------------
(***************************************************************************)
(* What a driver may take the file allocation table for: one table in      *)
(* which every write of an entry, or of entries that share a device block, *)
(* happens at once or not at all.  FatTable, with its copies and           *)
(* half-written entries, implements it; FatChains builds files on it.      *)
(***************************************************************************)
EXTENDS Integers

CONSTANTS
    MaxCluster,   \* Geometry::max_cluster
    Spanning,     \* clusters whose entry spans two device blocks (FAT12)
    Block         \* the device block of each other cluster's entry

VARIABLE table

Clusters == 2 .. MaxCluster
Total == MaxCluster - 1
Free == 0
EOC == MaxCluster + 1
Values == Clusters \cup {Free, EOC}

\* Whether one device write per copy holds both entries: same_fat_block.
SameBlock(a, b) == a \notin Spanning /\ b \notin Spanning /\ Block[a] = Block[b]

\* The entries written together: one, or some that share a block.
Groups == {S \in SUBSET Clusters :
              S # {} /\ \A a, b \in S : a = b \/ SameBlock(a, b)}
Patched(old, patch) ==
    [c \in Clusters |-> IF c \in DOMAIN patch THEN patch[c] ELSE old[c]]

TableInit == table \in [Clusters -> {Free, EOC}]

\* Any values for the entries of one group, which no reader sees in part.
Write(S) ==
    /\ table' \in [Clusters -> Values]
    /\ \A c \in Clusters \ S : table'[c] = table[c]
TableNext == \E S \in Groups : Write(S)
TableSpec == TableInit /\ [][TableNext]_table
=============================================================================
