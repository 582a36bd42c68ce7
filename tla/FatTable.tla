------------------------------ MODULE FatTable ------------------------------
(***************************************************************************)
(* The file allocation table and its mirror copies (hadris-fat-raw         *)
(* io/fat.rs: set, mirror, put_entry, patch, count_free, and the counters  *)
(* of Fat in io/mod.rs).  A write of FAT entries goes to the active copy   *)
(* and then to the others, one device write per copy, and can be cut       *)
(* between any two of them and inside one: a FAT12 entry may span two      *)
(* device blocks and be written by halves.  What was cut is remembered in  *)
(* `unmirrored` and `split` and completed by mirror, which runs before the *)
(* next write.                                                             *)
(***************************************************************************)
EXTENDS Integers, FiniteSets

CONSTANTS
    MaxCluster,   \* Geometry::max_cluster
    Copies,       \* FAT copies that are written
    Active,       \* the copy that is read, and written first
    Spanning,     \* clusters whose entry spans two device blocks (FAT12)
    Block,        \* the device block of each other cluster's entry
    Windows       \* which steps of EarlySteps are explored

(***************************************************************************)
(* Steps after which the free count is too low:                            *)
(*   "lost_free":   a write that frees clusters takes effect and its       *)
(*                  caller does not learn of it;                           *)
(*   "early_count": statfs counts the free clusters between a cut write of *)
(*                  a spanning entry and its completion.                   *)
(***************************************************************************)
EarlySteps == {"lost_free", "early_count"}

Clusters == 2 .. MaxCluster
Total == MaxCluster - 1
Free == 0
EOC == MaxCluster + 1
Torn == MaxCluster + 2            \* half of one value, half of another
Values == Clusters \cup {Free, EOC}
Unknown == -1                     \* Fat::free is None
NoSplit == [cluster |-> 0, value |-> Free, wasFree |-> FALSE]

ASSUME MaxClusterAssumption == MaxCluster \in Nat /\ MaxCluster >= 2
ASSUME CopiesAssumption == Active \in Copies
ASSUME SpanningAssumption == Spanning \subseteq Clusters
ASSUME WindowsAssumption == Windows \subseteq EarlySteps

VARIABLES
    fat,         \* per copy the stored entries
    unmirrored,  \* Fat::unmirrored, as the set of its clusters
    split,       \* Fat::split, or NoSplit
    free,        \* Fat::free
    counted,     \* Fat::counted
    write        \* the `set` or `patch` in progress; todo is {} when idle

tableVars == <<fat, unmirrored, split, free, counted, write>>

-----------------------------------------------------------------------------
Mirrored == Copies # {Active}
Idle == write.todo = {}
NoPatch == [c \in {} |-> Free]
NoWrite == [patch |-> NoPatch, todo |-> {}, half |-> FALSE]

\* A free cluster, as the active copy has it.
FreeIn(table) == {c \in Clusters : table[c] = Free}
FreeSet == FreeIn(fat[Active])

\* Fat::full
Full == free = 0 /\ counted

\* Whether one device write per copy holds both entries: same_fat_block.
SameBlock(a, b) == a \notin Spanning /\ b \notin Spanning /\ Block[a] = Block[b]

\* MUTANT of Hull: the last cluster of the range is left out.
HullExclusive(S) == {c \in Clusters : \E a, b \in S : a <= c /\ c < b}

\* The range `unmirrored` records for a write of the entries S.
Hull(S) == {c \in Clusters : \E a, b \in S : a <= c /\ c <= b}

\* MUTANT of Adjusted: clusters freed are not counted.
AdjustedTakenOnly(freed, taken) ==
    IF free = Unknown \/ free < taken THEN Unknown ELSE free - taken

\* Fat::adjust_free
Adjusted(freed, taken) ==
    IF free = Unknown \/ free + freed < taken THEN Unknown
    ELSE IF free + freed - taken > Total THEN Total ELSE free + freed - taken

\* Whether the entry was free before the write, also when half of it is
\* written already.
WasFree(c) == IF split.cluster = c THEN split.wasFree ELSE fat[Active][c] = Free

\* The clusters a patch frees and takes.
FreedBy(patch) == {c \in DOMAIN patch : ~WasFree(c) /\ patch[c] = Free}
TakenBy(patch) == {c \in DOMAIN patch : WasFree(c) /\ patch[c] # Free}
Patched(table, patch) ==
    [c \in Clusters |-> IF c \in DOMAIN patch THEN patch[c] ELSE table[c]]
IsSplit(patch) == \E c \in Spanning : DOMAIN patch = {c}

\* The writes the driver makes: one entry, or entries that share a block.
Groups == {S \in SUBSET Clusters :
              S # {} /\ \A a, b \in S : a = b \/ SameBlock(a, b)}
IsPatch(patch) ==
    /\ DOMAIN patch \in Groups
    /\ \A c \in DOMAIN patch : patch[c] \in Values

-----------------------------------------------------------------------------
\* `set` and `patch` up to their first device write.  Entries an earlier
\* write left unmirrored have been copied, by `set` or, as `patch` takes a
\* range with the same ends for the same entries, by its callers.
StartWrite(patch) ==
    /\ Idle
    /\ split = NoSplit /\ unmirrored \in {{}, DOMAIN patch}
    /\ write' = [patch |-> patch, todo |-> Copies, half |-> FALSE]
    /\ unmirrored' = IF Mirrored THEN Hull(DOMAIN patch) ELSE unmirrored
    /\ UNCHANGED <<fat, split, free, counted>>

NextCopy(k) == k \in write.todo /\ (Active \in write.todo => k = Active)

\* put_entry of a spanning entry: what it replaces is recorded before the
\* first half is written.  The halves may happen to be equal.
PutHalf ==
    \E k \in write.todo :
        /\ NextCopy(k) /\ IsSplit(write.patch) /\ ~write.half
        /\ write' = [write EXCEPT !.half = TRUE]
        /\ \E c \in DOMAIN write.patch :
              /\ \E half \in {fat[k][c], Torn} : fat' = [fat EXCEPT ![k] = Patched(@, [x \in {c} |-> half])]
              /\ IF k = Active
                 THEN /\ split' = [cluster |-> c, value |-> write.patch[c], wasFree |-> WasFree(c)]
                      /\ unmirrored' = {c}
                 ELSE UNCHANGED <<split, unmirrored>>
        /\ UNCHANGED <<free, counted>>

\* A copy gets the whole patch; the free count follows the active copy.
\* With the last copy the write is done.
PutCopy ==
    \E k \in write.todo :
        /\ NextCopy(k) /\ (IsSplit(write.patch) => write.half)
        /\ fat' = [fat EXCEPT ![k] = Patched(@, write.patch)]
        /\ IF k = Active
           THEN /\ free' = Adjusted(Cardinality(FreedBy(write.patch)), Cardinality(TakenBy(write.patch)))
                /\ split' = NoSplit
           ELSE UNCHANGED <<free, split>>
        /\ IF write.todo = {k}
           THEN write' = NoWrite /\ unmirrored' = {}
           ELSE /\ write' = [write EXCEPT !.todo = @ \ {k}, !.half = FALSE]
                /\ UNCHANGED unmirrored
        /\ UNCHANGED counted

\* The device write in progress fails, or the future is dropped.
CutBefore ==
    /\ ~Idle
    /\ write' = NoWrite
    /\ UNCHANGED <<fat, unmirrored, split, free, counted>>

\* The same, after the write took effect.
CutAfter ==
    \E k \in write.todo :
        /\ NextCopy(k) /\ (IsSplit(write.patch) => write.half)
        /\ \/ k # Active \/ IsSplit(write.patch) \/ FreedBy(write.patch) = {}
           \/ "lost_free" \in Windows
        /\ fat' = [fat EXCEPT ![k] = Patched(@, write.patch)]
        /\ write' = NoWrite
        /\ UNCHANGED <<unmirrored, split, free, counted>>

-----------------------------------------------------------------------------
\* MUTANT of CompleteSplit: mirror copies without completing the entry.
CompleteSplitSkipped ==
    /\ Idle /\ split # NoSplit
    /\ split' = NoSplit
    /\ UNCHANGED <<fat, unmirrored, free, counted, write>>

\* mirror, first step: an active entry written by halves is completed.
CompleteSplit ==
    /\ Idle /\ split # NoSplit
    /\ LET c == split.cluster
           patch == [x \in {c} |-> split.value]
       IN  /\ fat' = [fat EXCEPT ![Active] = Patched(@, patch)]
           /\ free' = Adjusted(Cardinality(FreedBy(patch)), Cardinality(TakenBy(patch)))
    /\ split' = NoSplit
    /\ UNCHANGED <<unmirrored, counted, write>>

\* It is cut again.
CompleteSplitCut ==
    /\ Idle /\ split # NoSplit
    /\ \E v \in {Torn, split.value} :
          fat' = [fat EXCEPT ![Active] = Patched(@, [x \in {split.cluster} |-> v])]
    /\ UNCHANGED <<unmirrored, split, free, counted, write>>

\* mirror: an entry that differs is copied, a spanning one by halves.
MirrorEntry ==
    /\ Idle /\ split = NoSplit /\ Mirrored
    /\ \E c \in unmirrored, k \in Copies \ {Active} :
          /\ fat[k][c] # fat[Active][c]
          /\ \E v \in {fat[Active][c]} \cup (IF c \in Spanning THEN {Torn} ELSE {}) :
                fat' = [fat EXCEPT ![k] = Patched(@, [x \in {c} |-> v])]
    /\ UNCHANGED <<unmirrored, split, free, counted, write>>

MirrorDone ==
    /\ Idle /\ split = NoSplit /\ unmirrored # {}
    /\ \A c \in unmirrored, k \in Copies : fat[k][c] = fat[Active][c]
    /\ unmirrored' = {}
    /\ UNCHANGED <<fat, split, free, counted, write>>

\* What a scan of the active copy can count as free.
Counts == {Cardinality(FreeSet)}
    \cup {Cardinality(FreeSet) + 1 : c \in {c \in Clusters : fat[Active][c] = Torn}}

\* count_free, which statfs calls when the count is not known and without
\* recovery, or a search for free clusters that found too few of them.
Count ==
    /\ Idle
    /\ \/ free = Unknown /\ (split = NoSplit \/ "early_count" \in Windows)
       \/ split = NoSplit /\ unmirrored = {} /\ ~Full
    /\ free' \in Counts /\ counted' = TRUE
    /\ UNCHANGED <<fat, unmirrored, split, write>>

Init ==
    /\ \E table \in [Clusters -> {Free, EOC}] : fat = [k \in Copies |-> table]
    /\ unmirrored = {} /\ split = NoSplit
    /\ free \in Unknown .. Total /\ counted = FALSE    \* FSInfo is only a hint
    /\ write = NoWrite

Next ==
    \/ \E S \in Groups : \E patch \in [S -> Values] : StartWrite(patch)
    \/ PutHalf \/ PutCopy \/ CutBefore \/ CutAfter
    \/ CompleteSplit \/ CompleteSplitCut \/ MirrorEntry \/ MirrorDone
    \/ Count

Spec == Init /\ [][Next]_tableVars

-----------------------------------------------------------------------------
TypeOK ==
    /\ fat \in [Copies -> [Clusters -> Values \cup {Torn}]]
    /\ unmirrored \subseteq Clusters
    /\ split = NoSplit \/ split \in [cluster : Spanning, value : Values, wasFree : BOOLEAN]
    /\ free \in Unknown .. Total /\ counted \in BOOLEAN
    /\ write.todo \subseteq Copies /\ write.half \in BOOLEAN
    /\ Idle \/ IsPatch(write.patch)

\* Wherever writes were cut, every copy agrees with the active one outside
\* the range that `unmirrored` tells mirror to copy: once it is empty the
\* copies are equal.
CopiesAgree ==
    \A k \in Copies : \A c \in Clusters \ unmirrored : fat[k][c] = fat[Active][c]

\* The table as the driver may take it: an entry that is half written has
\* the value that mirror will complete it with.
LogicalTable ==
    [c \in Clusters |-> IF split.cluster = c THEN split.value ELSE fat[Active][c]]
Logical == INSTANCE ClusterTable WITH table <- LogicalTable

\* However writes are cut, each one happens at once or not at all: a driver
\* that calls mirror first, as recovery does, never follows a torn link and
\* never sees part of a group.
AtomicWrites == Logical!TableSpec

\* "Fails with NoSpace without scanning once a scan found no cluster free
\* and none was freed since" (docs of allocate): when the volume counts as
\* full, no cluster is free.
FullIsFull == Idle /\ split = NoSplit /\ Full => FreeSet = {}
=============================================================================
