----------------------------- MODULE FatChains ------------------------------
(***************************************************************************)
(* Cluster chains of files on FAT (hadris-fat fatfs.rs: write, truncate,   *)
(* unlink, create, fsync, and recovery; hadris-fat-raw io/fat.rs:          *)
(* allocate_run, free_chain).  The driver is not shared while an operation *)
(* runs, so what an operation will write is fixed when it starts: an       *)
(* operation is the sequence of its device writes, each with the clusters  *)
(* that `pending` holds before and after it.  Any write may fail or be     *)
(* dropped, before or after it took effect; the next writing operation     *)
(* then recovers from `pending` first.  FAT writes are those of            *)
(* ClusterTable.  Sizes are in units of which ClusterSize make a cluster.  *)
(***************************************************************************)
EXTENDS ClusterTable, Sequences, FiniteSets

CONSTANTS
    Files,         \* directory slots
    ClusterSize,   \* units of size in a cluster
    MaxSize,       \* bound on the size of a file
    Kinds,         \* kinds of FAT: TRUE for FAT12, which frees clusters one by one
    Windows        \* which steps of EarlySteps are explored

(***************************************************************************)
(* Writes of a short entry that take effect while the caller does not      *)
(* learn of it, and that recovery does not get right:                      *)
(*   "unpinned_growth": of a file that grew through an unpinned id;        *)
(*   "small_shrink":    of a file that shrank by no cluster;               *)
(*   "empty_unlink":    the removal of a file without clusters, which      *)
(*                      NodeTable is about.                                *)
(***************************************************************************)
EarlySteps == {"unpinned_growth", "small_shrink", "empty_unlink"}

ASSUME MaxClusterAssumption == MaxCluster \in Nat /\ MaxCluster >= 2
ASSUME SpanningAssumption == Spanning \subseteq Clusters
ASSUME SizeAssumption == ClusterSize \in Nat \ {0} /\ MaxSize \in Nat
ASSUME WindowsAssumption == Kinds \subseteq BOOLEAN /\ Windows \subseteq EarlySteps

VARIABLES
    fat12,     \* the kind of FAT
    entry,     \* per slot the short entry: used, first cluster, size
    node,      \* per slot the node table's state: pinned, first, size, dirty
    pending,   \* FatFs::pending, or NoPending
    steps,     \* the writes the running operation has left
    issued,    \* the first of them is on its way to the device
    lost       \* clusters that were unreachable when the driver was dropped

vars == <<fat12, table, entry, node, pending, steps, issued, lost>>

-----------------------------------------------------------------------------
NoEntry == [used |-> FALSE, first |-> 0, size |-> 0]
NoNode == [pinned |-> FALSE, first |-> 0, size |-> 0, dirty |-> FALSE]
Entry(first, size) == [used |-> TRUE, first |-> first, size |-> size]
CleanNode(first, size) == [pinned |-> TRUE, first |-> first, size |-> size, dirty |-> FALSE]

\* Owner: what links the head of a pending chain.
Nothing == [kind |-> "none"]
AtTail(c) == [kind |-> "tail", at |-> c]
EntryOf(f) == [kind |-> "entry", file |-> f]
Removed(f) == [kind |-> "removed", file |-> f]
Cut(f, size, c) == [kind |-> "cut", file |-> f, size |-> size, at |-> c]

Held(head, extra, owner) == [head |-> head, extra |-> extra, owner |-> owner]
NoPending == Held(0, 0, Nothing)

\* One write: of FAT entries, of a short entry, or of data.  `pre` and
\* `post` are the pending clusters around it, `node` the table state of
\* `file` once it succeeded.
FatStep(pre, patch, post) == [kind |-> "fat", pre |-> pre, patch |-> patch, post |-> post]
EntryStep(pre, f, to, n, post) ==
    [kind |-> "entry", pre |-> pre, file |-> f, to |-> to, node |-> n, post |-> post]
DataStep(pre, f, n, post) == [kind |-> "data", pre |-> pre, file |-> f, node |-> n, post |-> post]

\* An operation is over with its last write: nothing is pending any more.
Finished(s) == [i \in DOMAIN s |-> IF i = Len(s) THEN [s[i] EXCEPT !.post = NoPending] ELSE s[i]]

Idle == steps = <<>>
\* prepare: recovery is complete.
Ready == Idle /\ pending = NoPending

Need(size) == (size + ClusterSize - 1) \div ClusterSize

\* The k-th element of the finite set S in the order that rank gives.
Nth(S, rank, k) == CHOOSE x \in S : Cardinality({y \in S : rank[y] <= rank[x]}) = k

\* The clusters from c on, up to the end, a free cluster or one met before.
Chain(t, c) ==
    LET walk[n \in 0 .. Total] ==
            IF n = 0 THEN IF c \in Clusters /\ t[c] # Free THEN <<c>> ELSE <<>>
            ELSE LET s == walk[n - 1]
                     next == IF s = <<>> THEN EOC ELSE t[s[Len(s)]]
                 IN  IF next \in Clusters /\ t[next] # Free /\ (\A i \in DOMAIN s : s[i] # next)
                     THEN Append(s, next) ELSE s
    IN  walk[Total]
InChain(t, c) == {Chain(t, c)[i] : i \in DOMAIN Chain(t, c)}

-----------------------------------------------------------------------------
\* The first `count` free clusters from `from` on, in the order of the scan.
Found(from, count) ==
    LET free == {c \in Clusters : table[c] = Free}
        rank == [c \in Clusters |-> (c - from) % Total]
    IN  [k \in 1 .. count |-> Nth(free, rank, k)]

\* MUTANT of AllocateOne: the link is written before what it points to.
AllocateOneLinkFirst(c, tail, owner) ==
    LET held == Held(c, 0, owner)
    IN  (IF tail = 0 THEN <<>> ELSE <<FatStep(held, [x \in {tail} |-> c], held)>>)
        \o <<FatStep(held, [x \in {c} |-> EOC], held)>>

\* MUTANT of AllocateOne: both entries in one write, wherever they lie.
AllocateOneMerged(c, tail, owner) ==
    <<FatStep(Held(c, 0, owner), [x \in {c, tail} \ {0} |-> IF x = c THEN EOC ELSE c], Held(c, 0, owner))>>

\* One cluster, linked to `tail` unless that is 0: allocate, allocate_after.
AllocateOne(c, tail, owner) ==
    LET held == Held(c, 0, owner)
    IN  IF tail # 0 /\ SameBlock(tail, c)
        THEN <<FatStep(held, [x \in {c, tail} |-> IF x = c THEN EOC ELSE c], held)>>
        ELSE <<FatStep(held, [x \in {c} |-> EOC], held)>>
             \o (IF tail = 0 THEN <<>> ELSE <<FatStep(held, [x \in {tail} |-> c], held)>>)

\* Several: linked a block at a time from the end of the chain back to its
\* start, and to `tail` with the last group when that shares its block.
AllocateMany(found, tail, owner) ==
    LET starts == {i \in DOMAIN found :
                      i = 1 \/ found[i] < found[i - 1] \/ ~SameBlock(found[i - 1], found[i])}
        nth(k) == Nth(starts, [i \in DOMAIN found |-> -i], k)
        after(i) == IF i = Len(found) THEN EOC ELSE found[i + 1]
        last(k) == IF k = 1 THEN Len(found) ELSE nth(k - 1) - 1
        merged == tail # 0 /\ SameBlock(tail, found[1])
        group(k) == [c \in {found[i] : i \in nth(k) .. last(k)} |->
                        after(CHOOSE i \in DOMAIN found : found[i] = c)]
        linked(k) == [c \in DOMAIN group(k) \cup {tail} |-> IF c = tail THEN found[1] ELSE group(k)[c]]
        step(k) == FatStep(Held(IF k = 1 THEN 0 ELSE found[nth(k - 1)], found[nth(k)], owner),
                           IF merged /\ nth(k) = 1 THEN linked(k) ELSE group(k),
                           Held(found[nth(k)], 0, owner))
        held == Held(found[1], 0, owner)
    IN  [k \in 1 .. Cardinality(starts) |-> step(k)]
        \o (IF tail = 0 \/ merged THEN <<>> ELSE <<FatStep(held, [x \in {tail} |-> found[1]], held)>>)

\* allocate_run and allocate_run_after
Allocate(found, tail, owner) ==
    IF Len(found) = 1 THEN AllocateOne(found[1], tail, owner) ELSE AllocateMany(found, tail, owner)

\* free_chain: on FAT12 one by one, else the clusters that follow each other
\* in the chain and share a block.
FreeChain(chain) ==
    LET starts == {i \in DOMAIN chain : i = 1 \/ fat12 \/ ~SameBlock(chain[i - 1], chain[i])}
        nth(k) == Nth(starts, [i \in DOMAIN chain |-> i], k)
        next(k) == IF k = Cardinality(starts) THEN Len(chain) + 1 ELSE nth(k + 1)
        held(k) == Held(IF next(k) > Len(chain) THEN 0 ELSE chain[next(k)], chain[nth(k)], Nothing)
    IN  [k \in 1 .. Cardinality(starts) |->
            FatStep(held(k), [c \in {chain[i] : i \in nth(k) .. next(k) - 1} |-> Free], held(k))]

\* reclaim: one cluster at a time.
Reclaim(chain, keep) ==
    LET held(i) == Held(IF i = Len(chain) THEN keep ELSE chain[i + 1], chain[i], Nothing)
    IN  [i \in DOMAIN chain |-> FatStep(held(i), [c \in {chain[i]} |-> Free], held(i))]

-----------------------------------------------------------------------------
\* file_node: the state an operation starts from.
State(f) == IF node[f].pinned THEN node[f] ELSE CleanNode(entry[f].first, entry[f].size)

\* MUTANT of Reached: the walk stops one cluster short.
ReachedShort(chain) == chain[IF Len(chain) > 1 THEN Len(chain) - 1 ELSE 1]

\* The last cluster that cover reaches, which growth links from.
Reached(chain) == chain[Len(chain)]

\* store: the entry, and then the node.
Store(pre, f, first, size, post) ==
    EntryStep(pre, f, Entry(first, size), IF node[f].pinned THEN CleanNode(first, size) ELSE NoNode, post)

\* fill and publish: a pinned node whose first cluster stays takes the size
\* in memory, anything else in its entry.
Publish(held, f, first, size) ==
    LET n == State(f)
    IN  IF node[f].pinned /\ first = n.first
        THEN <<DataStep(held, f, [n EXCEPT !.size = size, !.dirty = TRUE], NoPending)>>
        ELSE <<DataStep(held, f, node[f], held), Store(held, f, first, size, NoPending)>>

Start(s) ==
    /\ steps' = s /\ issued' = FALSE
    /\ UNCHANGED <<table, entry, node, pending, lost>>

\* write, and truncate to a larger size.  Without room it fails and changes
\* nothing.
Grow(f, end) ==
    /\ Ready /\ entry[f].used
    /\ LET n == State(f)
           chain == Chain(table, n.first)
           count == Need(end) - Len(chain)
           size == IF end > n.size THEN end ELSE n.size
           tail == IF n.first = 0 THEN 0 ELSE Reached(chain)
           owner == IF n.first = 0 THEN EntryOf(f) ELSE AtTail(tail)
       IN  IF count <= 0
           THEN Start(Publish(NoPending, f, n.first, size))
           ELSE /\ count <= Cardinality({c \in Clusters : table[c] = Free})
                /\ \E from \in Clusters :
                      LET found == Found(from, count)
                          first == IF n.first = 0 THEN found[1] ELSE n.first
                      IN  Start(Allocate(found, tail, owner)
                                \o Publish(Held(found[1], 0, owner), f, first, size))

\* truncate to a smaller size: the entry first, then the chain is cut and
\* the rest of it freed.
Shrink(f, len) ==
    /\ Ready /\ entry[f].used /\ len < State(f).size
    /\ LET n == State(f)
           chain == Chain(table, n.first)
           keep == Need(len)
           first == IF keep = 0 THEN 0 ELSE n.first
           last == chain[keep]
           rest == SubSeq(chain, keep + 1, Len(chain))
       IN  Start(
            IF keep = 0 /\ n.first # 0
            THEN LET held == Held(n.first, 0, EntryOf(f))
                 IN  <<Store(held, f, 0, len, held)>> \o Finished(FreeChain(chain))
            ELSE IF keep # 0 /\ keep < Len(chain)
            THEN LET cut == Held(rest[1], 0, Cut(f, len, last))
                     held == Held(rest[1], 0, AtTail(last))
                 IN  <<Store(cut, f, first, len, held), FatStep(held, [x \in {last} |-> EOC], held)>>
                     \o Finished(FreeChain(rest))
            ELSE <<Store(NoPending, f, first, len, NoPending)>>)

\* remove_entry of a file: the entry first, then its node, then its chain.
Unlink(f) ==
    /\ Ready /\ entry[f].used
    /\ LET first == State(f).first
           held == IF first = 0 THEN NoPending ELSE Held(first, 0, Removed(f))
       IN  Start(<<EntryStep(held, f, NoEntry, NoNode, held)>> \o Finished(FreeChain(Chain(table, first))))

\* create
Create(f) ==
    /\ Ready /\ ~entry[f].used
    /\ Start(<<EntryStep(NoPending, f, Entry(0, 0), CleanNode(0, 0), NoPending)>>)

\* close, fsync and sync write a dirty node's size, without recovery.  A
\* slot whose entry is gone fails with Corrupt.
FlushNode(f) ==
    /\ Idle /\ node[f].dirty /\ entry[f].used
    /\ Start(<<Store(pending, f, node[f].first, node[f].size, pending)>>)

\* lookup pins a node, forget drops it once its size is written.  Neither
\* runs recovery.
Lookup(f) ==
    /\ Idle /\ entry[f].used /\ ~node[f].pinned
    /\ node' = [node EXCEPT ![f] = CleanNode(entry[f].first, entry[f].size)]
    /\ UNCHANGED <<table, entry, pending, steps, issued, lost>>

Forget(f) ==
    /\ Idle /\ node[f].pinned /\ ~node[f].dirty
    /\ node' = [node EXCEPT ![f] = NoNode]
    /\ UNCHANGED <<table, entry, pending, steps, issued, lost>>

-----------------------------------------------------------------------------
\* links
Links(owner, c) ==
    CASE owner.kind \in {"tail", "cut"} -> table[owner.at] = c
      [] owner.kind \in {"entry", "removed"} -> entry[owner.file].used /\ entry[owner.file].first = c
      [] OTHER -> FALSE

\* MUTANT of Shrunk: recovery cuts whether or not the entry landed.
ShrunkAlways(owner) == entry[owner.file].used

\* shrunk: the entry records the size of an interrupted shrink.
Shrunk(owner) == entry[owner.file].used /\ entry[owner.file].size = owner.size

\* MUTANT of Recovered: recovery leaves the node table alone.
RecoveredNot(owned) == node

\* What recovery does to the node table: a shrink that landed gives the node
\* its size, an entry that changed gives it the first cluster and the size,
\* a removal that landed drops it.
Recovered(owned) ==
    LET o == pending.owner
        f == o.file
    IN  CASE o.kind = "cut" /\ Shrunk(o) /\ node[f].pinned ->
                [node EXCEPT ![f] = CleanNode(node[f].first, o.size)]
          [] o.kind = "entry" /\ node[f].pinned /\ entry[f].used /\ node[f].first # entry[f].first ->
                [node EXCEPT ![f] = CleanNode(entry[f].first, entry[f].size)]
          [] o.kind = "removed" /\ ~owned /\ node[f].pinned /\ node[f].first = pending.head ->
                [node EXCEPT ![f] = NoNode]
          [] OTHER -> node

\* MUTANT of ReclaimAll: the extra chain is forgotten.
ReclaimAllHeadOnly(head, extra) == Reclaim(Chain(table, head), 0)

\* The clusters that recovery frees: the extra chain, then what is left of
\* the chain at head.
ReclaimAll(head, extra) ==
    LET chain == Chain(table, extra)
        freed == [c \in {chain[i] : i \in DOMAIN chain} |-> Free]
        rest == Chain(Patched(table, freed), head)
    IN  Reclaim(chain, head) \o Reclaim(rest, 0)

\* finish_interrupted, from the point where the FAT copies agree.
Recover ==
    /\ Idle /\ pending # NoPending
    /\ LET o == pending.owner
           dropped == o.kind = "cut" /\ ~Shrunk(o)
           isTail == o.kind \in {"tail", "cut"}
           owned == \/ pending.head # 0 /\ Links(o, pending.head)
                    \/ isTail /\ pending.extra # 0 /\ Links(o, pending.extra)
           unowned == [pending EXCEPT !.owner = Nothing]
           s == IF dropped \/ (owned /\ ~isTail) THEN <<>>
                ELSE (IF owned THEN <<FatStep(pending, [x \in {o.at} |-> EOC], unowned)>> ELSE <<>>)
                     \o ReclaimAll(pending.head, pending.extra)
       IN  /\ node' = Recovered(owned)
           /\ steps' = Finished(s) /\ issued' = FALSE
           /\ pending' = IF s = <<>> THEN NoPending ELSE IF owned THEN pending ELSE unowned
    /\ UNCHANGED <<table, entry, lost>>

-----------------------------------------------------------------------------
\* `pending` is set, then the write goes to the device.
Issue ==
    /\ ~Idle /\ ~issued
    /\ pending' = Head(steps).pre /\ issued' = TRUE
    /\ UNCHANGED <<table, entry, node, steps, lost>>

Applied(s) ==
    /\ table' = IF s.kind = "fat" THEN Patched(table, s.patch) ELSE table
    /\ entry' = IF s.kind = "entry" THEN [entry EXCEPT ![s.file] = s.to] ELSE entry

\* It succeeds.
Land ==
    /\ issued
    /\ LET s == Head(steps)
       IN  /\ Applied(s)
           /\ node' = IF s.kind = "fat" THEN node ELSE [node EXCEPT ![s.file] = s.node]
           /\ pending' = s.post
    /\ steps' = Tail(steps) /\ issued' = FALSE
    /\ UNCHANGED lost

\* It fails, or the operation is dropped here or while it reads.
CutBefore ==
    /\ ~Idle
    /\ steps' = <<>> /\ issued' = FALSE
    /\ UNCHANGED <<table, entry, node, pending, lost>>

\* Which of EarlySteps a write is when its effect goes unnoticed.
Early(s) ==
    IF s.kind # "entry" THEN {}
    ELSE IF s.pre.owner.kind = "tail" /\ ~node[s.file].dirty THEN {"unpinned_growth"}
    ELSE IF ~s.to.used /\ s.pre = NoPending /\ node[s.file].pinned THEN {"empty_unlink"}
    ELSE IF s.pre = NoPending /\ node[s.file].pinned /\ s.to.size < node[s.file].size THEN {"small_shrink"}
    ELSE {}

\* The same, after the write took effect.
CutAfter ==
    /\ issued
    /\ LET s == Head(steps)
       IN  /\ Early(s) \subseteq Windows
           /\ Applied(s)
    /\ steps' = <<>> /\ issued' = FALSE
    /\ UNCHANGED <<node, pending, lost>>

\* The clusters that a file's chain on disk does not reach.
Reachable == UNION {InChain(table, entry[f].first) : f \in {f \in Files : entry[f].used}}
Unreachable == {c \in Clusters : table[c] # Free} \ Reachable

\* The driver is dropped, or the process stops, and the volume is mounted.
Remount ==
    /\ node' = [f \in Files |-> NoNode] /\ pending' = NoPending
    /\ steps' = <<>> /\ issued' = FALSE
    /\ lost' = Unreachable
    /\ UNCHANGED <<table, entry>>

Init ==
    /\ fat12 \in Kinds
    /\ table = [c \in Clusters |-> Free]
    /\ entry = [f \in Files |-> NoEntry] /\ node = [f \in Files |-> NoNode]
    /\ pending = NoPending /\ steps = <<>> /\ issued = FALSE
    /\ lost = {}

Step ==
    \/ \E f \in Files :
          \/ Create(f) \/ Unlink(f) \/ FlushNode(f) \/ Lookup(f) \/ Forget(f)
          \/ \E size \in 1 .. MaxSize : Grow(f, size)
          \/ \E size \in 0 .. MaxSize - 1 : Shrink(f, size)
    \/ Recover \/ Issue \/ Land \/ CutBefore \/ CutAfter \/ Remount

Next == Step /\ UNCHANGED fat12

Spec == Init /\ [][Next]_vars

-----------------------------------------------------------------------------
Owners ==
    {Nothing} \cup {AtTail(c) : c \in Clusters} \cup {EntryOf(f) : f \in Files} \cup {Removed(f) : f \in Files}
    \cup {Cut(f, size, c) : f \in Files, size \in 0 .. MaxSize, c \in Clusters}

TypeOK ==
    /\ fat12 \in Kinds
    /\ table \in [Clusters -> Values]
    /\ entry \in [Files -> [used : BOOLEAN, first : Clusters \cup {0}, size : 0 .. MaxSize]]
    /\ node \in [Files -> [pinned : BOOLEAN, first : Clusters \cup {0}, size : 0 .. MaxSize, dirty : BOOLEAN]]
    /\ pending \in [head : Clusters \cup {0}, extra : Clusters \cup {0}, owner : Owners]
    /\ issued \in BOOLEAN /\ (issued => steps # <<>>)
    /\ lost \subseteq Clusters

\* Every link and every first cluster is a cluster marked in the FAT ...
NoDanglingLinks ==
    /\ \A c \in Clusters : table[c] \in Clusters => table[table[c]] # Free
    /\ \A f \in Files : entry[f].used /\ entry[f].first # 0 => table[entry[f].first] # Free

\* ... and nothing else links it.
NoCrossLinks ==
    \A c \in Clusters :
        Cardinality({d \in Clusters : table[d] = c}) + Cardinality({f \in Files : entry[f].used /\ entry[f].first = c}) <= 1

\* "An interruption never leaves a cross-linked or dangling chain": at every
\* instant, and so after any cut.
ChainsSound == NoDanglingLinks /\ NoCrossLinks

\* At every instant, and after any cut, the chain on disk holds the size
\* that the entry records: no read runs off the end of a chain.
SizeWithinChain ==
    \A f \in Files : entry[f].used => Need(entry[f].size) <= Len(Chain(table, entry[f].first))

\* "Lost clusters remain only when the process stops, or the driver is
\* dropped, in between": with nothing pending, every other cluster is free
\* or in a file's chain.
NoLeak == Ready => Unreachable \subseteq lost

\* "The driver's own state stays consistent with the disk": with nothing
\* pending, a node has its entry's first cluster, and its size unless a new
\* size that the chain holds is still to be written.
NodesAgree ==
    Ready => \A f \in Files : node[f].pinned =>
        /\ entry[f].used /\ node[f].first = entry[f].first
        /\ IF node[f].dirty THEN Need(node[f].size) <= Len(Chain(table, node[f].first))
                            ELSE node[f].size = entry[f].size

\* Every write of the table keeps to what one device write per copy can do,
\* so that it happens at once or not at all.
GroupWrites == TableSpec

\* No step takes away what a file had: while an entry stays, the clusters
\* under the size it keeps stay the same, in the same order.
DataKept ==
    [][\A f \in Files : entry[f].used /\ entry'[f].used =>
          LET old == Chain(table, entry[f].first)
              new == Chain(table', entry'[f].first)
              kept == IF entry[f].size < entry'[f].size THEN entry[f].size ELSE entry'[f].size
          IN  \A i \in 1 .. Need(kept) : i \in DOMAIN new /\ new[i] = old[i]]_vars
=============================================================================
