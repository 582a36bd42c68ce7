------------------------------- MODULE ExfatFs ------------------------------
(***************************************************************************)
(* The exFAT driver (hadris-fat exfat/fs.rs, on hadris-fat-raw             *)
(* exfat/io/volume.rs): entry sets in directories, the FAT, the allocation *)
(* bitmap and the pinned nodes, under create, mkdir, unlink, rmdir,        *)
(* rename, write, truncate, fsync, close and sync, one device write at a   *)
(* time, and the recovery that the next call makes of one that was cut.  A *)
(* write may fail, or the future of the call may be dropped in it; either  *)
(* way it may or may not have taken effect.                                *)
(*                                                                         *)
(* A call has exclusive use of the driver: what it reads is read when a    *)
(* stage of it begins, and the stage is then a sequence of writes, each    *)
(* with what the driver remembers while it is made.  Sizes are in          *)
(* clusters.  The FAT and the bitmap fit in a device block each.  The      *)
(* VolumeDirty flag is in ExfatDirty.                                      *)
(***************************************************************************)
EXTENDS Integers, Sequences, FiniteSets, SequencesExt

CONSTANTS
    Names,       \* names of entries
    Width,       \* entries of a set with that name: File, Stream, File Names
    Ids,         \* identities of files and directories, 1 .. Ids
    PerCluster,  \* entries of a cluster
    PerBlock,    \* entries of a device block
    LastCluster, \* clusters 1 .. LastCluster; the root starts in cluster 1
    MaxLen,      \* bound: clusters of a file
    Starts,      \* what the root may start with: sequences of [name, dir, len, contig]
    Pinning,     \* a subset of BOOLEAN: whether the nodes are pinned
    MaxOps,      \* bound: operations that begin
    MaxFaults,   \* bound: writes that fail or are dropped
    Windows      \* the early steps taken: a subset of EarlySteps

Clusters == 1 .. LastCluster
Root == 1
EarlySteps == {"link_landed", "ghost_target", "unlinked_target", "early_publish"}

ASSUME ExfatAssumption ==
    /\ Width \in [Names -> Nat \ {0, 1, 2}]
    /\ PerBlock \in Nat \ {0} /\ PerCluster % PerBlock = 0 /\ LastCluster \in Nat \ {0}
    /\ \A n \in Names : Width[n] <= PerCluster
    /\ Pinning \subseteq BOOLEAN
    /\ {MaxLen, Ids, MaxOps, MaxFaults} \subseteq Nat /\ Windows \subseteq EarlySteps

VARIABLES
    pinning, \* whether the caller keeps every node it meets pinned
    disk,    \* the entry in each slot of each cluster
    fat,     \* per cluster the next one, or FatEnd, or what was left there
    bits,    \* the bitmap: whether a cluster is used
    mem,     \* ExFatFs::pending, pending_set and nodes
    op,      \* the operation under way
    tree,    \* the entries that a walk found when the volume last settled
    goal,    \* {what the operation makes of them}, or {}
    last,    \* "ok" or "failed", the last operation
    used     \* the counters of the bounds

vars == <<pinning, disk, fat, bits, mem, op, tree, goal, last, used>>

FatEnd == LastCluster + 1

-----------------------------------------------------------------------------
\* Entries.  A checksum is what it sums: the entries behind the File entry.
\* The name in a Stream entry is its length and NameHash.
End == [is |-> "end"]
Free == [is |-> "free"]
FileEntry(id, dir, more) == [is |-> "file", id |-> id, dir |-> dir, more |-> more, sum |-> <<>>]
Stream(name, node) == [is |-> "stream", name |-> name, first |-> node.first, contig |-> node.contig, len |-> node.len]
NameEntry(name, part) == [is |-> "name", name |-> name, part |-> part]
InUse(entry) == entry.is \in {"file", "stream", "name"}

\* seal
Seal(raw) == <<[raw[1] EXCEPT !.sum = Tail(raw)]>> \o Tail(raw)

WithStream(raw, stream) == Seal(<<raw[1], stream>> \o SubSeq(raw, 3, Len(raw)))

\* build_set
BuildSet(name, id, dir, node) ==
    LET n == Width[name]
    IN  Seal([k \in 1 .. n |-> CASE k = 1 -> FileEntry(id, dir, n - 1)
                                 [] k = 2 -> Stream(name, node)
                                 [] OTHER -> NameEntry(name, k - 2)])

\* pending_hash: whether the entries form a File entry set.
Formed(raw) ==
    /\ raw[1].is = "file" /\ 1 + raw[1].more = Len(raw) /\ Len(raw) >= 3
    /\ raw[2].is = "stream" /\ Width[raw[2].name] <= Len(raw)
    /\ \A k \in 3 .. Len(raw) : raw[k].is = "name"

\* parse_set
ParseSet(raw) == Formed(raw) /\ raw[1].sum = Tail(raw)

\* Pending: a chain and one cluster more, or a run, and what links it.
Nothing == <<"none">>
Held(head, extra, owner) == [head |-> head, extra |-> extra, owner |-> owner, count |-> 0]
RunOf(first, count, owner) == [head |-> first, extra |-> 0, owner |-> owner, count |-> count]
NoPending == Held(0, 0, Nothing)
\* SetPending
Writing(at, kind) == [at |-> at, kind |-> kind, old |-> <<>>]
Reverting(at, old) == [at |-> at, kind |-> "revert", old |-> old]
NoSet == Writing(<<>>, "none")
Remember(pending, set, nodes) == [pending |-> pending, set |-> set, nodes |-> nodes]
Settled(m) == m.pending = NoPending /\ m.set = NoSet

\* Where a node's data is.
NoData == [first |-> 0, contig |-> FALSE, len |-> 0]
Node(at, dir, data, dirty) ==
    [at |-> at, dir |-> dir, first |-> data.first, contig |-> data.contig, len |-> data.len, dirty |-> dirty]

-----------------------------------------------------------------------------
\* Reading.

Chain(c) ==
    LET follow[d \in 0 .. FatEnd, k \in 0 .. LastCluster] ==
            IF d \notin Clusters \/ k = 0 THEN <<>> ELSE <<d>> \o follow[fat[d], k - 1]
    IN  follow[c, LastCluster]
\* The used clusters that reclaim meets from c on.
UsedChain(c) ==
    LET chain == Chain(c)
        freed == {k \in DOMAIN chain : ~bits[chain[k]]}
    IN  IF freed = {} THEN chain ELSE SubSeq(chain, 1, (CHOOSE k \in freed : \A j \in freed : k <= j) - 1)

\* The clusters of an allocation, up to its size.
Span(data) ==
    LET chain == Chain(data.first)
    IN  IF data.contig THEN [k \in 1 .. data.len |-> data.first + k - 1]
        ELSE SubSeq(chain, 1, IF data.len < Len(chain) THEN data.len ELSE Len(chain))
LastOf(seq) == seq[Len(seq)]

\* slot_offset
SlotAt(span, s) == <<span[((s - 1) \div PerCluster) + 1], ((s - 1) % PerCluster) + 1>>
SlotCount(span) == PerCluster * Len(span)
FirstEnd(span) ==
    LET ends == {s \in 1 .. SlotCount(span) : disk[SlotAt(span, s)] = End}
    IN  IF ends = {} THEN SlotCount(span) + 1 ELSE CHOOSE s \in ends : \A t \in ends : s <= t

\* A set read from a directory.
SetFrom(d, at) == [dir |-> d, at |-> at, raw |-> [k \in DOMAIN at |-> disk[at[k]]]]
IsDir(t) == t.raw[1].dir
IdOf(t) == t.raw[1].id
Name(t) == t.raw[3].name

\* next_set, over a whole directory; read_set.
SetsIn(d, span) ==
    LET files == {s \in 1 .. FirstEnd(span) - 1 : disk[SlotAt(span, s)].is = "file"}
        fit == {s \in files : s + disk[SlotAt(span, s)].more <= SlotCount(span)}
        all == {SetFrom(d, [k \in 1 .. 1 + disk[SlotAt(span, s)].more |-> SlotAt(span, s + k - 1)]) : s \in fit}
    IN  {t \in all : ParseSet(t.raw)}

\* Every set that a walk from the root finds, three levels deep.
Under(sets) == sets \cup UNION {SetsIn(t.raw[2].first, Span(t.raw[2])) : t \in {t \in sets : IsDir(t)}}
Sets == Under(Under(SetsIn(Root, Chain(Root))))
NodeOf(t) == [dir |-> IsDir(t), id |-> IdOf(t), first |-> IF IsDir(t) THEN t.raw[2].first ELSE 0]
Listing == {<<t.dir, Name(t), NodeOf(t)>> : t \in Sets}

\* set_at: the directory is not known, so a set that leaves its cluster goes
\* on in the next one of the FAT or, if that makes no set, the one after.
SetAt(a) ==
    LET n == 1 + disk[a].more
        path(next) == [k \in 1 .. n |-> IF a[2] + k - 1 <= PerCluster THEN <<a[1], a[2] + k - 1>>
                                        ELSE <<next, a[2] + k - 1 - PerCluster>>]
        good(next) == (a[2] + n - 1 <= PerCluster \/ next \in Clusters) /\ ParseSet(SetFrom(0, path(next)).raw)
    IN  CASE disk[a].is # "file" -> {}
          [] good(fat[a[1]]) -> {SetFrom(0, path(fat[a[1]]))}
          [] good(a[1] + 1) -> {SetFrom(0, path(a[1] + 1))}
          [] OTHER -> {}

\* pinned_at: the id of the node, or 0.
PinnedAt(nodes, a) ==
    LET ids == {i \in DOMAIN nodes : nodes[i].at = a}
    IN  IF ids = {} THEN 0 ELSE CHOOSE i \in ids : \A j \in ids : i <= j
Unlinked(nodes, id) == [i \in DOMAIN nodes \ {id} |-> nodes[i]]
With(nodes, id, node) == [i \in DOMAIN nodes \cup {id} |-> IF i = id THEN node ELSE nodes[i]]
Pin(nodes, id, node) == IF pinning THEN With(nodes, id, node) ELSE nodes
Update(nodes, id, node) == IF id \in DOMAIN nodes THEN With(nodes, id, node) ELSE nodes

\* The state of the node of a set: the table's, else Node::from_set.
State(t) ==
    LET id == PinnedAt(mem.nodes, t.at[1])
    IN  IF id = 0 THEN Node(t.at[1], IsDir(t), t.raw[2], FALSE) ELSE mem.nodes[id]

\* dir_info: a directory's node, its set and the clusters it spans.
RootInfo == [node |-> Node(<<>>, TRUE, [first |-> Root, contig |-> FALSE, len |-> 0], FALSE),
             set |-> <<>>, span |-> Chain(Root)]
InfoOf(t) == [node |-> State(t), set |-> t, span |-> Span(State(t))]
DirSet(d) == CHOOSE t \in Sets : IsDir(t) /\ t.raw[2].first = d
DirInfo(d) == IF d = Root THEN RootInfo ELSE InfoOf(DirSet(d))
IsRoot(dir) == dir.node.at = <<>>
Find(dir, name) == {t \in SetsIn(dir.node.first, dir.span) : Name(t) = name}

\* No primary entry in use before the end.
NoFiles(span) == \A s \in 1 .. FirstEnd(span) - 1 : disk[SlotAt(span, s)].is # "file"
\* MUTANT of DirIsEmpty: every directory may be removed.
AssumedEmpty(node) == TRUE
\* dir_is_empty
DirIsEmpty(node) == NoFiles(Span(node))

\* is_within
IsWithin(d, ancestor) ==
    \/ d = ancestor.first
    \/ \E t \in Under(Under(SetsIn(ancestor.first, Span(ancestor)))) : IsDir(t) /\ t.raw[2].first = d

-----------------------------------------------------------------------------
\* Writes.  Each has what the driver remembers while it is made, and the
\* calls that follow when it fails.
Patch(old, new) == [x \in DOMAIN old |-> IF x \in DOMAIN new THEN new[x] ELSE old[x]]
Write(fatPatch, slotPatch, bitPatch, held, err) ==
    [fat |-> fatPatch, slots |-> slotPatch, bits |-> bitPatch, held |-> held, err |-> err]
SetFat(c, value, held, err) == Write([d \in {c} |-> value], <<>>, <<>>, held, err)
\* patch_bits
SetBits(cs, state, held, err) == Write(<<>>, <<>>, [c \in cs |-> state], held, err)
Put(a, entry, held, err) == Write(<<>>, [b \in {a} |-> entry], <<>>, held, err)
Zero(c, held, err) == Write(<<>>, [a \in {c} \X (1 .. PerCluster) |-> End], <<>>, held, err)
Data(held, err) == Write(<<>>, <<>>, <<>>, held, err)
\* link_run, link_free, patch_fat: the clusters become a chain.
LinkRun(span, held, err) ==
    LET next(k) == IF k = Len(span) THEN FatEnd ELSE span[k + 1]
    IN  Write([c \in ToSet(span) |-> next(CHOOSE k \in DOMAIN span : span[k] = c)], <<>>, <<>>, held, err)

\* put_entries: a write for each run of entries that follow each other in a
\* device block.
Joined(at, k) ==
    /\ k > 1 /\ at[k][1] = at[k - 1][1] /\ at[k][2] = at[k - 1][2] + 1
    /\ (at[k][2] - 1) \div PerBlock = (at[k - 1][2] - 1) \div PerBlock
PutEntries(at, raw, held, err) ==
    LET starts == SetToSortSeq({k \in DOMAIN at : ~Joined(at, k)}, <)
        past(j) == IF j = Len(starts) THEN Len(at) + 1 ELSE starts[j + 1]
        place(k) == at[k]
    IN  [j \in DOMAIN starts |->
            LET run == starts[j] .. past(j) - 1
            IN  Write(<<>>, [a \in {place(k) : k \in run} |-> raw[CHOOSE k \in run : at[k] = a]], <<>>, held, err)]

\* write_set of the first n entries, the File entry last.
WriteSet(at, raw, n, held, err) == Reverse(PutEntries(SubSeq(at, 1, n), SubSeq(raw, 1, n), held, err))
\* clear_set, the File entry first.
ClearSet(at, held, err) == PutEntries(at, [k \in DOMAIN at |-> Free], held, err)

\* allocate
Allocate(c, held, err) == <<SetFat(c, FatEnd, held, err), SetBits({c}, TRUE, held, err)>>

\* reclaim
Reclaim(chain, keep, held, err) ==
    LET next(k) == IF fat[chain[k]] \in Clusters THEN fat[chain[k]] ELSE keep
    IN  [k \in DOMAIN chain |->
            SetBits({chain[k]}, FALSE, [held EXCEPT !.pending = Held(next(k), chain[k], Nothing)], err)]

\* held_alloc
HeldAlloc(node, owner) ==
    CASE node.first = 0 \/ (node.contig /\ node.len = 0) -> NoPending
      [] node.contig -> RunOf(node.first, node.len, owner)
      [] OTHER -> Held(node.first, 0, owner)

\* free_chain: the chain is held as the extra one meanwhile.
FreeChain(first, held, err) ==
    SetBits(ToSet(Chain(first)), FALSE, [held EXCEPT !.pending = Held(0, first, Nothing)], err)

\* free_alloc
FreeAlloc(node, held, err) ==
    CASE HeldAlloc(node, Nothing) = NoPending -> <<>>
      [] node.contig -> <<SetBits(ToSet(Span(node)), FALSE, held, err)>>
      [] OTHER -> <<FreeChain(node.first, held, err)>>

-----------------------------------------------------------------------------
\* Calls, each in one part: it reads, then writes.  `after` is what the
\* driver remembers once the part is done.
Part(writes, after) == [writes |-> writes, after |-> after]

\* recover
Recovery == <<[do |-> "set"], [do |-> "pending"]>>

\* reload_dir
ReloadDir(nodes, a, stream) ==
    LET id == PinnedAt(nodes, a)
    IN  IF id = 0 \/ (id # 0 /\ ~nodes[id].dir) THEN nodes ELSE With(nodes, id, Node(a, TRUE, stream, nodes[id].dirty))

\* finish_set
FinishSet(err) ==
    LET set == mem.set
        at == set.at
        raw == [k \in DOMAIN at |-> disk[at[k]]]
        left == SelectSeq(at, LAMBDA a : InUse(disk[a]))
        stream == [(IF set.kind = "revert" THEN set.old ELSE raw[2]) EXCEPT !.name = raw[3].name]
        done == [mem EXCEPT !.set = NoSet]
    IN  CASE set = NoSet \/ (set.kind = "insert" /\ ParseSet(raw)) -> Part(<<>>, done)
          [] set.kind \in {"insert", "clear"} ->
                Part([k \in DOMAIN left |-> Put(left[k], Free, mem, err)],
                     IF set.kind = "insert" THEN done
                     ELSE [done EXCEPT !.nodes = Unlinked(@, PinnedAt(@, at[1]))])
          [] set.kind \in {"update", "revert"} /\ Formed(raw) ->
                Part(WriteSet(at, WithStream(raw, stream), 2, mem, err),
                     [done EXCEPT !.nodes = ReloadDir(@, at[1], stream)])
          [] OTHER -> Part(<<>>, done)

\* links
Links(owner, head) ==
    CASE owner[1] \in {"cluster", "tail"} -> fat[owner[2]] = head
      [] owner[1] \in {"entry", "removed"} -> \E t \in SetAt(owner[2]) : t.raw[2].first = head
      [] OTHER -> FALSE

\* MUTANT of Reconciled: the node keeps what it had.
Unreconciled(nodes, a) == nodes
\* reconcile, and what shrunk does to a pinned node.
Reconciled(nodes, a) ==
    LET id == PinnedAt(nodes, a)
        sets == SetAt(a)
        t == CHOOSE t \in sets : TRUE
    IN  IF id = 0 \/ sets = {} \/ (id # 0 /\ sets # {} /\ nodes[id].first = t.raw[2].first) THEN nodes
        ELSE With(nodes, id, Node(a, nodes[id].dir, t.raw[2], FALSE))
Shrunk(nodes, a, len) ==
    LET id == PinnedAt(nodes, a)
    IN  IF id = 0 THEN nodes ELSE With(nodes, id, [nodes[id] EXCEPT !.len = len, !.dirty = FALSE])

\* finish_pending
FinishPending(err) ==
    LET p == mem.pending
        isCut == p.owner[1] = "cut"
        landed == isCut /\ \E t \in SetAt(p.owner[2]) : t.raw[2].len = p.owner[3]
        owner == CASE ~isCut -> p.owner
                   [] p.owner[4] = 0 -> Nothing
                   [] OTHER -> <<"tail", p.owner[4]>>
        linked == p.head # 0 /\ Links(owner, p.head)
        owned == linked /\ owner[1] # "tail"
        seen == [mem EXCEPT !.nodes = IF landed THEN Shrunk(@, p.owner[2], p.owner[3]) ELSE @]
        known == [seen EXCEPT !.nodes =
                    LET id == IF owner[1] \in {"entry", "removed"} THEN PinnedAt(@, owner[2]) ELSE 0
                    IN  CASE owner[1] = "entry" -> Reconciled(@, owner[2])
                          [] owner[1] = "removed" /\ ~owned /\ id # 0 ->
                                IF @[id].first = p.head THEN Unlinked(@, id) ELSE @
                          [] OTHER -> @]
        held == [known EXCEPT !.pending.owner = Nothing]
        done == [known EXCEPT !.pending = NoPending]
        extra == UsedChain(p.extra)
        rest == SelectSeq(UsedChain(p.head), LAMBDA c : c \notin ToSet(extra))
    IN  IF p = NoPending \/ (isCut /\ ~landed) THEN Part(<<>>, [mem EXCEPT !.pending = NoPending])
        ELSE Part((IF owner[1] = "tail" /\ linked THEN <<SetFat(owner[2], FatEnd, seen, err)>> ELSE <<>>)
                  \o (CASE owned -> <<>>
                        [] p.count # 0 -> <<SetBits(p.head .. p.head + p.count - 1, FALSE, held, err)>>
                        [] OTHER -> Reclaim(extra, p.head, held, err) \o Reclaim(rest, 0, held, err)),
                  done)

\* store: the node's data goes into its set.  A set that is being written
\* for clusters that recovery would cut off again is put back by it.
Store(t, data, m, err) ==
    LET new == WithStream(t.raw, Stream(Name(t), data))
        set == IF m.pending.owner[1] = "tail" THEN Reverting(t.at, t.raw[2]) ELSE Writing(t.at, "update")
    IN  WriteSet(t.at, new, 2, [m EXCEPT !.set = set], err)

Dirty == {i \in DOMAIN mem.nodes : mem.nodes[i].dirty}

\* flush_node; one whose set cannot be read is given up by sync.
FlushNode(id, clean, err) ==
    LET node == mem.nodes[id]
        sets == SetAt(node.at)
        t == CHOOSE t \in sets : TRUE
    IN  IF sets = {} THEN Part(<<>>, [mem EXCEPT !.nodes[id].dirty = ~clean])
        ELSE Part(Store(t, node, mem, err), [mem EXCEPT !.set = NoSet, !.nodes[id].dirty = FALSE])

\* The target of a replacement that failed is written back.
Restore(t, err) == Part(WriteSet(t.at, t.raw, Len(t.at), [mem EXCEPT !.set = Writing(t.at, "insert")], err),
                        [mem EXCEPT !.set = NoSet])

\* The end of a replacement, once the source's old set is gone.
Freed(call, err) ==
    LET held == Remember(call.held, mem.set, Unlinked(mem.nodes, call.id))
    IN  Part(FreeAlloc(call.node, held, err), [held EXCEPT !.pending = NoPending])

PartOf(call, err) ==
    CASE call.do = "set" -> FinishSet(err)
      [] call.do = "pending" -> FinishPending(err)
      [] call.do = "publish" /\ call.id \in Dirty -> FlushNode(call.id, FALSE, err)
      [] call.do = "flush" /\ Dirty # {} -> FlushNode(Min(Dirty), TRUE, err)
      [] call.do = "restore" -> Restore(call.set, err)
      [] call.do = "hold" -> Part(<<>>, [mem EXCEPT !.pending = call.held])
      [] call.do = "free" -> Freed(call, err)
      [] OTHER -> Part(<<>>, mem)

\* What is left to do after the call at the head of `next`, a sequence of
\* groups: a failure ends its group only.
Following(call, next) ==
    IF call.do = "flush" /\ Cardinality(Dirty) > 1 THEN next ELSE <<Tail(next[1])>> \o Tail(next)

-----------------------------------------------------------------------------
\* plan: the first run of free slots that is long enough, else the free
\* slots at the end and one cluster more.
FreeSlots(span, reused) ==
    {s \in 1 .. SlotCount(span) : s >= FirstEnd(span) \/ SlotAt(span, s) \in reused \/ ~InUse(disk[SlotAt(span, s)])}
Fitting(free, n, needed) ==
    LET fits == {s \in 1 .. n : s .. s + needed - 1 \subseteq free}
    IN  [start |-> Min(IF fits # {} THEN fits ELSE {s \in 1 .. n + 1 : s .. n \subseteq free}),
         grow  |-> fits = {}]
Plan(span, needed, reused) == Fitting(FreeSlots(span, reused), SlotCount(span), needed)

FreeClusters == {c \in Clusters : ~bits[c]}
\* The scan starts anywhere, and one free cluster is like the other.
Pick(needed, S) == IF needed /\ S # {} THEN Min(S) ELSE 0

\* The last cluster of an allocation, and link: the clusters from `added` on
\* follow it.  A run gets its FAT chain first.
TailOf(node) == IF node.contig THEN LastOf(Span(node)) ELSE LastOf(Chain(node.first))
Link(node, added, none, err) ==
    (IF node.contig THEN <<LinkRun(Span(node), none, err)>> ELSE <<>>)
    \o <<SetFat(TailOf(node), added, [none EXCEPT !.pending.owner = <<"cluster", TailOf(node)>>], err)>>

\* grow_dir
Grown(node) == [node EXCEPT !.contig = FALSE, !.len = @ + 1]
GrowDir(dir, c) ==
    LET none == Remember(Held(c, 0, Nothing), NoSet, mem.nodes)
        sizing == [none EXCEPT !.pending.owner = <<"tail", TailOf(dir.node)>>]
        recover == <<Recovery>>
    IN  IF c = 0 THEN <<>>
        ELSE Allocate(c, none, recover) \o <<Zero(c, none, recover)>> \o Link(dir.node, c, none, recover)
             \o (IF IsRoot(dir) THEN <<>> ELSE Store(dir.set, Grown(dir.node), sizing, <<>>))
GrownNodes(dir, c) ==
    IF c = 0 \/ IsRoot(dir) THEN mem.nodes ELSE Update(mem.nodes, IdOf(dir.set), Grown(dir.node))
GrownSpan(dir, c) == IF c = 0 THEN dir.span ELSE Append(dir.span, c)

\* insert; a pending allocation is owned by the new set from its write on.
Places(span, start, n) == [k \in 1 .. n |-> SlotAt(span, start + k - 1)]
Insert(at, raw, kind, m, err) ==
    LET owner == IF m.pending # NoPending /\ m.pending.owner = Nothing THEN <<"entry", at[1]>> ELSE m.pending.owner
    IN  WriteSet(at, raw, Len(at), [m EXCEPT !.pending.owner = owner, !.set = Writing(at, kind)],
                 <<<<[do |-> "set"]>>>> \o err)

\* create_set: a set at the places `at` for the data, in cluster c if the
\* node is a directory.
NewData(c) == IF c = 0 THEN NoData ELSE [first |-> c, contig |-> FALSE, len |-> 1]
CreateWrites(dir, at, raw, c, grown) ==
    LET none == Remember(IF c = 0 THEN NoPending ELSE Held(c, 0, Nothing), NoSet, GrownNodes(dir, grown))
        recover == <<Recovery>>
    IN  GrowDir(dir, grown)
        \o (IF c = 0 THEN <<>> ELSE Allocate(c, none, recover) \o <<Zero(c, none, recover)>>)
        \o Insert(at, raw, "insert", none, recover)

\* MUTANT of RemoveWrites: the clusters are freed before the set is cleared.
FreesFirst(t, node) ==
    LET held == Remember(HeldAlloc(node, <<"removed", t.at[1]>>), NoSet, mem.nodes)
    IN  FreeAlloc(node, held, <<>>) \o ClearSet(t.at, [held EXCEPT !.set = Writing(t.at, "clear")], <<>>)
\* remove_entry
RemoveWrites(t, node) ==
    LET held == Remember(HeldAlloc(node, <<"removed", t.at[1]>>), Writing(t.at, "clear"), mem.nodes)
        gone == [held EXCEPT !.set = NoSet, !.nodes = Unlinked(@, IdOf(t))]
    IN  ClearSet(t.at, held, <<>>) \o FreeAlloc(node, gone, <<>>)

\* MUTANT of PlaceMoved: recovery keeps a new set that is whole.
KeepsMoved(t, at, name, m, err) ==
    Insert(at, BuildSet(name, IdOf(t), IsDir(t), State(t)), "insert", m, err)
\* rename: place_moved, repoint and remove_moved.  `m` is what the driver
\* remembers meanwhile, `err` what follows when the new set is not written.
PlaceMoved(t, at, name, m, err) ==
    Insert(at, BuildSet(name, IdOf(t), IsDir(t), State(t)), "clear", m, err)
RemoveMoved(t, m, err) ==
    ClearSet(t.at, [m EXCEPT !.set = Writing(t.at, "clear")], <<<<[do |-> "set"], [do |-> "retried"]>>>> \o err)

MoveNodes(nodes, t, at) ==
    Update(nodes, IdOf(t), [(IF IdOf(t) \in DOMAIN nodes THEN nodes[IdOf(t)] ELSE State(t))
                            EXCEPT !.at = at[1], !.dirty = FALSE])
MoveWrites(t, name, at, before, after) ==
    LET m == Remember(NoPending, NoSet, before)
    IN  PlaceMoved(t, at, name, m, <<>>) \o RemoveMoved(t, [m EXCEPT !.nodes = after], <<>>)

\* replace
ReplaceWrites(t, target, node, name, at, before, after) ==
    LET held == HeldAlloc(node, <<"removed", target.at[1]>>)
        m == Remember(held, NoSet, before)
        undo == <<<<[do |-> "restore", set |-> target]>>, <<[do |-> "hold", held |-> held]>>, Recovery>>
        free == [do |-> "free", held |-> held, node |-> node, id |-> IdOf(target)]
        moved == [m EXCEPT !.nodes = after]
    IN  ClearSet(target.at, [m EXCEPT !.set = Writing(target.at, "clear")], undo)
        \o PlaceMoved(t, at, name, m, undo)
        \o RemoveMoved(t, moved, <<<<free>>>>)
        \o FreeAlloc(node, [moved EXCEPT !.nodes = Unlinked(@, IdOf(target))], <<>>)

\* allocate_run; the chain is held once it is linked.
AllocateRun(new, held, err) ==
    IF Len(new) = 1 THEN Allocate(new[1], held, err)
    ELSE <<LinkRun(new, [held EXCEPT !.pending.head = 0], err), SetBits(ToSet(new), TRUE, held, err)>>

\* cover: clusters for a file that grows.
Cover(node, new) ==
    LET owner == IF node.first = 0 THEN <<"entry", node.at>> ELSE Nothing
        none == Remember(Held(new[1], 0, owner), NoSet, mem.nodes)
        recover == <<Recovery>>
    IN  AllocateRun(new, none, recover)
        \o (IF node.first = 0 THEN <<>> ELSE Link(node, new[1], none, recover))

\* What a file that grows becomes.
GrownNode(node, new) ==
    [node EXCEPT !.first = IF @ = 0 THEN new[1] ELSE @, !.contig = FALSE, !.len = @ + Len(new)]
\* A pinned node keeps the new sizes when its data starts where it did.
KeepsSize(t, node, size) ==
    IdOf(t) \in DOMAIN mem.nodes /\ size.first = node.first /\ size.contig = node.contig
\* MUTANT of GrowWrites: the new clusters count as owned once they are linked.
StaysLinked(t, node, new, size, writing) ==
    LET owner == IF node.first = 0 THEN <<"entry", node.at>> ELSE <<"cluster", TailOf(node)>>
        m == Remember(Held(new[1], 0, owner), NoSet, mem.nodes)
    IN  Cover(node, new) \o (IF writing THEN <<Data(m, <<Recovery>>)>> ELSE <<>>)
        \o (IF KeepsSize(t, node, size) THEN <<>> ELSE Store(t, size, m, <<Recovery>>))
\* write and truncate, growing; publish.
GrowWrites(t, node, new, size, writing) ==
    LET owner == IF node.first = 0 THEN <<"entry", node.at>> ELSE <<"tail", TailOf(node)>>
        m == Remember(Held(new[1], 0, owner), NoSet, mem.nodes)
        recover == <<Recovery>>
    IN  Cover(node, new) \o (IF writing THEN <<Data(m, recover)>> ELSE <<>>)
        \o (IF KeepsSize(t, node, size) THEN <<>> ELSE Store(t, size, m, recover))

\* truncate, shrinking to `size`.
ShrunkNode(node, len) ==
    IF len = 0 THEN [node EXCEPT !.first = 0, !.contig = FALSE, !.len = 0, !.dirty = FALSE]
    ELSE [node EXCEPT !.len = len, !.dirty = FALSE]
ShrinkWrites(t, node, size, nodes, chain) ==
    LET len == size.len
        run == RunOf(node.first + len, node.len - len, Nothing)
        cut(tail) == <<"cut", node.at, len, tail>>
        keeping(p) == Remember(p, NoSet, mem.nodes)
        after(p) == Remember(p, NoSet, nodes)
        all == HeldAlloc(node, <<"entry", node.at>>)
        rest == SubSeq(chain, len + 1, Len(chain))
    IN  CASE node.first = 0 \/ len = 0 -> Store(t, size, keeping(all), <<>>) \o FreeAlloc(node, after(all), <<>>)
          [] node.contig ->
                Store(t, size, keeping([run EXCEPT !.owner = cut(0)]), <<>>)
                \o <<SetBits(node.first + len .. node.first + node.len - 1, FALSE, after(run), <<>>)>>
          [] OTHER ->
                Store(t, size, keeping(Held(rest[1], 0, cut(chain[len]))), <<>>)
                \o <<SetFat(chain[len], FatEnd, after(Held(rest[1], 0, <<"tail", chain[len]>>)), <<>>),
                     FreeChain(rest[1], after(NoPending), <<>>)>>

-----------------------------------------------------------------------------
FreeIds == {i \in 1 .. Ids : \A n \in {e[3] : e \in tree} : n.id # i} \ DOMAIN mem.nodes
Idle == [on |-> FALSE, writes |-> <<>>, after |-> <<>>, next |-> <<>>, failed |-> FALSE, full |-> <<>>]
Ready == op = Idle /\ Settled(mem)

\* An operation starts once prepare has recovered, and leaves `nodes`.  When
\* `full` is not empty it fails after its writes, for want of a cluster.
Start(writes, nodes, full, results) ==
    /\ op' = [Idle EXCEPT !.on = TRUE, !.writes = writes, !.after = Remember(NoPending, NoSet, nodes), !.full = full]
    /\ goal' = results
    /\ used' = [used EXCEPT !.ops = @ + 1]
    /\ UNCHANGED <<pinning, disk, fat, bits, mem, tree, last>>

Busy == ~Ready \/ used.ops = MaxOps

\* create_node, for a file and for a directory.
Create(d, name, isDir) ==
    /\ ~Busy /\ FreeIds # {}
    /\ \E dir \in {DirInfo(d)}, id \in {Min(FreeIds)} :
       /\ Find(dir, name) = {}
       /\ \E plan \in {Plan(dir.span, Width[name], {})} :
          \E grown \in {Pick(plan.grow, FreeClusters)} :
          /\ plan.grow => grown # 0
          /\ \E c \in {Pick(isDir, FreeClusters \ {grown})}, nodes \in {GrownNodes(dir, grown)},
                at \in {Places(GrownSpan(dir, grown), plan.start, Width[name])} :
             /\ isDir /\ c = 0 => grown # 0
             /\ IF isDir /\ c = 0 THEN Start(GrowDir(dir, grown), nodes, <<Recovery>>, {})
                ELSE Start(CreateWrites(dir, at, BuildSet(name, id, isDir, NewData(c)), c, grown),
                           Pin(nodes, id, Node(at[1], isDir, NewData(c), FALSE)), <<>>,
                           {tree \cup {<<d, name, [dir |-> isDir, id |-> id, first |-> c]>>}})

\* unlink and rmdir
Unlink(d, name) ==
    /\ ~Busy
    /\ \E t \in Find(DirInfo(d), name) :
          /\ IsDir(t) => DirIsEmpty(State(t))
          /\ Start(RemoveWrites(t, State(t)), Unlinked(mem.nodes, IdOf(t)), <<>>, {tree \ {<<d, name, NodeOf(t)>>}})

\* rename, RenameMode::Replace
Rename(from, old, d, name) ==
    /\ ~Busy /\ <<from, old>> # <<d, name>>
    /\ \E dir \in {DirInfo(d)}, t \in Find(DirInfo(from), old) :
       \E targets \in {Find(dir, name)} :
       \E plan \in {Plan(dir.span, Width[name], UNION {ToSet(r.at) : r \in targets})} :
       \E grown \in {Pick(plan.grow, FreeClusters)} :
       /\ plan.grow => grown # 0
       /\ \E at \in {Places(GrownSpan(dir, grown), plan.start, Width[name])}, before \in {GrownNodes(dir, grown)} :
          \E after \in {MoveNodes(before, t, at)} :
          LET entry(r) == <<d, name, NodeOf(r)>>
              others == tree \ ({<<from, old, NodeOf(t)>>} \cup {entry(r) : r \in targets})
          IN  /\ IsDir(t) => ~IsWithin(d, State(t))
              /\ \A r \in targets : IsDir(r) = IsDir(t) /\ (IsDir(r) => DirIsEmpty(State(r)))
              /\ \/ /\ targets = {}
                    /\ Start(GrowDir(dir, grown) \o MoveWrites(t, name, at, before, after), after, <<>>,
                             {others \cup {entry(t)}})
                 \/ \E r \in targets :
                       Start(GrowDir(dir, grown) \o ReplaceWrites(t, r, State(r), name, at, before, after),
                             Unlinked(after, IdOf(r)), <<>>, {others \cup {entry(t)}})

\* write and truncate of a file to another size.
Grow(d, name, len, writing) ==
    /\ ~Busy
    /\ \E t \in Find(DirInfo(d), name) : \E node \in {State(t)} :
          /\ ~IsDir(t) /\ len > node.len /\ len - node.len <= Cardinality(FreeClusters)
          /\ \E new \in {SubSeq(SetToSortSeq(FreeClusters, <), 1, len - node.len)} :
             \E size \in {GrownNode(node, new)} :
                Start(GrowWrites(t, node, new, size, writing),
                      Update(mem.nodes, IdOf(t), [size EXCEPT !.dirty = KeepsSize(t, node, size)]), <<>>, {})

Shrink(d, name, len) ==
    /\ ~Busy
    /\ \E t \in Find(DirInfo(d), name) : \E node \in {State(t)} :
          /\ ~IsDir(t) /\ len < node.len
          /\ \E size \in {ShrunkNode(node, len)} : \E nodes \in {Update(mem.nodes, IdOf(t), size)} :
                Start(ShrinkWrites(t, node, size, nodes, Chain(node.first)), nodes, <<>>, {})

Calling(next) ==
    /\ op = Idle
    /\ op' = [Idle EXCEPT !.on = TRUE, !.next = next, !.failed = TRUE]
    /\ UNCHANGED <<pinning, disk, fat, bits, mem, tree, goal, last, used>>

\* sync; prepare of the next operation only recovers.
Sync == Calling(<<Recovery \o <<[do |-> "flush"]>>>>)
Recover == ~Settled(mem) /\ Calling(<<Recovery>>)

\* fsync and close write a node's sizes without recovering.  The early step
\* is one that forgets the set that recovery has to finish.
Publish(id) ==
    /\ id \in Dirty
    /\ mem.set # NoSet /\ SetAt(mem.nodes[id].at) # {} => "early_publish" \in Windows
    /\ Calling(<<<<[do |-> "publish", id |-> id]>>>>)

-----------------------------------------------------------------------------
Applied(w) ==
    /\ disk' = Patch(disk, w.slots) /\ fat' = Patch(fat, w.fat) /\ bits' = Patch(bits, w.bits)

\* The next write succeeds.
Land ==
    /\ op.writes # <<>>
    /\ Applied(Head(op.writes))
    /\ op' = [op EXCEPT !.writes = Tail(@)]
    /\ mem' = IF Len(op.writes) = 1 THEN op.after ELSE Head(op.writes).held
    /\ UNCHANGED <<pinning, tree, goal, last, used>>

\* Nothing is left to write: the operation is out of clusters, goes on to
\* its next call, or returns.
Full ==
    /\ op.on /\ op.writes = <<>> /\ op.full # <<>>
    /\ op' = [op EXCEPT !.next = op.full, !.full = <<>>, !.failed = TRUE]
    /\ UNCHANGED <<pinning, disk, fat, bits, mem, tree, goal, last, used>>

Call ==
    /\ op.on /\ op.writes = <<>> /\ op.full = <<>> /\ op.next # <<>>
    /\ IF op.next[1] = <<>>
       THEN op' = [op EXCEPT !.next = Tail(@)] /\ UNCHANGED mem
       ELSE LET call == op.next[1][1]
                part == PartOf(call, Tail(op.next))
            IN  /\ op' = [op EXCEPT !.writes = part.writes, !.after = part.after, !.next = Following(call, op.next),
                                    !.failed = @ /\ call.do # "retried"]
                /\ mem' = IF part.writes = <<>> THEN part.after ELSE mem
    /\ UNCHANGED <<pinning, disk, fat, bits, tree, goal, last, used>>

\* The volume has settled when nothing is left to recover, and what returns
\* Ok is done.
Settle(ok) ==
    IF Settled(mem') \/ ok
    THEN tree' = Listing' /\ goal' = {} /\ last' = IF goal = {} THEN last ELSE IF ok THEN "ok" ELSE "failed"
    ELSE UNCHANGED <<tree, goal, last>>

Finish ==
    /\ op.on /\ op.writes = <<>> /\ op.full = <<>> /\ op.next = <<>>
    /\ op' = Idle /\ mem' = mem
    /\ UNCHANGED <<pinning, disk, fat, bits, used>>
    /\ Settle(~op.failed)

\* Which of EarlySteps a fault in the write w is: the link of a file's new
\* clusters landed, so that recovery takes them for owned; the set of a
\* pinned target is gone, or the moved set is in its place, and recovery
\* will not unlink the target's node.
EarlyFault(w) ==
    LET set == w.held.set
        p == w.held.pending
        nodes == w.held.nodes
        unlinks(i) ==
            \/ set.kind = "clear" /\ set.at[1] = nodes[i].at
            \/ /\ p.owner = <<"removed", nodes[i].at>> /\ p.head = nodes[i].first
               /\ \A j \in DOMAIN nodes \ {i} : nodes[j].at # nodes[i].at
        held == {<<a, i>> \in (DOMAIN disk) \X (1 .. Ids) : \E t \in SetAt(a)' : IdOf(t) = i}
        ghost(i) == <<nodes[i].at, i>> \notin held /\ ~unlinks(i)
    IN  (IF p.owner[1] = "cluster" /\ p.owner[2] \notin ToSet(Chain(Root)) /\ fat' # fat THEN {"link_landed"} ELSE {})
        \cup (IF \E i \in DOMAIN nodes : ghost(i) THEN {"ghost_target"} ELSE {})

\* The early step of a replacement that fails in the target's place: the
\* target is put back, but its node, with sizes not yet written, is gone.
UnlinksTarget(w) ==
    /\ w.held.set.kind = "clear" /\ w.err # <<>> /\ w.err[1] = <<[do |-> "set"]>>
    /\ LET id == PinnedAt(w.held.nodes, w.held.set.at[1]) IN id # 0 /\ w.held.nodes[id].dirty

\* A write takes effect or not, and fails, or the future is dropped in it.
Effect(w) ==
    /\ Applied(w) \/ UNCHANGED <<disk, fat, bits>>
    /\ EarlyFault(w) \subseteq Windows

Fail ==
    /\ op.writes # <<>> /\ used.faults < MaxFaults
    /\ LET w == Head(op.writes)
       IN  /\ Effect(w)
           /\ UnlinksTarget(w) => "unlinked_target" \in Windows
           /\ op' = [op EXCEPT !.writes = <<>>, !.after = <<>>, !.next = w.err, !.full = <<>>, !.failed = TRUE]
           /\ mem' = w.held
    /\ used' = [used EXCEPT !.faults = @ + 1]
    /\ UNCHANGED <<pinning, tree, goal, last>>

Drop ==
    /\ op.writes # <<>> /\ used.faults < MaxFaults
    /\ LET w == Head(op.writes)
       IN  Effect(w) /\ mem' = w.held
    /\ op' = Idle
    /\ Settle(FALSE)
    /\ used' = [used EXCEPT !.faults = @ + 1]
    /\ UNCHANGED pinning

\* The root with the entries of `start` one after the other, in as many
\* clusters as they need; the clusters of the entries follow.
Offsets(sizes) ==
    LET upTo[k \in 0 .. Len(sizes)] == IF k = 0 THEN 0 ELSE upTo[k - 1] + sizes[k]
    IN  upTo
Init ==
    /\ pinning \in Pinning
    /\ \E start \in Starts :
          LET slot == Offsets([k \in DOMAIN start |-> Width[start[k].name]])
              size == Offsets([k \in DOMAIN start |-> start[k].len])
              rootLen == IF start = <<>> THEN 1 ELSE (slot[Len(start)] + PerCluster - 1) \div PerCluster
              span == [k \in 1 .. rootLen |-> k]
              first(k) == IF start[k].len = 0 THEN 0 ELSE rootLen + size[k - 1] + 1
              data(k) == [first |-> first(k), contig |-> start[k].contig, len |-> start[k].len]
              raw(k) == BuildSet(start[k].name, k, start[k].dir, data(k))
              at(k) == Places(span, slot[k - 1] + 1, Width[start[k].name])
              taken == 1 .. rootLen + size[Len(start)]
              \* a run has no links in the FAT
              links(c) == \E k \in DOMAIN start : ~start[k].contig /\ c \in first(k) .. first(k) + start[k].len - 2
              entry(a) == {raw(k)[j] : <<k, j>> \in {x \in (DOMAIN start) \X (1 .. PerCluster) :
                                x[2] \in DOMAIN at(x[1]) /\ at(x[1])[x[2]] = a}}
          IN  /\ disk = [a \in Clusters \X (1 .. PerCluster) |-> IF entry(a) = {} THEN End ELSE CHOOSE e \in entry(a) : TRUE]
              /\ fat = [c \in Clusters |-> CASE c < rootLen \/ links(c) -> c + 1
                                             [] c = rootLen \/ c \in taken -> FatEnd
                                             [] OTHER -> 0]
              /\ bits = [c \in Clusters |-> c \in taken]
              /\ mem = Remember(NoPending, NoSet, IF pinning THEN [k \in DOMAIN start |-> Node(at(k)[1], start[k].dir, data(k), FALSE)] ELSE <<>>)
              /\ tree = {<<Root, start[k].name, [dir |-> start[k].dir, id |-> k, first |-> IF start[k].dir THEN first(k) ELSE 0]>> : k \in DOMAIN start}
    /\ op = Idle
    /\ goal = {} /\ last = "ok"
    /\ used = [ops |-> 0, faults |-> 0]

Tree == INSTANCE DirTree WITH KeepsReplaced <- FALSE

Next ==
    \/ \E d \in Tree!Directories(tree), n \in Names :
          \/ \E dir \in BOOLEAN : Create(d, n, dir)
          \/ Unlink(d, n)
          \/ \E e \in tree : Rename(e[1], e[2], d, n)
          \/ \E len \in 1 .. MaxLen, writing \in BOOLEAN : Grow(d, n, len, writing)
          \/ \E len \in 0 .. MaxLen - 1 : Shrink(d, n, len)
    \/ \E id \in DOMAIN mem.nodes : Publish(id)
    \/ Sync \/ Recover \/ Land \/ Full \/ Call \/ Finish \/ Fail \/ Drop

Spec == Init /\ [][Next]_vars

-----------------------------------------------------------------------------
\* The directories keep DirTree's promise, whichever writes fail or are
\* dropped on the way and in the recovery, but for what a replacement was to
\* replace: it may be gone.
TreeAtomic == Tree!TreeSpec

\* "an interrupted operation never leaves an allocation that another entry
\* can take": at every instant, so also after a power cut, the clusters of
\* every set that a walk finds are there, used and no other node's.
AllocationsKept ==
    /\ \A t \in Sets :
          LET span == Span(t.raw[2])
          IN  Len(span) = t.raw[2].len /\ \A k \in DOMAIN span : bits[span[k]]
    /\ \A t, u \in Sets : IdOf(t) # IdOf(u) => ToSet(Span(t.raw[2])) \cap ToSet(Span(u.raw[2])) = {}

\* "removes a new set that did not land whole", "completes a removal",
\* "reseals an updated set": with nothing left to recover, every entry in
\* use belongs to a whole set, and no name is there twice.
SetsWhole ==
    Ready =>
      /\ \A d \in {Root} \cup {t.raw[2].first : t \in {t \in Sets : IsDir(t)}} :
            LET span == IF d = Root THEN Chain(Root) ELSE Span(DirSet(d).raw[2])
            IN  \A s \in 1 .. SlotCount(span) :
                    InUse(disk[SlotAt(span, s)]) => \E t \in SetsIn(d, span) : SlotAt(span, s) \in ToSet(t.at)
      /\ \A t, u \in Sets : t # u => IdOf(t) # IdOf(u) /\ <<t.dir, Name(t)>> # <<u.dir, Name(u)>>

\* "frees the clusters unless the interrupted write linked them", "cuts back
\* a chain": with nothing left to recover the bitmap is exactly the clusters
\* of the root and of the sets, each with the length its node has.
BitmapExact ==
    Ready =>
      LET whole(t) == IF t.raw[2].contig THEN Span(t.raw[2]) ELSE Chain(t.raw[2].first)
      IN  /\ {c \in Clusters : bits[c]} = ToSet(Chain(Root)) \cup UNION {ToSet(whole(t)) : t \in Sets}
          /\ \A t \in Sets : Len(whole(t)) = State(t).len

\* A pinned node is its set on disk, but for sizes still to be written.
NodesAgree ==
    Ready => \A i \in DOMAIN mem.nodes :
        \E t \in Sets : LET node == mem.nodes[i] IN
            /\ t.at[1] = node.at /\ IdOf(t) = i
            /\ node.first = t.raw[2].first /\ node.contig = t.raw[2].contig
            /\ node.len = t.raw[2].len \/ node.dirty
=============================================================================
