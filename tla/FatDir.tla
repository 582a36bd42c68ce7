------------------------------- MODULE FatDir -------------------------------
(***************************************************************************)
(* Directories of the FAT driver (hadris-fat fatfs.rs): entries with their *)
(* long-name runs in the slots of a directory's clusters; create, mkdir,   *)
(* unlink, rmdir, rename and replacement, one device write at a time; and  *)
(* the recovery that the next writing call makes of an operation that was  *)
(* cut.  A write may fail, or the future of the call may be dropped in it; *)
(* either way it may or may not have taken effect.                         *)
(*                                                                         *)
(* An operation has exclusive use of the driver, so what it reads is read  *)
(* when a stage of it begins; the stage is then a sequence of writes, each *)
(* with what the driver remembers (pending, run, rename) while it is made. *)
(* Files here have no clusters: FatChains has the clusters of files,       *)
(* FatTable the writes of a FAT entry, NodeTable the pinned nodes.         *)
(***************************************************************************)
EXTENDS Integers, Sequences, FiniteSets, TLC

CONSTANTS
    Names,       \* names of entries
    Width,       \* slots of a name: its long-name fragments and one more
    Files,       \* identities of files, 1 .. Files
    PerCluster,  \* slots of a cluster
    LastCluster, \* clusters 1 .. LastCluster; the root starts in cluster 1
    Starts,      \* the entries the root may start with: sequences of [name, dir]
    Roots,       \* a subset of {"fixed", "chain"}
    MaxOps,      \* bound: operations that begin
    MaxFaults,   \* bound: writes that fail or are dropped
    Windows      \* the early steps taken: a subset of EarlySteps

Clusters == 1 .. LastCluster
Root == 1

(***************************************************************************)
(* Faults that recovery does not get right, in the error paths of create   *)
(* and mkdir:                                                              *)
(*   "slot_landed":   the write of a slot fails though it took effect; it  *)
(*                    is not counted as written, so it is not cleared;     *)
(*   "lost_held":     ungrow is cut while it has put the cluster of a new  *)
(*                    directory aside;                                     *)
(*   "uncleared_run": the fragments could not be cleared, and ungrow then  *)
(*                    takes away the slot that recovery decides from.      *)
(***************************************************************************)
EarlySteps == {"slot_landed", "lost_held", "uncleared_run"}

ASSUME DirAssumption ==
    /\ Width \in [Names -> Nat \ {0}]
    /\ PerCluster \in Nat \ {0, 1} /\ LastCluster \in Nat \ {0}
    /\ \A n \in Names : Width[n] <= PerCluster
    /\ Roots \subseteq {"fixed", "chain"} /\ Files \in Nat
    /\ \A start \in Starts : \A k \in DOMAIN start : start[k].name \in Names /\ start[k].dir \in BOOLEAN
    /\ {MaxOps, MaxFaults} \subseteq Nat /\ Windows \subseteq EarlySteps

VARIABLES
    root,    \* whether the root is a fixed region or a chain
    disk,    \* what is in each slot of each cluster
    fat,     \* per cluster 0, the next cluster, or Eoc
    mem,     \* FatFs::pending, run and rename
    op,      \* the operation under way
    tree,    \* the entries that a walk found when the volume last settled
    goal,    \* {what the operation makes of them}, or {}
    last,    \* "ok" or "failed", the last operation
    used     \* the counters of the bounds

vars == <<root, disk, fat, mem, op, tree, goal, last, used>>

Eoc == LastCluster + 1

\* What a slot holds.  Free and End are one byte, written on their own.
End == [is |-> "end"]
Free == [is |-> "free"]
Dot(up) == [is |-> "dot", up |-> up]
Long(name, part) == [is |-> "long", name |-> name, part |-> part]
Short(name, node) == [is |-> "short", name |-> name, node |-> node]
File(f) == [dir |-> FALSE, id |-> f, first |-> 0]
Dir(c) == [dir |-> TRUE, id |-> 0, first |-> c]

\* The slots of an entry: its fragments from the last to the first, then it.
SlotsOf(entry) ==
    LET n == entry.name
    IN  [k \in 1 .. Width[n] |-> IF k = Width[n] THEN entry ELSE Long(n, Width[n] - k)]

\* Pending: a chain, one cluster more, and what links the chain.
Held(head, extra, owner) == [head |-> head, extra |-> extra, owner |-> owner]
Nothing == <<"none">>
NoPending == Held(0, 0, Nothing)
\* Run::of
RunOf(dir, first, short) ==
    IF first < short THEN [dir |-> dir, first |-> first, short |-> short]
    ELSE [dir |-> 0, first |-> 0, short |-> 0]
NoRun == RunOf(0, 0, 0)
NoRename == [on |-> FALSE]
Remember(pending, run, rename) == [pending |-> pending, run |-> run, rename |-> rename]
Forgotten == Remember(NoPending, NoRun, NoRename)

-----------------------------------------------------------------------------
\* Reading directories.

\* The clusters of the chain from c.
Chain(c) ==
    LET follow[d \in 0 .. Eoc, k \in 0 .. LastCluster] ==
            IF d \notin Clusters \/ k = 0 THEN <<>>
            ELSE IF fat[d] = 0 THEN <<>> ELSE <<d>> \o follow[fat[d], k - 1]
    IN  follow[c, LastCluster]

LastOf(chain) == chain[Len(chain)]

\* slot_offset, given the clusters of the directory.
SlotAt(chain, s) == <<chain[((s - 1) \div PerCluster) + 1], ((s - 1) % PerCluster) + 1>>
SlotCount(chain) == PerCluster * Len(chain)

Contents(dir) ==
    LET chain == Chain(dir)
    IN  [s \in 1 .. SlotCount(chain) |-> disk[SlotAt(chain, s)]]
FirstEnd(contents) ==
    LET ends == {s \in DOMAIN contents : contents[s] = End}
    IN  IF ends = {} THEN Len(contents) + 1 ELSE CHOOSE s \in ends : \A t \in ends : s <= t

\* Whether the fragments of the name before the short entry in slot s are
\* all there, the last one first.
Assembled(contents, s) ==
    LET n == contents[s].name
    IN  \A k \in 1 .. Width[n] - 1 : s - k >= 1 /\ contents[s - k] = Long(n, k)

\* next_visible, over a whole directory: an entry without its long name
\* shows its short one.
Entries(dir) ==
    LET contents == Contents(dir)
        shorts == {s \in 1 .. FirstEnd(contents) - 1 : contents[s].is = "short"}
    IN  {<<dir, IF Assembled(contents, s) THEN contents[s].name ELSE "alias", contents[s].node>> : s \in shorts}

Subdirs(dirs) == dirs \cup {e[3].first : e \in {e \in UNION {Entries(d) : d \in dirs} : e[3].dir}}
Dirs == Subdirs(Subdirs(Subdirs({Root})))

\* Everything a walk from the root lists.
Listing == UNION {Entries(d) : d \in Dirs}
Nodes(listing) == {e[3] : e \in listing}

\* find_entry: the slot of the short entry.
Find(dir, name) ==
    LET contents == Contents(dir)
    IN  {s \in 1 .. FirstEnd(contents) - 1 :
            contents[s].is = "short" /\ contents[s].name = name /\ Assembled(contents, s)}
NodeAt(dir, s) == Contents(dir)[s].node

\* dir_is_empty
DirIsEmpty(c) == Entries(c) = {}

\* parent_cluster: the root is cluster 0 to its children.
ParentCluster(dir) == IF dir = Root THEN 0 ELSE dir

\* is_within, following the dot-dot entries.
IsWithin(dir, ancestor) ==
    LET up[d \in Clusters, k \in 0 .. LastCluster] ==
            IF d = ancestor THEN TRUE
            ELSE IF d = Root \/ k = 0 \/ disk[<<d, 2>>].up = 0 THEN FALSE
            ELSE up[disk[<<d, 2>>].up, k - 1]
    IN  up[dir, LastCluster]

-----------------------------------------------------------------------------
\* Writes.  Each has what the driver remembers while it is made, and the
\* calls that follow when it fails.

Write(fatPatch, slotPatch, held, err) ==
    [fat |-> fatPatch, slots |-> slotPatch, held |-> held, err |-> err]
SetFat(c, value, held, err) == Write(c :> value, <<>>, held, err)
Put(at, value, held, err) == Write(<<>>, at :> value, held, err)
Zero(c, held, err) == Write(<<>>, [at \in {c} \X (1 .. PerCluster) |-> End], held, err)
Dots(c, up, held, err) == Write(<<>>, (<<c, 1>> :> Dot(c)) @@ (<<c, 2>> :> Dot(up)), held, err)

\* clear_slots from .. to - 1
ClearSlots(chain, from, to, held, err) ==
    [k \in 1 .. to - from |-> Put(SlotAt(chain, from + k - 1), Free, held, err)]

\* allocate_chain of one zeroed cluster.
AllocateZeroed(c, held, err) == <<SetFat(c, Eoc, held, err), Zero(c, held, err)>>

\* reclaim, and free_chain on a chain whose clusters share no block.
Reclaim(chain, keep, held, err) ==
    [k \in DOMAIN chain |->
        LET next == IF k = Len(chain) THEN keep ELSE chain[k + 1]
        IN  SetFat(chain[k], 0, [held EXCEPT !.pending = Held(next, chain[k], Nothing)], err)]

-----------------------------------------------------------------------------
\* finish_interrupted, a call in three parts: each reads, then writes.
\* `after` is what the driver remembers once the part is done.

Recovery == <<[do |-> "rename"], [do |-> "run"], [do |-> "pending"]>>
Part(writes, after) == [writes |-> writes, after |-> after]

\* rename_end
RenameEnd(r, held, err) ==
    LET chain == Chain(r.to.dir)
    IN  IF r.end = <<>> \/ r.to.short + 1 > SlotCount(chain) THEN <<>>
        ELSE <<Put(SlotAt(chain, r.to.short + 1), End, held, err)>>

\* finish_rename, once the new entry is there: the source goes.
FinishRename(r, held, err) ==
    RenameEnd(r, held, err)
    \o (IF r.dotdot = <<>> THEN <<>> ELSE <<Put(<<r.dotdot[1], 2>>, Dot(r.dotdot[2]), held, err)>>)
    \o ClearSlots(Chain(r.from.dir), r.from.first, r.from.short + 1, held, err)

\* MUTANT of UndoRename: the replaced entry does not come back.
UndoRenameOnly(r, held, err) ==
    LET chain == Chain(r.to.dir)
    IN  ClearSlots(chain, r.to.first, r.to.short + 1, held, err)
        \o (IF r.end = <<>> THEN <<>> ELSE <<Put(r.end, End, held, err)>>)

\* finish_rename, when it is not: the destination is cleared, and what was
\* replaced comes back.
UndoRename(r, held, err) ==
    LET chain == Chain(r.to.dir)
    IN  ClearSlots(chain, r.to.first, r.to.short + 1, held, err)
        \o [k \in DOMAIN r.saved |-> Put(SlotAt(chain, r.savedFirst + k - 1), r.saved[k], held, err)]
        \o (IF r.end = <<>> THEN <<>> ELSE <<Put(r.end, End, held, err)>>)

\* MUTANT of Landed: an entry that was being written counts as written.
LandedUnread(r) == r.committed \/ r.publishing

\* Whether the new entry is there: it is read when its write was cut.
Landed(r) == r.committed \/ (r.publishing /\ disk[r.at] = r.entry)

PartRename(err) ==
    LET r == mem.rename
        landed == Landed(r)
        seen == [r EXCEPT !.committed = landed, !.publishing = landed]
        held == [mem EXCEPT !.rename = seen]
    IN  IF ~r.on THEN Part(<<>>, mem)
        ELSE Part(IF landed THEN FinishRename(r, held, err) ELSE UndoRename(r, held, err),
                  [mem EXCEPT !.run = NoRun, !.rename = NoRename])

\* MUTANT of PartRun: the fragments are forgotten.
PartRunForgotten(err) == Part(<<>>, [mem EXCEPT !.run = NoRun])

PartRun(err) ==
    LET run == mem.run
        chain == Chain(run.dir)
        there == run.short > SlotCount(chain) \/ disk[SlotAt(chain, run.short)].is = "short"
    IN  Part(IF run = NoRun \/ there THEN <<>> ELSE ClearSlots(chain, run.first, run.short, mem, err),
             [mem EXCEPT !.run = NoRun])

\* MUTANT of Links: a slot that held an entry counts as the entry.
LinksAnySlot(owner, head) ==
    CASE owner[1] = "cluster" -> fat[owner[2]] = head
      [] OTHER -> owner[1] \in {"entry", "removed"}

\* links
Links(owner, head) ==
    CASE owner[1] = "cluster" -> fat[owner[2]] = head
      [] owner[1] \in {"entry", "removed"} ->
            disk[owner[2]].is = "short" /\ disk[owner[2]].node.first = head
      [] OTHER -> FALSE

PartPending(err) ==
    LET p == mem.pending
        owned == p.head # 0 /\ Links(p.owner, p.head)
        extra == Chain(p.extra)
        met == {extra[k] : k \in DOMAIN extra}
        rest == SelectSeq(Chain(p.head), LAMBDA c : c \notin met)
    IN  Part(IF owned THEN <<>> ELSE Reclaim(extra, p.head, mem, err) \o Reclaim(rest, 0, mem, err),
             [mem EXCEPT !.pending = NoPending])

\* ungrow puts the pending chain aside while it recovers.
Ungrow(call, err) ==
    LET held == [mem EXCEPT !.pending = Held(call.grown, 0, <<"cluster", call.tail>>)]
    IN  Part(<<SetFat(call.tail, Eoc, held, err)>>, held)

PartOf(call, err) ==
    CASE call.do = "rename" -> PartRename(err)
      [] call.do = "run" -> PartRun(err)
      [] call.do = "pending" -> PartPending(err)
      [] call.do = "clear" -> Part(ClearSlots(Chain(call.dir), call.from, call.to, mem, err), [mem EXCEPT !.run = NoRun])
      [] call.do = "ungrow" -> Ungrow(call, err)
      [] call.do = "hold" -> Part(<<>>, [mem EXCEPT !.pending = call.held])

\* What is left to do after the call at the head of `next`, a sequence of
\* groups: a failure ends its group only.
Rest(next) == <<Tail(next[1])>> \o Tail(next)
Following(call, next) ==
    IF call.do = "ungrow"
    THEN <<Recovery \o <<[do |-> "hold", held |-> mem.pending]>>>> \o Tail(next)
    ELSE Rest(next)

-----------------------------------------------------------------------------
\* plan: the first run of free slots that is long enough, else the free
\* slots at the end and one cluster more, which a fixed root has not.
Plan(dir, needed, reused) ==
    LET contents == Contents(dir)
        n == Len(contents)
        free == {s \in 1 .. n : s >= FirstEnd(contents) \/ s \in reused \/ contents[s] = Free}
        fits == {s \in 1 .. n : s .. s + needed - 1 \subseteq free}
        tails == {s \in 1 .. n + 1 : s .. n \subseteq free}
        least(S) == CHOOSE s \in S : \A t \in S : s <= t
    IN  [start |-> IF fits # {} THEN least(fits) ELSE least(tails),
         grow  |-> fits = {},
         fails |-> fits = {} /\ dir = Root /\ root = "fixed"]

\* grow
Grow(grown, tail) ==
    LET held == Remember(Held(grown, 0, <<"cluster", tail>>), NoRun, NoRename)
    IN  AllocateZeroed(grown, held, <<Recovery>>) \o <<SetFat(tail, grown, held, <<Recovery>>)>>

UngrowCall(grown, tail) == IF grown = 0 THEN <<>> ELSE <<<<[do |-> "ungrow", grown |-> grown, tail |-> tail]>>>>

\* write_slots, in insert_entry: fragment after fragment, then the entry.
\* `errs[k]` are the calls after a failure of the k-th write.
WriteSlots(chain, start, entry, held, publishing, errs) ==
    LET slots == SlotsOf(entry)
    IN  [k \in DOMAIN slots |->
            Put(SlotAt(chain, start + k - 1), slots[k], IF slots[k] = entry THEN publishing ELSE held, errs[k])]

\* The cluster that is allocated: the scan starts anywhere, and one free
\* cluster is like the other.  0 when none is needed or none is left.
FreeClusters == {c \in Clusters : fat[c] = 0}
Lowest(S) == CHOOSE c \in S : \A d \in S : c <= d
Pick(needed, S) == IF needed /\ S # {} THEN Lowest(S) ELSE 0

\* create_entry: the directory grows, a new directory gets its cluster with
\* its dots, then the name goes into the slots.
CreateWrites(dir, name, node, plan, grown) ==
    LET short == plan.start + Width[name] - 1
        tail == LastOf(Chain(dir))
        chain == IF grown = 0 THEN Chain(dir) ELSE Append(Chain(dir), grown)
        owner == <<"entry", SlotAt(chain, short)>>
        alone == Remember(Held(node.first, 0, Nothing), NoRun, NoRename)
        held == Remember(IF node.dir THEN Held(node.first, 0, owner) ELSE NoPending, RunOf(dir, plan.start, short), NoRename)
        undo == <<Recovery>> \o UngrowCall(grown, tail)
        errs == [k \in 1 .. Width[name] |->
                    <<<<[do |-> "clear", dir |-> dir, from |-> plan.start, to |-> plan.start + k - 1]>>>>
                    \o UngrowCall(grown, tail) \o <<Recovery>>]
    IN  (IF grown = 0 THEN <<>> ELSE Grow(grown, tail))
        \o (IF node.dir
            THEN AllocateZeroed(node.first, alone, undo) \o <<Dots(node.first, ParentCluster(dir), alone, undo)>>
            ELSE <<>>)
        \o WriteSlots(chain, plan.start, Short(name, node), held, held, errs)

\* remove_entry
RemoveWrites(dir, s) ==
    LET chain == Chain(dir)
        entry == Contents(dir)[s]
        first == s - Width[entry.name] + 1
        pending == IF entry.node.dir THEN Held(entry.node.first, 0, <<"removed", SlotAt(chain, s)>>) ELSE NoPending
        held == Remember(pending, RunOf(dir, first, s), NoRename)
    IN  <<Put(SlotAt(chain, s), Free, held, <<>>)>>
        \o ClearSlots(chain, first, s, held, <<>>)
        \o Reclaim(Chain(entry.node.first), 0, Forgotten, <<>>)

\* rename, to a name that is free (t = 0) or that replaces the entry in slot
\* t: begin_rename, replace_entry and move_entry.
RenameRecord(from, s, to, name, plan, chain, t) ==
    LET entry == Contents(from)[s]
        short == plan.start + Width[name] - 1
        old == Contents(to)
        \* a cluster that was just appended is all End
        ends == {k \in plan.start .. short : k > Len(old) \/ old[k] = End}
        moved == entry.node.dir /\ ParentCluster(from) # ParentCluster(to)
        tFirst == t - Width[name] + 1
    IN  [on |-> TRUE,
         from |-> [dir |-> from, first |-> s - Width[entry.name] + 1, short |-> s],
         to |-> [dir |-> to, first |-> plan.start, short |-> short],
         at |-> SlotAt(chain, short), entry |-> Short(name, entry.node),
         dotdot |-> IF moved THEN <<entry.node.first, ParentCluster(to)>> ELSE <<>>,
         end |-> IF ends = {} THEN <<>> ELSE SlotAt(chain, CHOOSE k \in ends : \A j \in ends : k <= j),
         publishing |-> FALSE, committed |-> FALSE,
         savedFirst |-> tFirst, saved |-> IF t = 0 THEN <<>> ELSE SubSeq(old, tFirst, t)]

RenameWrites(from, s, to, name, t, plan, grown) ==
    LET tail == LastOf(Chain(to))
        chain == IF grown = 0 THEN Chain(to) ELSE Append(Chain(to), grown)
        r == RenameRecord(from, s, to, name, plan, chain, t)
        tFirst == t - Width[name] + 1
        removed == t # 0 /\ NodeAt(to, t).dir
        pending == IF removed THEN Held(NodeAt(to, t).first, 0, <<"removed", SlotAt(chain, t)>>) ELSE NoPending
        begun == Remember(pending, IF t = 0 THEN NoRun ELSE RunOf(to, tFirst, t), r)
        held == [begun EXCEPT !.run = RunOf(to, plan.start, r.to.short)]
        publishing == [held EXCEPT !.rename.publishing = TRUE]
        done == [publishing EXCEPT !.run = NoRun, !.rename.committed = TRUE]
        err == IF t = 0 THEN <<Recovery>> ELSE <<Recovery, Recovery>>
        always == [k \in 1 .. Width[name] |-> err]
        grownEnd == r.end # <<>> /\ r.to.short + 1 <= SlotCount(chain)
        atEnd(m) == IF grownEnd THEN <<Put(SlotAt(chain, r.to.short + 1), End, m, err)>> ELSE <<>>
    IN  (IF grown = 0 THEN <<>> ELSE Grow(grown, tail))
        \o (IF t = 0 THEN <<>>
            ELSE <<Put(SlotAt(chain, t), Free, begun, <<Recovery>>)>>
                 \o ClearSlots(chain, tFirst, t, begun, <<Recovery>>))
        \o <<Put(r.at, Free, begun, err)>> \o atEnd(begun)
        \o WriteSlots(chain, plan.start, r.entry, held, publishing, always)
        \o atEnd(done)
        \o (IF r.dotdot = <<>> THEN <<>> ELSE <<Put(<<r.dotdot[1], 2>>, Dot(r.dotdot[2]), done, err)>>)
        \o ClearSlots(Chain(from), r.from.first, s + 1, done, err)

-----------------------------------------------------------------------------
FreeFiles == {f \in 1 .. Files : File(f) \notin Nodes(tree)}
Idle == [on |-> FALSE, writes |-> <<>>, after |-> Forgotten, next |-> <<>>, failed |-> FALSE, full |-> <<>>]
Ready == op = Idle /\ mem = Forgotten

\* An operation starts once prepare has recovered.  When `full` is not
\* empty it fails after its writes, for want of a cluster, and makes those
\* calls.
Start(writes, after, next, full, result) ==
    /\ Ready /\ used.ops < MaxOps
    /\ op' = [Idle EXCEPT !.on = TRUE, !.writes = writes, !.after = after, !.next = next, !.full = full]
    /\ goal' = {result}
    /\ used' = [used EXCEPT !.ops = @ + 1]
    /\ UNCHANGED <<root, disk, fat, mem, tree, last>>

\* create
Create(dir, name) ==
    /\ Ready /\ Find(dir, name) = {} /\ FreeFiles # {}
    /\ LET plan == Plan(dir, Width[name], {})
           file == File(Lowest(FreeFiles))
           grown == Pick(plan.grow, FreeClusters)
       IN  /\ ~plan.fails /\ (plan.grow => grown # 0)
           /\ Start(CreateWrites(dir, name, file, plan, grown), Forgotten, <<>>, <<>>,
                    tree \cup {<<dir, name, file>>})

\* mkdir
Mkdir(dir, name) ==
    /\ Ready /\ Find(dir, name) = {}
    /\ LET plan == Plan(dir, Width[name], {})
           grown == Pick(plan.grow, FreeClusters)
           new == Dir(Pick(TRUE, FreeClusters \ {grown}))
           tail == LastOf(Chain(dir))
           full == <<Recovery>> \o UngrowCall(grown, tail)
       IN  /\ ~plan.fails /\ FreeClusters # {}
           /\ IF new.first = 0
              THEN Start(Grow(grown, tail), Forgotten, <<>>, full, tree \cup {<<dir, name, new>>})
              ELSE Start(CreateWrites(dir, name, new, plan, grown), Forgotten, <<>>, <<>>,
                         tree \cup {<<dir, name, new>>})

\* unlink and rmdir
Remove(dir, name) ==
    /\ Ready
    /\ \E s \in Find(dir, name) :
          LET node == NodeAt(dir, s)
          IN  /\ node.dir => DirIsEmpty(node.first)
              /\ Start(RemoveWrites(dir, s), Forgotten, <<>>, <<>>, tree \ {<<dir, name, node>>})

\* rename, RenameMode::Replace
Rename(from, old, to, name) ==
    /\ Ready /\ <<from, old>> # <<to, name>>
    /\ \E s \in Find(from, old) :
          LET node == NodeAt(from, s)
              targets == Find(to, name)
              t == IF targets = {} THEN 0 ELSE CHOOSE k \in targets : TRUE
              replaced == {<<to, name, NodeAt(to, k)>> : k \in targets}
              plan == Plan(to, Width[name], IF t = 0 THEN {} ELSE t - Width[name] + 1 .. t)
              grown == Pick(plan.grow, FreeClusters)
              after == IF t # 0 /\ NodeAt(to, t).dir
                       THEN [Forgotten EXCEPT !.pending = Held(NodeAt(to, t).first, 0, <<"removed", SlotAt(Chain(to), t)>>)]
                       ELSE Forgotten
          IN  /\ node.dir => ~IsWithin(to, node.first)
              /\ \A e \in replaced : e[3].dir = node.dir /\ (e[3].dir => DirIsEmpty(e[3].first))
              /\ ~plan.fails /\ (plan.grow => grown # 0)
              /\ Start(RenameWrites(from, s, to, name, t, plan, grown), after,
                       IF t = 0 THEN <<>> ELSE <<Recovery>>, <<>>,
                       (tree \ ({<<from, old, node>>} \cup replaced)) \cup {<<to, name, node>>})

\* sync, and prepare of the next operation, recover.
Recover ==
    /\ op = Idle
    /\ op' = [Idle EXCEPT !.on = TRUE, !.next = <<Recovery>>, !.failed = TRUE]
    /\ UNCHANGED <<root, disk, fat, mem, tree, goal, last, used>>

-----------------------------------------------------------------------------
Applied(w) == disk' = w.slots @@ disk /\ fat' = w.fat @@ fat

\* The next write succeeds.
Land ==
    /\ op.writes # <<>>
    /\ Applied(Head(op.writes))
    /\ op' = [op EXCEPT !.writes = Tail(@)]
    /\ mem' = IF Len(op.writes) = 1 THEN op.after ELSE Head(op.writes).held
    /\ UNCHANGED <<root, tree, goal, last, used>>

\* Nothing is left to write: the operation is out of clusters, goes on to
\* its next call, or returns.
Full ==
    /\ op.on /\ op.writes = <<>> /\ op.full # <<>>
    /\ op' = [op EXCEPT !.next = op.full, !.full = <<>>, !.failed = TRUE]
    /\ UNCHANGED <<root, disk, fat, mem, tree, goal, last, used>>

Call ==
    /\ op.on /\ op.writes = <<>> /\ op.full = <<>> /\ op.next # <<>>
    /\ IF op.next[1] = <<>>
       THEN op' = [op EXCEPT !.next = Tail(@)] /\ UNCHANGED mem
       ELSE LET call == op.next[1][1]
                following == Following(call, op.next)
                part == PartOf(call, IF call.do = "ungrow" THEN following ELSE Tail(op.next))
            IN  /\ op' = [op EXCEPT !.writes = part.writes, !.after = part.after, !.next = following]
                /\ mem' = IF part.writes = <<>> THEN part.after ELSE mem
    /\ UNCHANGED <<root, disk, fat, tree, goal, last, used>>

\* The volume has settled when nothing is left to recover.
Settle(ok) ==
    IF mem' = Forgotten /\ goal # {}
    THEN tree' = Listing' /\ goal' = {} /\ last' = IF ok THEN "ok" ELSE "failed"
    ELSE UNCHANGED <<tree, goal, last>>

Finish ==
    /\ op.on /\ op.writes = <<>> /\ op.full = <<>> /\ op.next = <<>>
    /\ op' = Idle /\ mem' = mem
    /\ UNCHANGED <<root, disk, fat, used>>
    /\ Settle(~op.failed)

\* A write takes effect or not, and fails, or the future is dropped in it.
Effect(w) == Applied(w) \/ UNCHANGED <<disk, fat>>

\* Which of EarlySteps a fault in the write w is.
Ungrows(next) == \E k \in DOMAIN next : \E j \in DOMAIN next[k] : next[k][j].do = "ungrow"
Holds(next) == next # <<>> /\ \E j \in DOMAIN next[1] : next[1][j].do = "hold" /\ next[1][j].held # NoPending
InsertSlot(w) == ~w.held.rename.on /\ \E at \in DOMAIN w.slots : w.slots[at].is \in {"long", "short"}

EarlyFail(w) ==
    (IF InsertSlot(w) /\ disk' # disk /\ (w.held.run # NoRun \/ Ungrows(w.err))
     THEN {"slot_landed"} ELSE {})
    \cup (IF Holds(op.next) /\ ~Holds(w.err) THEN {"lost_held"} ELSE {})
    \cup (IF op.failed /\ w.held.run # NoRun /\ Ungrows(w.err) THEN {"uncleared_run"} ELSE {})
EarlyDrop == IF Holds(op.next) THEN {"lost_held"} ELSE {}

Fail ==
    /\ op.writes # <<>> /\ used.faults < MaxFaults
    /\ LET w == Head(op.writes)
       IN  /\ Effect(w)
           /\ EarlyFail(w) \subseteq Windows
           /\ op' = [op EXCEPT !.writes = <<>>, !.after = Forgotten, !.next = w.err, !.full = <<>>, !.failed = TRUE]
           /\ mem' = w.held
    /\ used' = [used EXCEPT !.faults = @ + 1]
    /\ UNCHANGED <<root, tree, goal, last>>

Drop ==
    /\ op.writes # <<>> /\ used.faults < MaxFaults /\ EarlyDrop \subseteq Windows
    /\ LET w == Head(op.writes)
       IN  Effect(w) /\ mem' = w.held
    /\ op' = Idle
    /\ Settle(FALSE)
    /\ used' = [used EXCEPT !.faults = @ + 1]
    /\ UNCHANGED root

\* The root with the entries of `start`, one after the other, the k-th of
\* them in cluster k + 1 when it is a directory.  Files are numbered.
NodeOf(start, k) == IF start[k].dir THEN Dir(k + 1) ELSE File(k)
Laid(start) ==
    LET upTo[k \in 0 .. Len(start)] ==
            IF k = 0 THEN <<>> ELSE upTo[k - 1] \o SlotsOf(Short(start[k].name, NodeOf(start, k)))
    IN  upTo[Len(start)]

Init ==
    /\ root \in Roots
    /\ \E start \in Starts :
          LET laid == Laid(start)
              dirs == {k + 1 : k \in {k \in DOMAIN start : start[k].dir}}
          IN  /\ disk = [at \in Clusters \X (1 .. PerCluster) |->
                            CASE at[1] = Root /\ at[2] \in DOMAIN laid -> laid[at[2]]
                              [] at[1] \in dirs /\ at[2] = 1 -> Dot(at[1])
                              [] at[1] \in dirs /\ at[2] = 2 -> Dot(0)
                              [] OTHER -> End]
              /\ fat = [c \in Clusters |-> IF c = Root \/ c \in dirs THEN Eoc ELSE 0]
              /\ tree = {<<Root, start[k].name, NodeOf(start, k)>> : k \in DOMAIN start}
    /\ mem = Forgotten /\ op = Idle
    /\ goal = {} /\ last = "ok"
    /\ used = [ops |-> 0, faults |-> 0]

Tree == INSTANCE DirTree WITH KeepsReplaced <- TRUE

Next ==
    \/ \E d \in Tree!Directories(tree), n \in Names :
          \/ Create(d, n)
          \/ Mkdir(d, n)
          \/ Remove(d, n)
          \/ \E e \in tree : Rename(e[1], e[2], d, n)
    \/ Recover \/ Land \/ Full \/ Call \/ Finish \/ Fail \/ Drop

Spec == Init /\ [][Next]_vars

-----------------------------------------------------------------------------
\* The directories keep DirTree's promise: create, mkdir, unlink, rmdir and
\* rename happen or do not, whichever writes fail or are dropped on the way
\* and in the recovery, and happen when they return Ok.
TreeAtomic == Tree!TreeSpec

\* rename never lets go of the node it moves, and no other operation of a
\* node it is not about: at every instant, so also after a power cut that
\* forgets what recovery needs, a walk finds every node that the operation
\* is not to remove.
NeverLost ==
    LET kept == Nodes(tree) \cap (IF goal = {} THEN Nodes(tree) ELSE UNION {Nodes(g) : g \in goal})
    IN  kept \subseteq Nodes(Listing)

\* What a cut write_slots or clear_slots leaves is repaired before the next
\* operation: every long-name slot belongs to a whole name, and the dot-dot
\* entry of every directory, moved ones too, names its parent.
DirectoriesWhole ==
    Ready => \A d \in Dirs :
        LET contents == Contents(d)
            end == FirstEnd(contents)
        IN  /\ \A s \in 1 .. end - 1 : contents[s].is = "long" =>
                  LET t == s + contents[s].part
                  IN  /\ t < end /\ contents[t].is = "short" /\ contents[t].name = contents[s].name
                      /\ Assembled(contents, t)
            /\ \A e \in Entries(d) : e[3].dir => disk[<<e[3].first, 2>>] = Dot(ParentCluster(d))

\* "frees the clusters it held unless it linked them": with nothing left to
\* recover, the allocated clusters are those of the directories that a walk
\* finds, whichever step of growth, mkdir, rmdir or a replacement was cut.
ClustersOwned ==
    Ready => {c \in Clusters : fat[c] # 0} = UNION {{Chain(d)[k] : k \in DOMAIN Chain(d)} : d \in Dirs}
=============================================================================
