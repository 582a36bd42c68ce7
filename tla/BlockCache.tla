----------------------------- MODULE BlockCache -----------------------------
(***************************************************************************)
(* The write-back block cache of hadris-storage (cache.rs and the poll     *)
(* driven poll_cache.rs; the blocking Cache of api.rs takes the same       *)
(* steps) over a device that has a write cache of its own.  The cache is   *)
(* borrowed by one request at a time; where a request waits for the device *)
(* its call may fail or its future be dropped, each of the blocks it       *)
(* writes having reached the device or not.                                *)
(* Requests stay within the device: a write that extends it takes the      *)
(* direct path.                                                            *)
(***************************************************************************)
EXTENDS Integers, Sequences

CONSTANTS
    NumBlocks,   \* BlockDevice::block_count
    Capacity,    \* CacheState::capacity
    MaxRun,      \* MAX_RUN: blocks in one write of a flush
    Contents     \* per block the values it can have

Blocks == 0 .. NumBlocks - 1
Slots == 1 .. Capacity
Values == UNION {Contents[b] : b \in Blocks}

ASSUME SizesAssumption ==
    /\ NumBlocks \in Nat \ {0} /\ Capacity \in Nat \ {0} /\ MaxRun \in Nat \ {0}

VARIABLES
    entries,   \* CacheState::entries: the block each slot holds, its data
    order,     \* the LRU list of the slots in use, most recent first
    dirty,     \* CacheState::dirty
    written,   \* Cache::written: a write reached the device
    op,        \* the request in progress
    dev,       \* the blocks as the device returns them
    medium,    \* the blocks a power loss leaves
    since      \* ghost: per block the values it had since the last flush

cache == <<entries, order, dirty, written>>
vars == <<cache, op, dev, medium, since>>

-----------------------------------------------------------------------------
\* A slot that holds nothing; the bytes left in it are not read.
Empty == [index |-> -1, data |-> -1]
NoOp == [kind |-> "none", first |-> 0, count |-> 0, buf |-> <<>>, done |-> 0,
         end |-> 0, phase |-> "idle"]

Holds(e, b) == \E s \in Slots : e[s].index = b
SlotOf(b) == CHOOSE s \in Slots : entries[s].index = b
Cached(b) == Holds(entries, b)
Range(first, count) == {b \in Blocks : first <= b /\ b < first + count}

\* What a read of the cache must return.
ViewOf(e, d) ==
    [b \in Blocks |-> IF Holds(e, b)
                      THEN e[CHOOSE s \in Slots : e[s].index = b].data ELSE d[b]]
View == ViewOf(entries, dev)

\* Every block has had its new value since the last flush, too.
Remember == since' = [b \in Blocks |-> since[b] \cup {ViewOf(entries', dev')[b]}]

\* touch: the slot is taken from its place, if it has one, and becomes the
\* most recent.
Unlinked(list, s) ==
    IF \E i \in 1 .. Len(list) : list[i] = s
    THEN LET i == CHOOSE i \in 1 .. Len(list) : list[i] = s
         IN  SubSeq(list, 1, i - 1) \o SubSeq(list, i + 1, Len(list))
    ELSE list
Touched(list, s) == <<s>> \o Unlinked(list, s)

\* forget: the slots of S become the next victims, in any order; the others
\* keep theirs.
Before(list, s, t) ==
    \E i, j \in 1 .. Len(list) : i < j /\ list[i] = s /\ list[j] = t
Demotes(list, new, S) ==
    /\ {new[i] : i \in 1 .. Len(list)} = {list[i] : i \in 1 .. Len(list)}
    /\ \A i, j \in 1 .. Len(list) :
          list[i] \notin S /\ (i < j \/ list[j] \in S) => Before(new, list[i], list[j])
Demote(S) == \E new \in [1 .. Len(order) -> Slots] : Demotes(order, new, S) /\ order' = new

\* The slot a block goes to: its own, a new one, or the least recent.
Victim(b) ==
    IF Cached(b) THEN SlotOf(b)
    ELSE IF Len(order) < Capacity THEN Len(order) + 1 ELSE order[Len(order)]

MustEvict(b) == ~Cached(b) /\ entries[Victim(b)].index \in dirty

\* Slot `Victim(b)` gets block b.
Place(b, v) ==
    /\ entries' = [entries EXCEPT ![Victim(b)] = [index |-> b, data |-> v]]
    /\ order' = Touched(order, Victim(b))

\* The device blocks from `first` on become `data`.
Overwritten(d, first, data) ==
    [b \in Blocks |-> IF b \in Range(first, Len(data)) THEN data[b - first + 1] ELSE d[b]]

-----------------------------------------------------------------------------
Request(kind, first, count, buf, phase) ==
    op' = [kind |-> kind, first |-> first, count |-> count, buf |-> buf,
           done |-> 0, end |-> 0, phase |-> phase]

StartRead(first, count) ==
    /\ op = NoOp
    /\ Request("read", first, count, <<>>, IF count >= Capacity THEN "direct" ELSE "next")
    /\ UNCHANGED <<cache, dev, medium, since>>

\* A write of the values `buf`: the first one ever, and a large one, go to
\* the device.
StartWrite(first, buf) ==
    /\ op = NoOp
    /\ Request("write", first, Len(buf), buf,
               IF ~written \/ Len(buf) >= Capacity THEN "writeback" ELSE "next")
    /\ UNCHANGED <<cache, dev, medium, since>>

StartFlush ==
    /\ op = NoOp
    /\ Request("flush", 0, 0, <<>>, "next")
    /\ UNCHANGED <<cache, dev, medium, since>>

\* The block the request is at.
At == op.first + op.done
Reading == op.kind = "read" /\ op.done < op.count
Writing == op.kind = "write" /\ op.done < op.count

ReadHit ==
    /\ Reading /\ op.phase = "next" /\ Cached(At)
    /\ op' = [op EXCEPT !.buf = Append(@, entries[SlotOf(At)].data), !.done = @ + 1]
    /\ order' = Touched(order, SlotOf(At))
    /\ UNCHANGED <<entries, dirty, written, dev, medium, since>>

\* The end of the uncached blocks from here on: uncached_end.
UncachedEnd ==
    CHOOSE n \in op.done + 1 .. op.count :
        /\ \A i \in op.done + 1 .. n - 1 : ~Cached(op.first + i)
        /\ n < op.count => Cached(op.first + n)

\* The device read of the uncached blocks from here on.
Missing == Reading /\ op.phase = "next" /\ ~Cached(At)

Load ==
    /\ Missing
    /\ op' = [op EXCEPT !.buf = @ \o [i \in 1 .. UncachedEnd - op.done |-> dev[At + i - 1]],
                        !.end = UncachedEnd, !.phase = "fill"]
    /\ UNCHANGED <<cache, dev, medium, since>>

\* A block that was read goes to a slot that needs no eviction.
Fill ==
    /\ op.phase = "fill" /\ ~MustEvict(At)
    /\ Place(At, op.buf[op.done + 1])
    /\ op' = [op EXCEPT !.done = @ + 1, !.phase = IF op.done + 1 < op.end THEN "fill" ELSE "next"]
    /\ UNCHANGED <<dirty, written, dev, medium, since>>

\* A block is written to a slot that needs no eviction.
Put ==
    /\ Writing /\ op.phase = "next" /\ ~MustEvict(At)
    /\ Place(At, op.buf[op.done + 1])
    /\ dirty' = dirty \cup {At}
    /\ op' = [op EXCEPT !.done = @ + 1]
    /\ UNCHANGED <<written, dev, medium>>
    /\ Remember

\* The victim is written to the device and is clean; the request goes on.
Evicting == (op.phase = "fill" \/ (Writing /\ op.phase = "next")) /\ MustEvict(At)

Evict ==
    /\ Evicting
    /\ LET e == entries[Victim(At)]
       IN  /\ dev' = [dev EXCEPT ![e.index] = e.data]
           /\ dirty' = dirty \ {e.index}
    /\ UNCHANGED <<entries, order, written, op, medium, since>>

\* The device has become read-only: a read goes on without caching.
EvictRefused ==
    /\ op.phase = "fill" /\ Evicting
    /\ op' = [op EXCEPT !.done = @ + 1, !.buf = SubSeq(@, 1, op.done + 1), !.phase = "next"]
    /\ UNCHANGED <<cache, dev, medium, since>>

-----------------------------------------------------------------------------
\* MUTANT of DirectRead: no overlay_dirty.
DirectReadOnly ==
    /\ op.kind = "read" /\ op.phase = "direct"
    /\ op' = [op EXCEPT !.buf = [i \in 1 .. op.count |-> dev[op.first + i - 1]],
                        !.done = op.count, !.phase = "next"]
    /\ UNCHANGED <<cache, dev, medium, since>>

\* A read past the cache: the dirty blocks are laid over what it returned.
DirectRead ==
    /\ op.kind = "read" /\ op.phase = "direct"
    /\ op' = [op EXCEPT !.buf = [i \in 1 .. op.count |->
                                    IF op.first + i - 1 \in dirty THEN View[op.first + i - 1]
                                    ELSE dev[op.first + i - 1]],
                        !.done = op.count, !.phase = "next"]
    /\ UNCHANGED <<cache, dev, medium, since>>

Covered == dirty \cap Range(op.first, op.count)
FirstOf(S) == CHOOSE b \in S : \A c \in S : b <= c

\* A write past the cache writes back the dirty blocks it covers ...
WritingBack == op.phase = "writeback" /\ Covered # {}

WriteBack ==
    /\ WritingBack
    /\ LET b == FirstOf(Covered)
       IN  dev' = [dev EXCEPT ![b] = entries[SlotOf(b)].data] /\ dirty' = dirty \ {b}
    /\ UNCHANGED <<entries, order, written, op, medium, since>>

\* MUTANT of Invalidate: the copies stay.
InvalidateNothing ==
    /\ op.phase = "writeback" /\ Covered = {}
    /\ op' = [op EXCEPT !.phase = "direct"]
    /\ UNCHANGED <<cache, dev, medium, since>>

\* ... drops every cached copy of them ...
Invalidate ==
    /\ op.phase = "writeback" /\ Covered = {}
    /\ LET S == {s \in Slots : entries[s].index \in Range(op.first, op.count)}
       IN  /\ entries' = [s \in Slots |-> IF s \in S THEN Empty ELSE entries[s]]
           /\ Demote(S)
    /\ op' = [op EXCEPT !.phase = "direct"]
    /\ UNCHANGED <<dirty, written, dev, medium, since>>

\* ... and goes to the device.
DirectWrite ==
    /\ op.kind = "write" /\ op.phase = "direct"
    /\ dev' = Overwritten(dev, op.first, op.buf)
    /\ written' = TRUE
    /\ op' = [op EXCEPT !.done = op.count, !.phase = "next"]
    /\ entries' = entries /\ Remember
    /\ UNCHANGED <<order, dirty, medium>>

-----------------------------------------------------------------------------
\* The consecutive dirty blocks from the first on, at most MaxRun:
\* dirty_run.
RunLength(start) ==
    CHOOSE n \in 1 .. MaxRun :
        /\ \A i \in 0 .. n - 1 : start + i \in dirty
        /\ n < MaxRun => start + n \notin dirty

\* flush writes the runs of dirty blocks ...
Run ==
    LET start == FirstOf(dirty)
    IN  [first |-> start, data |-> [i \in 1 .. RunLength(start) |-> View[start + i - 1]]]

WriteRun ==
    /\ op.kind = "flush" /\ dirty # {}
    /\ dev' = Overwritten(dev, Run.first, Run.data)
    /\ dirty' = dirty \ Range(Run.first, Len(Run.data))
    /\ UNCHANGED <<entries, order, written, op, medium, since>>

\* MUTANT of DeviceFlush: the device is flushed with runs left to write.
DeviceFlushEarly ==
    /\ op.kind = "flush"
    /\ medium' = dev
    /\ since' = [b \in Blocks |-> {View[b]}]
    /\ op' = NoOp
    /\ UNCHANGED <<cache, dev>>

\* ... and flushes the device after the last one: the flush returns Ok.
DeviceFlush ==
    /\ op.kind = "flush" /\ dirty = {}
    /\ medium' = dev
    /\ since' = [b \in Blocks |-> {View[b]}]
    /\ op' = NoOp
    /\ UNCHANGED <<cache, dev>>

\* A read or a write returns Ok.
Return ==
    /\ op.kind \in {"read", "write"} /\ op.phase = "next" /\ op.done = op.count
    /\ op' = NoOp
    /\ UNCHANGED <<cache, dev, medium, since>>

-----------------------------------------------------------------------------
\* The blocks that the device call in progress writes, with their values.
InFlight ==
    IF Evicting THEN {entries[Victim(At)]}
    ELSE IF WritingBack THEN {entries[SlotOf(FirstOf(Covered))]}
    ELSE IF op.kind = "flush" /\ dirty # {}
         THEN {entries[SlotOf(b)] : b \in Range(Run.first, Len(Run.data))}
    ELSE IF op.phase = "direct" /\ op.kind = "write"
         THEN {[index |-> op.first + i - 1, data |-> op.buf[i]] : i \in 1 .. op.count}
    ELSE {}

\* The device call fails or the future is dropped: each block has been
\* written or not, and the request is over.
Cut ==
    /\ Missing \/ Evicting \/ WritingBack \/ op.phase = "direct" \/ op.kind = "flush"
    /\ \E W \in SUBSET InFlight :
          dev' = [b \in Blocks |-> IF \E w \in W : w.index = b
                                   THEN (CHOOSE w \in W : w.index = b).data ELSE dev[b]]
    /\ op' = NoOp
    /\ entries' = entries /\ Remember
    /\ UNCHANGED <<order, dirty, written, medium>>

\* MUTANT of GetMut: the dirty blocks are dropped, too.
GetMutDropsAll(b, v) ==
    /\ op = NoOp
    /\ entries' = [s \in Slots |-> Empty] /\ dirty' = {}
    /\ dev' = [dev EXCEPT ![b] = v]
    /\ since' = [since EXCEPT ![b] = @ \cup {v}]
    /\ UNCHANGED <<order, written, op, medium>>

\* get_mut: the clean blocks are dropped, and the device changed behind the
\* cache.
GetMut(b, v) ==
    /\ op = NoOp
    /\ LET S == {s \in Slots : entries[s] # Empty /\ entries[s].index \notin dirty}
       IN  /\ entries' = [s \in Slots |-> IF s \in S THEN Empty ELSE entries[s]]
           /\ Demote(S)
    /\ dev' = [dev EXCEPT ![b] = v]
    /\ since' = [since EXCEPT ![b] = @ \cup {v}]
    /\ UNCHANGED <<dirty, written, op, medium>>

NewCache ==
    /\ entries' = [s \in Slots |-> Empty] /\ order' = <<>>
    /\ dirty' = {} /\ written' = FALSE /\ op' = NoOp

\* into_inner, or dropping the cache, discards unflushed writes.
Discard == op = NoOp /\ NewCache /\ UNCHANGED <<dev, medium, since>>

\* The device writes back a block of its own cache.
Writeback(b) ==
    /\ medium' = [medium EXCEPT ![b] = dev[b]]
    /\ UNCHANGED <<cache, op, dev, since>>

PowerLoss == NewCache /\ dev' = medium /\ UNCHANGED <<medium, since>>

Init ==
    /\ entries = [s \in Slots |-> Empty] /\ order = <<>> /\ dirty = {} /\ written = FALSE
    /\ op = NoOp
    /\ dev \in [Blocks -> Values] /\ \A b \in Blocks : dev[b] \in Contents[b]
    /\ medium = dev /\ since = [b \in Blocks |-> {dev[b]}]

Requests == {r \in Blocks \X (1 .. NumBlocks) : r[1] + r[2] <= NumBlocks}
Buffers(first, count) == {buf \in [1 .. count -> Values] : \A i \in 1 .. count : buf[i] \in Contents[first + i - 1]}

Next ==
    \/ \E r \in Requests :
          \/ StartRead(r[1], r[2])
          \/ \E buf \in Buffers(r[1], r[2]) : StartWrite(r[1], buf)
    \/ StartFlush
    \/ ReadHit \/ Load \/ Fill \/ Put \/ Evict \/ EvictRefused
    \/ DirectRead \/ WriteBack \/ Invalidate \/ DirectWrite
    \/ WriteRun \/ DeviceFlush \/ Return \/ Cut
    \/ \E b \in Blocks : Writeback(b) \/ \E v \in Contents[b] : GetMut(b, v)
    \/ Discard \/ PowerLoss

Spec == Init /\ [][Next]_vars

-----------------------------------------------------------------------------
TypeOK ==
    /\ entries \in [Slots -> [index : Blocks, data : Values] \cup {Empty}]
    /\ order \in Seq(Slots) /\ dirty \subseteq Blocks /\ written \in BOOLEAN
    /\ op.kind \in {"none", "read", "write", "flush"}
    /\ op.phase \in {"idle", "next", "fill", "writeback", "direct"}
    /\ dev \in [Blocks -> Values] /\ medium \in [Blocks -> Values]
    /\ since \in [Blocks -> SUBSET Values]

\* A cached block without unflushed writes equals the device's, however the
\* write that made it clean went, and only a cached block has such writes.
CleanMatchesDevice ==
    /\ \A b \in dirty : Cached(b)
    /\ \A s \in Slots : entries[s] # Empty /\ entries[s].index \notin dirty =>
          entries[s].data = dev[entries[s].index]

\* The blocks a read has returned, and a write has stored, are what the
\* cache shows, whatever it evicted or read meanwhile.
RequestsAgree ==
    op.kind \in {"read", "write"} =>
        \A i \in 1 .. op.done : op.buf[i] = View[op.first + i - 1]

\* What the cache shows of a block changes only when a write covers it, and
\* then to the value written, when the device is changed through get_mut, or
\* when the cache is gone: no eviction, failure or cancellation loses a write.
NoLostWrites ==
    [][\A b \in Blocks : View'[b] # View[b] =>
          \/ op.kind = "write" /\ b \in Range(op.first, op.count) /\ View'[b] = op.buf[b - op.first + 1]
          \/ op = NoOp /\ b \notin dirty /\ View'[b] = dev'[b]
          \/ order' = <<>> /\ View'[b] \in {dev[b], medium[b]}]_vars

\* The cache over a device that may hold back writes is such a device again:
\* after a flush that returned Ok, and whatever was cut before or after it,
\* a power loss leaves each block with a value it had since.
Store == INSTANCE BlockStore WITH store <- View
StorePromise == Store!Spec
=============================================================================
