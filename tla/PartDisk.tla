------------------------------ MODULE PartDisk ------------------------------
(***************************************************************************)
(* Partition tables (hadris-part): the tables in memory with their checked *)
(* edits (mbr.rs, gpt_table.rs, hybrid.rs), the blocks a table is written  *)
(* as and their order (disk.rs), and reading one back (codec.rs, io.rs).   *)
(*                                                                         *)
(* A write goes block by block and may stop after any of them: the device  *)
(* fails, the future is dropped, the machine stops.  A block is written    *)
(* whole or not at all.  A CRC is the content it covers; one GPT entry     *)
(* fills one block.  Types, names, GUIDs, flags and boot code are left     *)
(* out: their edits differ from resize only in the field they set.         *)
(***************************************************************************)
EXTENDS Integers, Sequences, FiniteSets, SequencesExt

CONSTANTS
    Sizes,          \* block counts the device can have
    Slots,          \* MBR slots (4 in the code)
    MaxLogical,     \* MAX_LOGICAL
    DefaultEntries, \* GPT_DEFAULT_ENTRIES
    Counts,         \* entry counts set_entry_count is called with
    Extents,        \* the <<start, len>> partitions are asked for
    ExtendedAt,     \* the <<start, len>> of extended partitions
    Layouts,        \* the layouts built: [align, sizes], size 0 for Remaining
    MaxEdits,       \* bound: edits of a table in memory
    MaxWrites,      \* bound: calls of write
    MaxFaults       \* bound: damaged blocks and changes of the device's size

Largest == CHOOSE n \in Sizes : \A k \in Sizes : k <= n

ASSUME DiskAssumption ==
    /\ Sizes \subseteq Nat \ {0} /\ \E n \in Sizes : \A k \in Sizes : k <= n
    /\ {Slots, MaxLogical, DefaultEntries} \subseteq Nat \ {0}
    /\ Counts \subseteq Nat
    /\ Extents \cup ExtendedAt \subseteq (Nat \X Nat)
    /\ \A l \in Layouts : l.align \in Nat \ {0} /\ l.sizes \in Seq(Nat)
    /\ {MaxEdits, MaxWrites, MaxFaults} \subseteq Nat

VARIABLES
    dev,     \* the blocks of the device
    size,    \* its block_count
    mem,     \* the table the caller has: a Disk, or NoTable
    job,     \* the last write, or fault, and what reading may show since
    whole,   \* ghost: mem, and what is on the device, come from no cut write
             \* whose order was not enough (Safe)
    used     \* the bounds' counters

vars == <<dev, size, mem, job, whole, used>>

NoTable == [kind |-> "none"]
Unused == <<0, 0>>
Data == [is |-> "data"]
Entry(kind, start, len) == [kind |-> kind, start |-> start, len |-> len]
Empty == Entry("empty", 0, 0)
Record(entries) == [is |-> "record", entries |-> entries]

Used(gpt) == {i \in DOMAIN gpt.entries : gpt.entries[i] # Unused}
End(e) == e[1] + e[2]
IsGpt(t) == t.kind \in {"gpt", "hybrid"}

-----------------------------------------------------------------------------
\* GPT: the checked edits.

GptNew(n) ==
    [blocks |-> n, first |-> 2 + DefaultEntries, last |-> n - 2 - DefaultEntries,
     backup |-> n - 1, primaryArray |-> 2, backupArray |-> n - 1 - DefaultEntries,
     entries |-> [i \in 1 .. DefaultEntries |-> Unused], damaged |-> "none"]

\* MUTANT of Check: the last block of another partition is not seen.
CheckShort(gpt, i, e) ==
    /\ e[2] > 0 /\ e[1] >= gpt.first /\ End(e) - 1 <= gpt.last
    /\ \A k \in Used(gpt) \ {i} :
        ~(e[1] < End(gpt.entries[k]) - 1 /\ gpt.entries[k][1] < End(e))

Check(gpt, i, e) ==
    /\ e[2] > 0 /\ e[1] >= gpt.first /\ End(e) - 1 <= gpt.last
    /\ \A k \in Used(gpt) \ {i} :
        ~(e[1] <= End(gpt.entries[k]) - 1 /\ gpt.entries[k][1] < End(e))

Usable(gpt, backup, array) ==
    [first |-> gpt.primaryArray + array, last |-> backup - array - 1]

CheckUsable(gpt, first, last) ==
    \A i \in Used(gpt) : gpt.entries[i][1] >= first /\ End(gpt.entries[i]) - 1 <= last

GptAdds(gpt) ==
    {[gpt EXCEPT !.entries[a[1]] = a[2]] : a \in
        {a \in (DOMAIN gpt.entries \ Used(gpt)) \X Extents :
            /\ \A k \in 1 .. a[1] - 1 : k \in Used(gpt)
            /\ Check(gpt, a[1], a[2])}}

GptRemoves(gpt) == {[gpt EXCEPT !.entries[i] = Unused] : i \in Used(gpt)}

\* resize; set_type, set_name, set_flags and the others go through edit, too.
GptResizes(gpt) ==
    {[gpt EXCEPT !.entries[a[1]] = <<@[1], a[2][2]>>] : a \in
        {a \in Used(gpt) \X Extents :
            Check(gpt, a[1], <<gpt.entries[a[1]][1], a[2][2]>>)}}

SetEntryCounts(gpt) ==
    {[gpt EXCEPT !.entries = [i \in 1 .. c |->
                    IF i \in DOMAIN gpt.entries THEN gpt.entries[i] ELSE Unused],
                 !.first = Usable(gpt, gpt.backup, c).first,
                 !.last = Usable(gpt, gpt.backup, c).last,
                 !.backupArray = Usable(gpt, gpt.backup, c).last + 1] : c \in
        {c \in Counts :
            LET u == Usable(gpt, gpt.backup, c)
            IN  /\ c > 0 /\ \A i \in Used(gpt) : i <= c
                /\ u.last >= u.first /\ CheckUsable(gpt, u.first, u.last)}}

RelocateBackups(gpt) ==
    {[gpt EXCEPT !.blocks = n, !.backup = n - 1,
                 !.last = Usable(gpt, n - 1, Len(gpt.entries)).last,
                 !.backupArray = Usable(gpt, n - 1, Len(gpt.entries)).last + 1] : n \in
        {n \in Sizes :
            LET u == Usable(gpt, n - 1, Len(gpt.entries))
            IN  /\ u.last >= u.first /\ u.last >= gpt.first
                /\ CheckUsable(gpt, gpt.first, u.last)}}

GptEdits(gpt) ==
    UNION {GptAdds(gpt), GptRemoves(gpt), GptResizes(gpt), SetEntryCounts(gpt),
           RelocateBackups(gpt)}

Fits(gpt, n) ==
    LET array == Len(gpt.entries)
    IN  /\ gpt.primaryArray >= 2 /\ gpt.primaryArray + array <= gpt.first
        /\ gpt.backupArray > gpt.last /\ gpt.backupArray + array <= gpt.backup
        /\ gpt.backup < n

-----------------------------------------------------------------------------
\* MBR: the checked edits.

Occupied(t) == {i \in 1 .. Slots : t.entries[i].kind # "empty"}
ExtendedSlots(entries) == {i \in 1 .. Slots : entries[i].kind = "extended"}
Extended(entries) == entries[CHOOSE i \in ExtendedSlots(entries) : TRUE]

CheckPrimary(t, slot, e) ==
    /\ e.len > 0 /\ e.start + e.len <= t.blocks
    /\ e.kind = "extended" => e.start # 0
    /\ \A i \in Occupied(t) \ {slot} :
        /\ ~(e.kind = "extended" /\ t.entries[i].kind = "extended")
        /\ ~(e.start < t.entries[i].start + t.entries[i].len
             /\ t.entries[i].start < e.start + e.len)

\* The first record is in the first block of the extended partition; another
\* stays where it is while that is between its neighbours.
PlacedEbr(k, l, prev, start) ==
    CASE k = 1 -> start
      [] k > 1 /\ prev <= l.ebr /\ l.ebr < l.start /\ l.ebr # start -> l.ebr
      [] OTHER -> l.start - 1

\* sort_by_key: the same partitions ordered by their first blocks.
InOrder(logical) ==
    LET n == Len(logical)
    IN  {[k \in 1 .. n |-> logical[p[k]]] : p \in
            {p \in [1 .. n -> 1 .. n] : \A i, k \in 1 .. n :
                i < k => p[i] # p[k] /\ logical[p[i]].start <= logical[p[k]].start}}

\* Partitions in order, with their records placed.
Placed(start, sorted) ==
    [k \in 1 .. Len(sorted) |-> [sorted[k] EXCEPT !.ebr =
        PlacedEbr(k, sorted[k], sorted[k - 1].start + sorted[k - 1].len, start)]]

\* Whether there is room for them and their records.
CanPlace(start, end, p) ==
    /\ Len(p) <= MaxLogical
    /\ \A k \in 1 .. Len(p) :
        /\ p[k].len > 0 /\ p[k].start > start /\ p[k].start + p[k].len <= end
        /\ k > 1 => p[k].ebr >= p[k - 1].start + p[k - 1].len

\* place_logicals: the ways to place them; more than one only if it refuses.
Placements(start, end, logical) ==
    {p \in {Placed(start, sorted) : sorted \in InOrder(logical)} : CanPlace(start, end, p)}

\* The table with the logical partitions l, if they can be placed.
WithLogical(t, l) ==
    LET x == Extended(t.entries)
    IN  {[t EXCEPT !.logical = p] : p \in Placements(x.start, x.start + x.len, l)}

MbrAdds(t) ==
    {[t EXCEPT !.entries[a[1]] = a[2]] : a \in
        {a \in ((1 .. Slots) \ Occupied(t)) \X
               ({Entry("linux", x[1], x[2]) : x \in Extents}
                  \cup {Entry("extended", x[1], x[2]) : x \in ExtendedAt}) :
            /\ \A k \in 1 .. a[1] - 1 : k \in Occupied(t)
            /\ CheckPrimary(t, a[1], a[2])}}

MbrRemoves(t) ==
    {[t EXCEPT !.entries[i] = Empty] : i \in
        {i \in Occupied(t) : t.entries[i].kind = "extended" => t.logical = <<>>}}

\* The logical partitions are placed anew when the extended one changes.
MbrResizes(t) ==
    UNION {
        LET e == [t.entries[i] EXCEPT !.len = x[2]]
        IN  IF ~CheckPrimary(t, i, e) THEN {}
            ELSE IF e.kind # "extended" THEN {[t EXCEPT !.entries[i] = e]}
            ELSE {[t EXCEPT !.entries[i] = e, !.logical = p] :
                    p \in Placements(e.start, e.start + e.len, t.logical)} :
        i \in Occupied(t), x \in Extents \cup ExtendedAt}

LogicalEdits(t) ==
    UNION ({WithLogical(t, Append(t.logical,
                [ebr |-> 0, start |-> x[1], len |-> x[2]])) : x \in Extents}
           \cup {WithLogical(t, RemoveAt(t.logical, k)) : k \in DOMAIN t.logical}
           \cup {WithLogical(t, [t.logical EXCEPT ![k].len = x[2]]) :
                    k \in DOMAIN t.logical, x \in Extents})

MbrEdits(t) ==
    UNION {MbrAdds(t), MbrRemoves(t), MbrResizes(t),
           IF ExtendedSlots(t.entries) = {} THEN {} ELSE LogicalEdits(t)}

-----------------------------------------------------------------------------
\* Hybrid MBR: a protective entry and mirrors of some GPT partitions.

Hybrid(gpt, protective, mirrors) ==
    LET starts == {gpt.entries[i][1] : i \in Range(mirrors)}
        end == IF starts = {} THEN gpt.blocks - 1
               ELSE (CHOOSE s \in starts : \A o \in starts : s <= o) - 1
    IN  [slot \in 1 .. Slots |->
            LET k == IF slot < protective THEN slot ELSE slot - 1
            IN  IF slot = protective THEN Entry("protective", 1, end)
                ELSE IF k \in DOMAIN mirrors
                     THEN Entry("linux", gpt.entries[mirrors[k]][1], gpt.entries[mirrors[k]][2])
                     ELSE Empty]

-----------------------------------------------------------------------------
\* DiskLayout: partitions without an explicit start, one after the other.

AlignUp(block, align) == ((block + align - 1) \div align) * align

\* Starts and lengths from cursor on, the last one up to end if it has no size;
\* with a gap of one block for the record before each logical partition.
LaidOut(sizes, align, cursor, end, gap) ==
    LET till[k \in 0 .. Len(sizes)] ==
            IF k = 0 THEN cursor
            ELSE IF sizes[k] = 0 THEN end
            ELSE AlignUp(till[k - 1] + gap, align) + sizes[k]
        start(k) == AlignUp(till[k - 1] + gap, align)
    IN  [k \in 1 .. Len(sizes) |-> <<start(k), till[k] - start(k)>>]

BuildGpt(n, layout) ==
    LET new == GptNew(n)
        placed == LaidOut(layout.sizes, layout.align, new.first, new.last + 1, 0)
        gpt == [new EXCEPT !.entries = [i \in 1 .. DefaultEntries |->
                    IF i <= Len(placed) THEN placed[i] ELSE Unused]]
    IN  {g \in {gpt} : /\ new.last >= new.first /\ Len(placed) <= DefaultEntries
                       /\ \A i \in 1 .. Len(placed) : Check(g, i, placed[i])}

\* All slots, or all but one and an extended partition around the others.
BuildMbr(n, layout) ==
    LET count == Len(layout.sizes)
        primaries == IF count > Slots THEN Slots - 1 ELSE count
        first == LaidOut(SubSeq(layout.sizes, 1, primaries), layout.align, layout.align, n, 0)
        ext == AlignUp(IF first = <<>> THEN layout.align ELSE End(Last(first)), layout.align)
        rest == LaidOut(SubSeq(layout.sizes, primaries + 1, count), layout.align, ext, n, 1)
        end == End(Last(rest))
        t == [kind |-> "mbr", blocks |-> n,
              logical |-> Placed(ext, [k \in 1 .. Len(rest) |->
                              [ebr |-> 0, start |-> rest[k][1], len |-> rest[k][2]]]),
              entries |-> [i \in 1 .. Slots |->
                    IF i <= primaries THEN Entry("linux", first[i][1], first[i][2])
                    ELSE IF i = primaries + 1 /\ rest # <<>> THEN Entry("extended", ext, end - ext)
                    ELSE Empty]]
    IN  {t2 \in {t} : /\ \A i \in Occupied(t2) : CheckPrimary(t2, i, t2.entries[i])
                      /\ rest # <<>> => CanPlace(ext, end, t2.logical)}

-----------------------------------------------------------------------------
\* Disk::runs: what a table is written as, block by block.

Header(gpt, my, alternate, array) ==
    [is |-> "header", my |-> my, alternate |-> alternate, first |-> gpt.first,
     last |-> gpt.last, array |-> array, count |-> Len(gpt.entries),
     crc |-> gpt.entries]

Block(lba, content) == [lba |-> lba, content |-> content]
ArrayRun(gpt, lba) ==
    [i \in DOMAIN gpt.entries |->
        Block(lba + i - 1, [is |-> "entry", entry |-> gpt.entries[i]])]

\* MUTANT of GptRuns: the primary copy is written first.
GptRunsPrimaryFirst(gpt) ==
    ArrayRun(gpt, gpt.primaryArray)
      \o <<Block(1, Header(gpt, 1, gpt.backup, gpt.primaryArray))>>
      \o <<Block(gpt.backup, Header(gpt, gpt.backup, 1, gpt.backupArray))>>
      \o ArrayRun(gpt, gpt.backupArray)

GptRuns(gpt) ==
    ArrayRun(gpt, gpt.backupArray)
      \o <<Block(gpt.backup, Header(gpt, gpt.backup, 1, gpt.backupArray))>>
      \o ArrayRun(gpt, gpt.primaryArray)
      \o <<Block(1, Header(gpt, 1, gpt.backup, gpt.primaryArray))>>

\* The link to a record counts from the extended partition.
Link(l, k, ext) ==
    IF k = Len(l) THEN Empty
    ELSE Entry("extended", l[k + 1].ebr - ext, l[k + 1].start + l[k + 1].len - l[k + 1].ebr)

\* MUTANT of EbrRecord: the partition counts from the extended partition, too.
EbrRecordFromExtended(l, k, ext) ==
    Block(IF k = 1 THEN ext ELSE l[k].ebr,
          Record(<<Entry("linux", l[k].start - ext, l[k].len), Link(l, k, ext)>>))

\* The k-th record; its partition counts from the record.
EbrRecord(l, k, ext) ==
    LET ebr == IF k = 1 THEN ext ELSE l[k].ebr
    IN  Block(ebr, Record(<<Entry("linux", l[k].start - ebr, l[k].len), Link(l, k, ext)>>))

\* Without a logical partition the first record is empty.
EbrRecords(t) ==
    LET ext == Extended(t.entries).start
    IN  IF ExtendedSlots(t.entries) = {} THEN <<>>
        ELSE IF t.logical = <<>> THEN <<Block(ext, Record(<<Empty, Empty>>))>>
        ELSE [k \in DOMAIN t.logical |-> EbrRecord(t.logical, k, ext)]

Runs(t) ==
    CASE t.kind = "mbr" -> Append(EbrRecords(t), Block(0, Record(t.entries)))
      [] t.kind = "gpt" -> Append(GptRuns(t.gpt), Block(0, Record([i \in 1 .. Slots |->
            IF i = 1 THEN Entry("protective", 1, t.gpt.blocks - 1) ELSE Empty])))
      [] t.kind = "hybrid" -> Append(GptRuns(t.gpt), Block(0, Record(t.entries)))

-----------------------------------------------------------------------------
\* Reading a table back.

Kinds(record) == {record.entries[i].kind : i \in DOMAIN record.entries} \ {"empty"}

\* codec::check_header and the CRC of the entry array, on the blocks d of a
\* device of n blocks.
ValidCopy(d, n, lba) ==
    LET h == d[lba]
        end == h.array + h.count
    IN  /\ lba # 0 /\ lba < n
        /\ h.is = "header" /\ h.my = lba
        /\ h.last < n /\ h.first <= h.last + 1 /\ lba \notin h.first .. h.last
        /\ IF lba = 1 THEN h.array >= 2 /\ end <= h.first
           ELSE h.array > h.last /\ end <= lba /\ h.count + 2 <= h.first
        /\ end <= n
        /\ \A i \in 1 .. h.count : d[h.array + i - 1] = [is |-> "entry", entry |-> h.crc[i]]

SameTable(p, b) ==
    /\ b.alternate = 1 /\ b.my > p.last /\ p.alternate = b.my
    /\ <<p.first, p.last, p.count, p.crc>> = <<b.first, b.last, b.count, b.crc>>

\* Gpt::from_disk on the header h of the copy source.
FromDisk(n, h, source, damaged, backupArray) ==
    LET fits(b) == b < n /\ b - h.count > h.last
        backup == CASE source = "backup" -> h.my
                    [] source = "primary" /\ fits(h.alternate) -> h.alternate
                    [] OTHER -> n - 1
    IN  [blocks |-> n, first |-> h.first, last |-> h.last, backup |-> backup,
         primaryArray |-> IF source = "primary" THEN h.array ELSE 2,
         backupArray |-> CASE source = "backup" -> h.array
                           [] source = "primary" /\ damaged = "none" -> backupArray
                           [] OTHER -> backup - h.count,
         entries |-> h.crc, damaged |-> damaged]

\* find_gpt: the primary if it is valid; the backup is looked for where the
\* primary says, without one in the last block.  <<>> if neither is valid.
FindGpt(d, n) ==
    LET p == d[1]
        at == IF ValidCopy(d, n, 1) THEN p.alternate ELSE n - 1
        same == ValidCopy(d, n, at) /\ SameTable(p, d[at])
    IN  CASE ValidCopy(d, n, 1) ->
                <<FromDisk(n, p, "primary", IF same THEN "none" ELSE "backup",
                           IF same THEN d[at].array ELSE 0)>>
          [] ~ValidCopy(d, n, 1) /\ ValidCopy(d, n, at) ->
                <<FromDisk(n, d[at], "backup", "primary", d[at].array)>>
          [] OTHER -> <<>>

Failed(why) == [kind |-> why]

\* One round of walk_ebr: the record at w.at of the chain of the extended
\* partition ext; the walk goes "on", has come to the "end" or is "broken".
Follow(d, n, ext, w) ==
    LET r == d[w.at]
        logical == r.entries[1]
        link == r.entries[2]
        found == IF logical.kind = "empty" THEN w.found
                 ELSE Append(w.found, [ebr |-> w.at, start |-> w.at + logical.start,
                                       len |-> logical.len])
    IN  CASE w.state # "on" -> w
          [] w.state = "on" /\ (w.at >= ext.start + ext.len \/ w.at >= n) ->
                [w EXCEPT !.state = "broken"]
          [] w.state = "on" /\ w.at < ext.start + ext.len /\ w.at < n ->
                IF r.is # "record"
                THEN [w EXCEPT !.state = IF w.at = ext.start THEN "end" ELSE "broken"]
                ELSE IF logical.kind = "extended" THEN [w EXCEPT !.state = "broken"]
                ELSE IF link.kind # "extended" THEN [w EXCEPT !.state = "end", !.found = found]
                ELSE IF ext.start + link.start <= w.at THEN [w EXCEPT !.state = "broken"]
                ELSE [at |-> ext.start + link.start, found |-> found, state |-> "on"]

\* walk_ebr: every round it may take.
WalkEbr(d, n, ext) ==
    LET walk[k \in 0 .. MaxLogical] ==
            IF k = 0 THEN [at |-> ext.start, found |-> <<>>, state |-> "on"]
            ELSE Follow(d, n, ext, walk[k - 1])
    IN  walk[MaxLogical]

ReadFrom(d, n) ==
    LET r == d[0]
        gpt == FindGpt(d, n)
        walk == IF ExtendedSlots(r.entries) = {} THEN [found |-> <<>>, state |-> "end"]
                ELSE WalkEbr(d, n, Extended(r.entries))
    IN  IF r.is # "record" THEN Failed("not_recognized")
        ELSE IF "protective" \notin Kinds(r)
             THEN IF walk.state # "end" THEN Failed("corrupt")
                  ELSE [kind |-> "mbr", blocks |-> n, entries |-> r.entries,
                        logical |-> walk.found]
        ELSE IF gpt = <<>> THEN Failed("corrupt")
        ELSE IF Kinds(r) = {"protective"} THEN [kind |-> "gpt", gpt |-> gpt[1]]
        ELSE [kind |-> "hybrid", gpt |-> gpt[1], entries |-> r.entries]

Read == ReadFrom(dev, size)
ReadOk == Read.kind \in {"mbr", "gpt", "hybrid"}

-----------------------------------------------------------------------------
\* What reading shows of a table: the partitions.

Parts(t) ==
    CASE IsGpt(t) -> {<<"gpt", i, t.gpt.entries[i]>> : i \in Used(t.gpt)}
      [] t.kind = "mbr" -> {<<t.entries[i].kind, i, <<t.entries[i].start, t.entries[i].len>> >> :
                                i \in Occupied(t)}
                           \cup {<<"logical", l.start, <<l.start, l.len>> >> : l \in Range(t.logical)}
      [] OTHER -> {<<t.kind, 0, Unused>>}

\* The blocks a write changes, or does not find, before block 0.
Changed(t) == {b \in Range(Front(Runs(t))) : b.lba >= size \/ dev[b.lba] # b.content}

(***************************************************************************)
(* When the order of the runs is enough: a write cut anywhere then shows   *)
(* the old or the new partitions.  One block changes at once.  A GPT needs *)
(* a valid primary to begin with, which its backup does not cover, and     *)
(* ends with the backup in the last block of the device, the one place     *)
(* where it is found without a primary.                                    *)
(***************************************************************************)
Safe(t) ==
    LET old == Read
    IN  \/ Changed(t) = {}
        \/ old.kind = "not_recognized"
        \/ old.kind = "mbr" /\ ExtendedSlots(old.entries) = {}
        \/ old.kind = "mbr" /\ t.kind = "mbr" /\ old.entries = t.entries
             /\ Cardinality(Changed(t)) = 1
        \/ IsGpt(old) /\ IsGpt(t) /\ old.gpt.damaged # "primary" /\ t.gpt.backup = size - 1
             /\ t.gpt.backupArray >= old.gpt.primaryArray + Len(old.gpt.entries)
        \/ IsGpt(old) /\ old.gpt.damaged = "none" /\ old.gpt.backup = size - 1
             /\ t.kind = "mbr" /\ Cardinality(Changed(t)) = 1

-----------------------------------------------------------------------------
Idle == job.left = <<>>

Edit(tables) ==
    /\ Idle /\ used.edits < MaxEdits
    /\ mem' \in tables /\ mem' # mem
    /\ used' = [used EXCEPT !.edits = @ + 1]
    /\ UNCHANGED <<dev, size, job>>

\* A table that does not come from the device.
Make(tables) == Edit(tables) /\ whole' = [whole EXCEPT !.mem = TRUE]

NewMbr == Make({[kind |-> "mbr", blocks |-> size, logical |-> <<>>,
                 entries |-> [i \in 1 .. Slots |-> Empty]]})

NewGpt ==
    /\ GptNew(size).last >= GptNew(size).first
    /\ Make({[kind |-> "gpt", gpt |-> GptNew(size)]})

Build ==
    \E layout \in Layouts :
        Make(BuildMbr(size, layout)
               \cup {[kind |-> "gpt", gpt |-> g] : g \in BuildGpt(size, layout)})

EditMbr == mem.kind = "mbr" /\ Edit(MbrEdits(mem)) /\ UNCHANGED whole

EditGpt ==
    /\ IsGpt(mem)
    /\ Edit({[mem EXCEPT !.gpt = g] : g \in GptEdits(mem.gpt)})
    /\ UNCHANGED whole

\* Hybrid::new, also to rebuild one.
MakeHybrid ==
    /\ IsGpt(mem)
    /\ \E protective \in 1 .. Slots, n \in 0 .. Slots - 1 :
        \E mirrors \in [1 .. n -> Used(mem.gpt)] :
            /\ \A i, k \in 1 .. n : mirrors[i] = mirrors[k] => i = k
            /\ Edit({[kind |-> "hybrid", gpt |-> mem.gpt,
                      entries |-> Hybrid(mem.gpt, protective, mirrors)]})
    /\ UNCHANGED whole

IntoGpt == mem.kind = "hybrid" /\ Edit({[kind |-> "gpt", gpt |-> mem.gpt]}) /\ UNCHANGED whole

ReadDisk ==
    /\ Idle
    /\ mem' = IF ReadOk THEN Read ELSE NoTable
    /\ whole' = [whole EXCEPT !.mem = whole.dev]
    /\ UNCHANGED <<dev, size, job, used>>

\* The checks write makes before its first block.
Writable(t) ==
    CASE t.kind = "mbr" -> t.blocks <= size
      [] IsGpt(t) -> t.gpt.blocks <= size /\ Fits(t.gpt, size)
      [] OTHER -> FALSE

StartWrite ==
    /\ Idle /\ Writable(mem) /\ used.writes < MaxWrites
    /\ job' = [left |-> Runs(mem), done |-> FALSE, table |-> mem, safe |-> Safe(mem),
               sound |-> ReadOk, shows |-> {Parts(Read), Parts(mem)}]
    /\ used' = [used EXCEPT !.writes = @ + 1]
    /\ UNCHANGED <<dev, size, mem, whole>>

\* One block, unless the device ends before it; after the last one the flush.
WriteBlock ==
    /\ job.left # <<>> /\ Head(job.left).lba < size
    /\ dev' = [dev EXCEPT ![Head(job.left).lba] = Head(job.left).content]
    /\ job' = [job EXCEPT !.left = Tail(@), !.done = Len(job.left) = 1]
    /\ whole' = IF Len(job.left) = 1 THEN [whole EXCEPT !.dev = whole.mem] ELSE whole
    /\ UNCHANGED <<size, mem, used>>

\* The write stops; the caller still has its table.
Interrupt ==
    /\ job.left # <<>>
    /\ job' = [job EXCEPT !.left = <<>>]
    /\ whole' = [whole EXCEPT !.dev = whole.dev /\ whole.mem /\ job.safe]
    /\ UNCHANGED <<dev, size, mem, used>>

\* After a fault the table must still be found if the other copy is valid.
Fault(safe) ==
    /\ Idle /\ used.faults < MaxFaults
    /\ used' = [used EXCEPT !.faults = @ + 1]
    /\ job' = [left |-> <<>>, done |-> FALSE, table |-> NoTable, safe |-> safe,
               sound |-> FALSE, shows |-> {Parts(Read)}]
    /\ UNCHANGED <<mem, whole>>

\* A block of a GPT copy decays.
Damage ==
    LET old == Read
    IN  /\ IsGpt(old)
        /\ \E b \in Range(Front(Runs(old))) :
            /\ dev[b.lba] # Data
            /\ dev' = [dev EXCEPT ![b.lba] = Data]
            /\ Fault(old.gpt.damaged = "none" /\ old.gpt.backup = size - 1)
        /\ UNCHANGED size

\* The image is grown or cut; it is opened again.
Resize ==
    /\ \E n \in Sizes \ {size} :
        /\ size' = n
        /\ dev' = [b \in 0 .. Largest - 1 |-> IF b < n THEN dev[b] ELSE Data]
        /\ Fault(IsGpt(Read) /\ Read.gpt.damaged # "primary" /\ Read.gpt.last < n)

Init ==
    /\ size \in Sizes
    /\ dev = [b \in 0 .. Largest - 1 |-> Data]
    /\ mem = NoTable
    /\ job = [left |-> <<>>, done |-> FALSE, table |-> NoTable, safe |-> FALSE,
              sound |-> FALSE, shows |-> {}]
    /\ whole = [mem |-> TRUE, dev |-> TRUE]
    /\ used = [edits |-> 0, writes |-> 0, faults |-> 0]

Next ==
    \/ NewMbr \/ NewGpt \/ Build \/ EditMbr \/ EditGpt \/ MakeHybrid \/ IntoGpt
    \/ ReadDisk \/ StartWrite \/ WriteBlock \/ Interrupt \/ Damage \/ Resize

Spec == Init /\ [][Next]_vars

-----------------------------------------------------------------------------
\* A write that is cut after any block, and a GPT copy that decays, leave a
\* device on which reading shows the old partitions or the new ones, whenever
\* the order of Disk::runs is enough for it (Safe): never a mixture, an error
\* or an earlier table.
TableSurvives == job.safe => Parts(Read) \in job.shows

\* A write that returned is read back as the very table that was written, with
\* both copies valid: the backup repaired, every record in the chain found,
\* the backup where the header says.  A hybrid MBR without mirrors is a GPT.
WriteRoundTrips ==
    LET t == job.table
    IN  job.done =>
            CASE t.kind = "mbr" -> Read = [t EXCEPT !.blocks = size]
              [] IsGpt(t) ->
                    /\ Read.kind = IF t.kind = "hybrid" /\ Cardinality(Occupied(t)) > 1
                                   THEN "hybrid" ELSE "gpt"
                    /\ Read.gpt = [t.gpt EXCEPT !.blocks = size, !.damaged = "none"]
                    /\ Read.kind = "hybrid" => Read.entries = t.entries

\* The blocks of the table itself, block 0 apart (an MBR partition may cover
\* it), are outside every partition the table lists, so that writing a table
\* never damages what is stored in its partitions; and no two of them meet.
\* Reading checks a GPT, but only follows the records of an MBR: one that a
\* cut write left (whole) may list logical partitions over others.
RunsSparePartitions ==
    LET extents == IF IsGpt(mem) THEN {<<i, mem.gpt.entries[i]>> : i \in Used(mem.gpt)}
                   ELSE {<<i, <<mem.entries[i].start, mem.entries[i].len>> >> :
                            i \in Occupied(mem) \ ExtendedSlots(mem.entries)}
                        \cup {<<Slots + k, <<mem.logical[k].start, mem.logical[k].len>> >> :
                            k \in DOMAIN mem.logical}
        blocks(x) == x[2][1] .. End(x[2]) - 1
    IN  Writable(mem) /\ (IsGpt(mem) \/ whole.mem) =>
            /\ \A x \in extents, b \in Range(Front(Runs(mem))) : b.lba \notin blocks(x)
            /\ \A x, y \in extents : x # y => blocks(x) \cap blocks(y) = {}

\* disk.rs: "an interrupted write never shows a table whose structures are
\* missing": where a table was read before, reading does not report damage.
InterruptedWriteShowsATable == job.sound => Read.kind # "corrupt"
====
