# hadris: TLA+ models, model checking and proofs

Hadris is a family of Rust crates for reading and writing file systems (FAT,
exFAT, ISO 9660, UDF, NTFS, APFS, CPIO) and partition tables, with and without
an allocator, blocking and `async`. This directory holds TLA+ modules for its
most delicate parts: the writing FAT and exFAT drivers and the state they keep
to survive failed device calls, dropped futures and power loss, the block cache
underneath them, the volume that shares a driver between tasks, and the
partition tables a volume lies in.

Everything is translated from the code under `src/`; `PROJECT.json` maps each
definition to its lines.

## 1. Inventory

`crates/block`, `crates/core`, `crates/optical`, `crates/archive` and
`crates/tools` hold the crates. "Operations" are the ones that change state.

| Component | State | Operations | What makes it correct |
|---|---|---|---|
| FAT node table (`hadris-fat/src/table.rs`, `fatfs.rs`) | ids, pins, opens, dirty sizes, entry offset per node, the interrupted rename | lookup, create, write, truncate, open, close, forget, unlink, rename, fsync, sync, recovery | pins match what callers hold; one node per entry; nodes agree with the disk; an open file is not removed; an id keeps its file |
| FAT clean marker (`hadris-fat-raw/src/io/fat.rs`) | `Fat::dirty`, clean bit per FAT copy, device write cache | begin_write, clear_dirty, sync, mark_clean, mount | a clean bit on the medium implies everything is on the medium |
| FAT entries and mirrors (`io/fat.rs`) | FAT copies, `unmirrored`, `split`, free count | set, patch, mirror, count_free | copies repairable; writes atomic to readers; counted full means full |
| FAT chains and recovery (`fatfs.rs`) | FAT links, short entries, node sizes, `pending` | write, truncate, unlink, create, fsync, forget, finish_interrupted | no cross link, dangling link, size beyond the chain, or leak; data kept |
| FAT directories and names (`fatfs.rs`, `dirs.rs`, `names.rs`, `lfn.rs`) | slots, long-name runs, directory chains | create, mkdir, rmdir, rename, directory growth and `ungrow` | a name resolves to one entry; a cut run is cleared or completed |
| exFAT volume flag (`exfat/io/volume.rs`) | `ExFat::dirty`, VolumeDirty, device write cache | begin_write, clear_dirty, sync, mark_clean, mount | as the clean bit; sync clears the flag it set |
| exFAT driver (`exfat/fs.rs`) | entry sets, bitmap, FAT, `pending` | the same file operations | as for FAT, plus checksums of entry sets |
| FAT driver caches (`hadris-fat/src/cache.rs`) | chain positions, metadata blocks, directory index | fill, invalidate | a cached value equals the disk when used |
| embedded drivers (`embedded/`) | fixed handle tables | open, read, write, close | as the drivers above, without recovery state on the heap |
| mkfs and checkers | none between calls | format, check | layout arithmetic; a checker reports exactly the defects |
| block devices, cache and read-ahead (`hadris-storage`) | cached blocks, dirty flags, read-ahead windows | read, write, flush, evict | reads see writes; a flush is durable; a cut eviction loses nothing |
| volumes and handles (`hadris-fs/src/api`) | the driver behind a lock, the queue of calls that dropped handles owe | open, drop, close, run_pending | each owed call runs once; eventually runs while calls are made |
| partition tables (`hadris-part`) | MBR, primary and backup GPT | read, modify, write | an interrupted write leaves a readable table |
| ISO sessions (`hadris-iso`) | session layout, regions to write | append, rewrite | a cut leaves the old or the new tree |
| UDF, CPIO writers | a position in a stream | one pass | the written image reads back |
| NTFS, APFS, ISO, UDF readers | none that changes | read | decoding |
| facade, errors, macros, CLI | none | dispatch | |

How they interact. A `Volume` owns one driver behind a lock and hands out
handles; handles call the driver with `&mut self`, so driver operations never
run at the same time. A driver calls `hadris-fat-raw`, whose functions take the
device, one block buffer and the volume record (`Fat`, `ExFat`). The device may
be wrapped by a block cache or read-ahead. Concurrency therefore appears in two
forms only: tasks competing for a volume's lock and its queue, and, everywhere
below it, **cancellation**: every `.await` on the device is a point where the
call may fail or the future may be dropped, before or after the device did what
was asked, and the next operation starts from what is left in memory and on
disk. On top of that, power may be lost with writes in the device's cache.

The hard behaviours are thus: a cut at any device write; recovery that is
itself cut; operations that run without recovery between a cut and its recovery
(`lookup`, `open`, `forget`, `statfs`); state in memory that a cut leaves stale;
order of writes against the medium's clean marker; a second interruption before
the first is repaired. `PROJECT.json` lists them as hazards with their lines.

## 2. Modules

| Module | Models | Composes or refines |
|---|---|---|
| `NodeTable` | `table.rs` and its use by `fatfs.rs` | |
| `DirTree` | what directories promise a caller, one call at a time (abstract) | |
| `FatDir` | directory slots, long-name runs and directory clusters of FAT | refines `DirTree` |
| `ExfatFs` | entry sets, FAT, bitmap, nodes and recovery of exFAT | refines `DirTree` |
| `FsVolume` | `Volume`, handles, the lock and the queue of owed calls | |
| `PartDisk` | MBR, GPT and hybrid tables, their edits, writing and reading | |
| `CleanMarker` | the promise of a clean marker (abstract) | |
| `FatDirty` | the clean bit of FAT16/32 over a device with a write cache | refines `CleanMarker` |
| `ExfatDirty` | VolumeDirty, likewise | refines `CleanMarker` |
| `ClusterTable` | one table whose grouped writes are atomic (abstract) | |
| `FatTable` | FAT copies, `unmirrored`, `split`, free count | refines `ClusterTable` |
| `FatChains` | files on cluster chains, and their recovery | extends `ClusterTable` and refines it |
| `BlockStore` | what a driver may take a device for (abstract) | |
| `BlockCache` | the write-back cache of `hadris-storage` | refines `BlockStore` |
| `MCNodeTable`, `MCFatTable`, `MCFatChains`, `MCBlockCache`, `MCFatDir`, `MCExfatFs`, `MCPartDisk` | small instances for TLC | |
| `NodeTableProofs`, `MarkerProofs` (of `FatDirty` and `ExfatDirty`), `FatTableProofs`, `FatChainsProofs`, `FatRecoveryProofs`, `BlockCacheProofs`, `FsVolumeProofs`, `PartDiskProofs` | theorems, section 5 | |

Definitions marked `MUTANT of X` in a comment are plausible wrong versions of
X that the properties must reject. They are used by no specification.

### NodeTable

The state is `Table::nodes` (pins, entry, head, dirty, opens, unlinked per id),
`FatFs::moved`, the interrupted `rename`, the interrupted removal (`pending`
with `Owner::Removed`), and the visible short entries of the directory slots. An
id is a slot and a tag, as `free_id` packs them. A file stands for its contents
and its first cluster, so "the node's head" can be compared with the entry's.
The ghosts `refs` and `opened` count what callers hold. Each public operation is
one action, with its `Busy`, `NoSpace`-like and not-found early returns as
guards; `...Dropped` actions are the same operations cut at a device write, with
every combination of writes that had landed; `FinishRename`,
`FinishRenameDropped` (it can be cut, too), `FinishRemoval` and `DropReserved` are
the parts of `prepare` and `recover`. The remembered rename keeps `committed`,
which it sets once the new entry is complete; its other flags follow from what
has landed. Writing operations require `Ready`: they run `prepare` first. `Close`,
`Fsync` and `Sync` write a dirty node's first cluster into the short entry at the
place the node remembers, whichever file's entry lies there (`FlushNode`,
`Stored`); only `Sync` recovers first.

### FatDirty, ExfatDirty, CleanMarker

The clean bit (the flag) has two values: as read back through the device's cache
and on the medium. `Writeback` moves one to the other at any time, `Flush` is
the device flush, `Crash` drops what is not on the medium. Other writes are data
writes, described only by whether the image is whole, in the middle of an
operation or left unfinished, and whether they are flushed. Every
device call can be cut with or without effect. An operation that was cut is in the
middle until recovery repairs it, and is left unfinished for good when recovery
gives it up as corrupt or the driver goes. The refinement maps the abstract
`claim` to the bit on the medium and `whole` to "every data write is on the
medium and none belongs to an unfinished operation", one that was given up
included. The promise is the
ordering of `begin_write` and `clear_dirty`: the claim is withdrawn on the medium
before it is touched and raised only over a settled one. The two drivers differ
in what giving up does: that of FAT enters `Dirty::Preserve`, that of exFAT forgets
the operation and lets the next sync clear the flag (`RecoverCorrupt` is followed by that
sync in the early step `give_up` only).

### FatTable, ClusterTable

`patch` and `set` write each copy in turn, the active one first; `put_entry` of a
FAT12 entry across two device blocks writes halves (`Torn` is the value in
between). `unmirrored` and `split` record what a cut must complete;
`CompleteSplit`, `MirrorEntry`, `MirrorDone` are the loop of `mirror`, every
iteration of which may be the last before another cut. `free` and `counted`
follow `adjust_free` and `count_free`, starting from an FSInfo hint that may be
wrong. Writers call `prepare`, hence `mirror`, first; `StartWrite` assumes
that. `forget_unmirrored`, which gives up after corruption, is not modelled.

The refinement takes the table to be the active copy in which a half-written
entry has the value that `mirror` will complete it with.

### FatChains

An operation is compiled into the sequence of its device writes when it starts.
This is exact: `&mut self` keeps the state from changing under it. Each write
records what `pending` holds before and after it, and `Issue`, `Land`,
`CutBefore` and `CutAfter` run the sequence. `Recover` is `finish_interrupted`,
which compiles to writes too and can be cut again. `Remount` forgets all memory.
Files are directory slots; sizes are in units of which `ClusterSize` make a
cluster. Growth of empty and non-empty files, through pinned and unpinned ids,
over one or several allocated runs; shrinking across and within clusters;
removal; creation; publication of a dirty size; `forget` of clean nodes.
FAT writes are those of `ClusterTable`: copies, halves and mirroring are covered
by the proof that `FatTable` implements it. The search for free clusters may start
anywhere (`next_free` is abstracted). `Kinds` says whether the FAT may be FAT12,
whose clusters are freed one at a time. Long names, directory slots that move,
and open counts are not in this module.

### BlockCache, BlockStore

The state is `CacheState` (the slots with their block and data, the LRU list, the
dirty set), `Cache::written`, and one request in progress (`CacheOperation`),
because a request borrows the cache. The steps are those of the poll functions
from one device call to the next: hits, the device read of a run of uncached
blocks, evictions, filling and putting blocks, the direct paths of large and
first requests, and the runs of a flush. At every device call the request may be
cut, any subset of the blocks it was writing having reached the device. The
device holds back writes of its own: `dev` is what it returns, `medium` what
survives. `GetMut` changes the device behind the cache, `Discard` is
`into_inner`, `PowerLoss` leaves the medium. Slots forgotten by one call become
the next victims in any order. The blocking `Cache` of `api.rs` takes the
same steps. Growing devices are left out: a write past the end takes the direct
path.

`BlockStore` says that each block on the medium has a value it had since the last
flush that returned Ok. The cache over such a device is such a device again, so
the drivers need not know whether one is there.

### DirTree, FatDir

`DirTree` is the caller's view: a set of entries, each call adds, removes or
moves one; a call that returns Ok has done so, one that fails or is dropped has
done so or nothing, whichever the driver has settled on before the next call.
With `KeepsReplaced` FALSE a rename that fails may also have removed what it was
to replace.

`FatDir` has the slots of every directory cluster (end marker, free, long-name
fragment, short entry, dot entries), the FAT, and what `FatFs` remembers:
`pending`, `run` and `rename`. An operation first reads (`Plan`, `Find`,
`DirIsEmpty`, `IsWithin`), then is a sequence of device writes, each with what is
remembered while it is made and the calls that follow when it fails
(`insert_entry`'s clearing, `ungrow`, `recover`). `Land` makes the next write,
`Fail` makes it fail and `Drop` drops the future, with or without its effect.
`Call` starts the next part of a recovery: `finish_rename`, the run, the pending
clusters; it reads the disk as it is then. `Settle` compares what a walk lists
with the abstract tree. Names are model values that differ in the slots they
take. Files here own no clusters, the dirty mark is in `FatDirty`, and nodes are
in `NodeTable`. The lowest free cluster and file are taken, since they are
interchangeable.

### ExfatFs

The exFAT driver, built the same way. The disk is the entries in the slots of
every directory cluster; a checksum is the entries it sums, so a set is valid
when its File entry was written with exactly the entries that follow it. The FAT
and the bitmap are separate, as on disk: `allocate` and `allocate_run` write
both, freeing touches the bitmap alone and leaves the links, as the code does,
and a contiguous file has no links. `mem` is `pending` (a chain and one more, or
a run, with its `Owner`), `pending_set` (`SetWrite` with the entry to put back),
and the pinned nodes with first cluster, contiguity, size and dirty flag. Device
writes are those of `put_entries`: a run of entries in one device block, in an
instance where a set takes two blocks and may lie in two clusters. Operations:
create, mkdir, unlink, rmdir, rename with growth of the directory and
replacement in the target's slots or elsewhere, write and truncate in both
directions, fsync and close (which do not recover), sync (which recovers and
writes every dirty node), and the recovery of `prepare`. `pinning` says whether
the caller keeps nodes pinned; with it off, every operation works on ids of
`readdir`. Sizes are in clusters; the FAT and the bitmap fit in a device block.
`DirTree` is refined with `KeepsReplaced` FALSE: a replacement dropped after the
target's set was cleared does not bring it back.

### FsVolume

One volume, blocking or async, and the tasks that call it. A task begins a call,
waits for the lock, drains the queue of owed calls (`run_pending`), makes its
driver calls, and gives the lock back; the pins and opens it acquires are held by
guards (`Held`) until a handle takes them over; only the guard made last can
hold an open. The future of a call may be
dropped at every await, the driver may panic in a call, a handle may be dropped
by any task at any time, `into_inner` ends the volume. The driver is external and
is reduced to its counts of pins and opens, as `table.rs` keeps them. The
blocking volume differs where the code does: a poisoned mutex, the drain when the
guard is dropped, the release by the dropping thread when the lock is free.
`Volume::release` takes two steps, as other threads may run between its look at
the flag and its `try_lock`: `DropHandle` looks at the flag, then `ReleaseNow` (the
async volume forgets a listing at once), `ReleaseLocked` (the blocking one takes
the lock) or `ReleaseLater` (the call is queued) follows. The async volume does not
look at the flag again, so a panic in between lets one forget reach the broken
driver, while the documentation says that later calls return "without reaching the
driver" (`volume.rs:117`). That step is part of the model, and `FailedIsQuiet` names it
as its one exception (`LateRelease`).

### PartDisk

A table in memory (`Mbr` with logical partitions, `Gpt`, hybrid) is built,
edited through the checked operations, written and read back. `Runs` is the
sequence of blocks of `Disk::runs`, and a write may stop after any of them;
`Read` is `read_disk` with its choice between the GPT copies and its walk of the
extended boot records. Blocks may decay and the device may grow or shrink
between calls. A CRC is the content it covers. `Safe` says for which writes the
order of the runs suffices, and is the condition of `TableSurvives`; what it
leaves out is in the table below. Reading checks the partitions of a GPT but only
follows the records of an MBR, so an MBR that a cut write outside `Safe` left may
list logical partitions over others; the ghost variable `whole` says whether the
table in memory, or the one on the device, comes from such a write, and
`RunsSparePartitions` speaks of an MBR only if it does not.

### Early steps

Some steps lead to a state that the code's own documentation excludes. They are
guarded by a constant (`Windows`, `Cuts`, `RemountUnflushed`), empty or FALSE in
the passing runs. So the passing runs and the theorems that assume the constant
say: apart from exactly these steps, the property holds. Naming a step in the
configuration explores it, and TLC then reports the property in the table. Two
of them have a run of their own, section 4.

| Module | Step | Effect |
|---|---|---|
| NodeTable | `empty_unlink` | removal of a pinned empty file, cut after the entry is cleared: the node stays live without an entry, `NodesMatchDisk` fails (`fatfs.rs:574`: "the driver's own state stays consistent with the disk" when a future is dropped) |
| NodeTable | `early_lookup` | lookup of either name between an interrupted rename and its recovery: two nodes on one entry, `OneNodePerEntry` fails (same line) |
| NodeTable | `early_open` | open before recovery of an interrupted replacing rename: `OpenIsLinked` fails |
| NodeTable | `early_forget` | the id an interrupted rename remembers is forgotten and reused: `NodesMatchDisk` fails |
| NodeTable | `early_flush` | a replacing rename into the slots of the replaced file is cut in `finish_rename`'s clearing of the old entry (`fatfs.rs:1268`); fsync or close, which do not recover (`1084`, `2719`, `2929`), then write the replaced file's dirty node, its first cluster and size, into the short entry at its place, which is the moved file's (`1550`); `finish_rename` knows that it is committed, clears the old entry and moves the node there: `NodesMatchDisk` fails (`fatfs.rs:574`) |
| FatDirty | `RemountUnflushed` | the driver is dropped inside `begin_write` and the same device, with the bit only in its cache, mounted again: `CleanMeansWhole` fails |
| ExfatDirty | `mark_flush` | the flush after setting the flag fails and is not retried: `MarkerPromise` fails (`exfat/fs.rs:625`: "the medium never holds a clean flag over metadata that has not reached it") |
| ExfatDirty | `clear_write` | the write clearing the flag lands unnoticed: `MarkerPromise` fails |
| ExfatDirty | `mark_write` | the write setting the flag lands unnoticed: `SyncClears` fails |
| ExfatDirty | `remount` | as for FatDirty |
| ExfatDirty | `give_up` | `ExFatFs::recover` gives an operation up as corrupt and forgets it (`exfat/fs.rs:1181`; `FatFs::recover` calls `preserve_dirty`, `fatfs.rs:1223`), and the next sync clears the flag over the half-done operation: `MarkerPromise` fails (`README.md:147` of the crate: volumes "whose interrupted operations encounter unrecoverable corruption, stay dirty") |
| FatTable | `lost_free` | a freeing write lands unnoticed and the free count does not follow: `FullIsFull` fails (`io/fat.rs:384`: NoSpace without scanning once a scan found nothing "and none was freed since") |
| FatTable | `early_count` | statfs counts while an entry is half written: `FullIsFull` fails |
| FatChains | `unpinned_growth` | `fatfs.rs:2860`: the entry of a growth through an unpinned id lands unnoticed while `pending` says `Owner::Tail`, and recovery cuts the chain below the size stored: `SizeWithinChain` fails (`fatfs.rs:585`: "leaves a chain longer than the size; the next writing operation cuts it back") |
| FatChains | `small_shrink` | the entry of a shrink within one cluster lands unnoticed: `NodesAgree` fails |
| FatChains | `empty_unlink` | as in NodeTable |
| FatDir | `slot_landed` | the write of a slot fails though it took effect; it is not counted as written and not cleared: `DirectoriesWhole` fails |
| FatDir | `lost_held` | `ungrow` is cut while it has put the cluster of a new directory aside: `ClustersOwned` fails (`fatfs.rs:1875`: "Another pending chain is kept") |
| FatDir | `uncleared_run` | fragments could not be cleared, and `ungrow` takes away the slot recovery decides from: `DirectoriesWhole` fails |
| ExfatFs | `link_landed` | the FAT write that links a file's new clusters lands unnoticed while the owner is `Cluster`: recovery counts them as owned, `BitmapExact` fails (`exfat/fs.rs:653`: recovery "cuts back a chain a dropped write had grown past the file's size") |
| ExfatFs | `ghost_target` | a replacement is cut when a pinned target's set is gone or the moved set is in its place; recovery does not unlink the target's node: `NodesAgree` fails |
| ExfatFs | `unlinked_target` | a replacement that fails in the target's slots puts the target's set back, but `finish_set` of the failed `Clear` has unlinked its node with the sizes it had not written: `BitmapExact` fails |
| ExfatFs | `early_publish` | fsync or close writes a node before recovery and overwrites `pending_set` (`exfat/fs.rs:1046`, `1577`): `SetsWhole` fails |
| FsVolume | `cut_close` | the future of `File::close` is dropped after the driver ended the open: it is ended twice, `OpenWhileHandleLives` fails (run `fs_volume_cut_close`) |
| FsVolume | `panic_drain` | a panic of an owed call in the async volume gives the lock back before the flag is set, so a waiting task reaches the driver in between: `FailedIsQuiet` fails (`volume.rs:113`: "the volume fails for good") |
| FsVolume | `no_std` | a build without `std`, in which the guard does not set the flag (`volume.rs:181`): every panic of the async volume does so (`volume.rs:124`: it is detected "also without `std`") |
| PartDisk | outside `Safe` | several extended boot records change (run `part_disk_cut_chain`); the primary GPT was damaged when the write began; the backup does not end in the last block, because the image grew without `relocate_backup` or because it moved down and left an older one; the image shrank, and the new backup covers the entries of the old primary: a cut write may show an error, an earlier table or a mixture of records whose logical partitions lie over others |

One disagreement is not a step: the docs of `rename` say a pinned target fails
with `Busy` (`fatfs.rs:2986`); `replace_entry` refuses an open one only, and
that is what `NodeTable` models.

## 3. Passing runs

| Run | Instance | Distinct states | Shows |
|---|---|---|---|
| `node_table` | 3 slots, 2 tags, 2 files, 2 nodes, 2 pins per id, 1 open | 208 945 | pins, ids, nodes and entries stay in step through every operation, cut and recovery |
| `fat_dirty` | 3 FAT copies | 5 324 | the clean bit on the medium is always true; a driver that gave up on corruption never marks clean |
| `exfat_dirty` | | 114 | VolumeDirty is true; sync clears it |
| `fat_table` | 3 clusters, 2 copies, 2 sharing a block, 1 spanning | 914 860 | copies repairable, writes atomic, full means full |
| `fat_chains` | FAT12 and other FATs, 4 clusters in 2 FAT blocks, 2 files up to 4 clusters | 882 256 | no cross link, dangling link, leak or lost data, sizes within chains |
| `fat_dir` | fixed and growing root, 4 clusters of 4 slots, names of 1, 2 and 3 slots, 4 start trees, 2 operations, 2 faults | 353 265 | every call is atomic through its recovery; no entry or cluster is lost, no fragment left |
| `exfat_fs` | 5 clusters of 4 entries in 2 blocks, sets of 3 and 4 entries, 6 start trees, chained and contiguous, nodes pinned or not, 2 operations, 2 faults | 261 475 | sets whole, bitmap exact and nodes true after recovery, allocations safe at every instant, calls atomic |
| `block_cache` | 4 blocks, one with two contents, capacity 3, runs of 2 | 533 146 | reads see writes, no eviction, failure or cut loses a write, a flush is durable |
| `fs_volume` | 2 tasks, 1 node, 3 pins, blocking and async | 120 266 | pins and opens are given back once; a failed driver is left alone; owed calls run; the lock comes free |
| `part_disk` | devices of 10 and 12 blocks, 2 MBR slots, 3 logical partitions, 1 or 2 GPT entries, 3 edits, 2 writes, 1 fault | 459 417 | a written table reads back; it spares its partitions; a cut write shows the old or the new one |

Why these bounds are enough. A rename touches a source, a destination and a
replaced target slot: three slots. Two files are needed to replace one by the
other, and a limit of two nodes makes the table full. Two tags make an id reused
after its slot is taken again. Two pins separate the first and the last forget.
Three copies put a cut first, between and last. Three clusters in
`fat_table` are the cases of a group: alone, shared, spanning. In `fat_chains`
four clusters hold a chain with a first, a middle and a last part plus a second
file, and an allocation that has to take two separate runs; group writes with two
entries to a block split a run across blocks. In
`block_cache` a capacity of three lets a request of two blocks go through the
cache, a miss evict, and a request of three or four go past it; one block with
two contents tells stale data from fresh, the others make it be evicted.

In `fat_dir` and `exfat_fs` two operations let the second one recover the first
and then build on what it left, and two faults let the recovery be cut as well;
the start trees (empty, a full cluster, a last slot free, two files or two
directories to replace one another) put every operation at a boundary of a
cluster at once, and clusters run out. `exfat_fs` has also been run with three
operations and one fault (679 462 states). In `fs_volume` two tasks are a holder
and a waiter, and three pins are what `rename` holds at a time beside a handle.
In `part_disk` the GPT's usable area is three or five blocks, so that every edit
collides, and an extended partition holds three records, so that one has two
neighbours.

Everything is explored exhaustively; `Files` of `FatChains` are interchangeable
and symmetry is used for them.

Deadlock is checked in every run.

The properties, per module:

* `NodeTable`: `PinAccounting`, `OneNodePerEntry`, `NodesMatchDisk`,
  `OpenIsLinked` (invariants), `IdsKeepTheirFile` (action property).
* `FatDirty`: `CleanMeansWhole`, `CleanIsTrue`, `CorruptionRecorded`,
  `MarkerPromise` (refinement). `ExfatDirty`: `SyncClears`, `MarkerPromise`.
* `FatTable`: `CopiesAgree`, `FullIsFull`, `AtomicWrites` (refinement).
* `FatChains`: `ChainsSound`, `SizeWithinChain`, `NoLeak`, `NodesAgree`,
  `DataKept` (action property), `GroupWrites` (refinement).
* `FatDir`: `NeverLost` (at every instant a walk finds what no operation is to
  remove), `ClustersOwned`, `DirectoriesWhole`, `TreeAtomic` (refinement).
* `ExfatFs`: `AllocationsKept` (at every instant), `SetsWhole`, `BitmapExact`,
  `NodesAgree` (with nothing left to recover), `TreeAtomic` (refinement).
* `BlockCache`: `CleanMatchesDevice`, `RequestsAgree`, `NoLostWrites` (action
  property), `StorePromise` (refinement).
* `FsVolume`: `PinsAccounted`, `FailedIsQuiet` (action property), `OwedCallsRun`
  and `LockComesFree` (liveness). `OpenWhileHandleLives` is what a violation run checks.
* `PartDisk`: `WriteRoundTrips`, `RunsSparePartitions`, `TableSurvives`.

Each property of a passing run has a mutant in `PROJECT.json` that violates it. The type invariants
(`TypeOK`) are part of the proofs.

**Fairness.** The drivers, the cache and the partition tables are safety
specifications: none of their code runs on its own, recovery runs inside the next
writing call. `FsVolume` has weak fairness of `Progress(t)` for each task: an
executor polls a task that was woken, a thread runs, the device answers, and a
user drops the guard of `lock`. No task is made to begin a call, so `OwedCallsRun`
is conditional on calls that keep reaching the driver: the code promises no more
(`KNOWN_ISSUES.md` FILE-CLOSE-01). Nothing is assumed of cuts and panics.

## 4. Runs that find a disagreement

| Run | Quoted documentation | What the code does |
|---|---|---|
| `fs_volume_cut_close` | `handle.rs:13`: a file is open while its handle lives | `File::close` keeps its guard until the driver's close returns, and the drivers end the open before their first await: a future dropped in between queues a second close, which ends the open of another file on the node |
| `part_disk_cut_chain` | `disk.rs:190`: "an interrupted write never shows a table whose structures are missing" | extended boot records are written in place from the first to the last: cut after one of them, the chain leads to a record that is not there and reading fails |

The early steps of section 2 are disagreements too, each reproduced by putting
the step's name into the constant of the module's configuration.

## 5. Theorems

All are checked by TLAPS for every value of the constants that satisfies the
named assumptions of the modules.

* `NodeTableProofs!PinsAccounted`: `Spec => []PinAccounting`, for any slots, tags,
  files, limits and any `Windows`: the early steps do not disturb the pins.
  `PinAccounting` is not inductive: whether a `forget` or `mark_unlinked` may
  drop a node depends on its dirty pin and its opens. The invariant `PinInv`
  says that every node is well formed and one without pins is entirely absent
  (`GoodNode`), that a node's pins less its own dirty pin are the callers'
  (`TableInv`), the types of the other variables (`OtherTypes`), and that a file is
  open only through an id some caller holds (`OpenHeld`).
* `NodeTableProofs`, on top of `PinInv`: `OneNodeAtEachEntry`
  (`[]OneNodePerEntry`), `NodesInStep` (`[]NodesMatchDisk`) and `OpenFilesStay`
  (`[]OpenIsLinked`), assuming `Windows = {}`, and `IdsStayWithTheirFile`
  (`IdsKeepTheirFile`) for any `Windows`. `LinkInv` has to say what holds while a
  rename or a removal waits for its recovery: a live node is on the slot its id
  names unless `moved` is set (`Linked`, without it `pinned_at`'s short cut
  would miss a node); with no rename pending only the node of the entry
  that `pending` says is being removed is out of step (`Settled`); with one, the
  entry is under its old name unless the rename is committed and under its new one
  if it is, and the ids it remembers are still the nodes of its two entries
  (`Renaming`). From this follows `FlushKeepsDisk`: apart from the early step, what
  a close, an fsync or a sync writes into the entry at a node's place is what is
  there.
* `MarkerProofs`, of `FatDirty` and assuming `~RemountUnflushed`, for any set of copies:
  `MarkerIsTrue` (`[](TypeOK /\ CleanMeansWhole)`), `CorruptionIsRecorded`
  (`[]CorruptionRecorded`), `CleanStateIsTrue` (`[]CleanIsTrue`) and
  `ImplementsCleanMarker`: `Spec` implements `CleanMarker!Spec`. The invariant
  `MarkerInv` says what each `Dirty` state knows of the bits in the cache and on
  the medium (`Marker`), how far each step of marking and clearing has come
  (`Progress`), that an unmounted device is settled (`Off`), and that unfinished
  work keeps the volume dirty (`Kept`). `CleanMeansWhole` alone does not
  survive `ClearCopy`: it needs that the flush before it has happened and that no
  data write came in between.
* `MarkerProofs`, of `ExfatDirty`: `SyncLeavesNoFlag` (`[]SyncClears`), assuming
  `Cuts = {}`, and `ExfatImplementsCleanMarker` (`MarkerPromise`), assuming that of
  the early cuts only `mark_write` happens. Both assumptions are needed: each
  excluded cut breaks the property, among them the sync after recovery has given
  up. So what the second theorem says of an operation cut half way is that the flag
  stays as long as the driver remembers it. `FlagInv` is built like `MarkerInv`;
  `Synced` adds that since a sync that returned Ok nothing was begun, so that its
  last flush still holds.
* `FatTableProofs!MirrorsRepairable` (`[]CopiesAgree`), `ImplementsClusterTable`
  (`AtomicWrites`) and `FullMeansFull` (`[]FullIsFull`, assuming `Windows = {}`),
  for any number of clusters, copies and any assignment to blocks. `MirrorInv`
  adds to `CopiesAgree` that a torn entry of the active copy is the one `split`
  records (`TornIsKnown`), that a recorded entry is due a mirror and, during a
  write, is the one being written (`SplitInv`), and that copies already written
  hold the patch while nothing outside it differs (`WriteInv`). `FullMeansFull`
  rests on `CountInv`: a count made by a scan is not below the number of free
  clusters, where a half-written entry counts as what it was before.
* `FatChainsProofs!ChainsAreSound` (`[](TypeOK /\ ChainsSound)`) and
  `WritesAreGrouped` (`GroupWrites`: the writes of the chains are those that
  `FatTableProofs` shows to happen at once), for any number of clusters and files,
  any assignment to blocks, both kinds of FAT and any `Windows`: the early steps
  of section 2 spoil sizes and nodes, never the chains. `ChainsSound` says nothing
  of the writes an operation has left, so the invariant `ChainInv` does: `Runs`
  says that each write of `steps` is `Safe` in the state that those before it
  lead to, which means that the disk fits `pending` before the write, after it
  while `pending` is still the old one, and after it succeeded. "Fits" (`Good`) is
  that chains are sound (`Sound`), that at most the owner links the pending
  clusters, or the extra chain leads to the head (`PendOK`: so that recovery
  frees what nobody links), and that a pinned node has its entry's first
  cluster unless recovery will give it that (`NodeFits`: so that the next
  operation does not start from a freed chain). One lemma per operation shows
  that its plan runs (`AllocateRuns`, `FreeChainRuns`, `CreateRuns`, `UnlinkRuns`,
  `GrowRuns`, `ShrinkRuns`, `FlushRuns`, `RecoverRuns`); the actions then only take
  a write off the plan (`LandKeeps`) or drop the rest of it (`CutBeforeKeeps`,
  `CutAfterKeeps`). What the recursive `Chain` returns is proved by the least
  element of a set of counterexamples (`ChainIsPath`): a path that ends where
  the table does.
* `FatRecoveryProofs!NothingLeaks` (`[]NoLeak`), for the same values and any
  `Windows`: the early steps leave no cluster behind either. `NoLeak` speaks of
  states with nothing pending only and so says nothing of what recovery will
  find. `SpaceInv` adds to `ChainInv` that every cluster in use is reached from the
  files' first clusters and the pending head and extra cluster, or was lost at
  the mount (`Covered`, stated without paths: it is in every set with those
  clusters that the links do not leave), that the extra chain leads to the head
  when both are in use (`Joined`: recovery frees the extra chain first and looks
  for what is left of the head's), and that the files alone are enough where
  recovery will free nothing (`Settled`: a shrink that the entry does not record,
  or will not once its dirty node is written, and an owner that has the chain).
  The three are `Snug`, and a step is `Tight` when `Snug` holds before its write,
  after it unnoticed and after it noticed. `Goes` composes plans of tight steps
  as `Runs` does safe ones, with a lemma per operation (`AllocatesTight`,
  `FreesTight`, `CreateTight`, `UnlinkTight`, `ShrinkTight`, `FlushTight`,
  `GrowTight`, `RecoverTight`); freeing and allocating keep the cover because what
  is freed is freed from its start and what is linked is linked from its end.
* `FatRecoveryProofs!SizesHold` (`[]SizeWithinChain`), `NodesStayInStep`
  (`[]NodesAgree`) and `DataStays` (`DataKept`), for the same values and assuming
  `Windows = {}`: each early step of `FatChains` in section 2 breaks one of the
  first two. `NodesAgree` says nothing of states with something pending, and
  `SizeWithinChain` nothing of the sizes that a dirty node has yet to write, so
  neither is inductive. `SizeInv` adds to `ChainInv` that the disk is `Fit`: every
  chain holds the size in its entry and the one that flushing its node would
  write (`Holds`, `Sizes`), also once recovery has cut the pending chain off
  (`Severed`, `CutAt`; not for the file whose node recovery cuts as well,
  `Cutters`), a dirty node does not carry the size of the shrink that was
  interrupted, and each node has what its entry has (`InStep`) or is one that
  recovery mends (`Mends`). With nothing pending this amounts to the two properties
  (`Steady`). A step is `Fitting` when `Fit` holds before its write, after it
  unnoticed unless it is one of the early steps (`Late`), and after it noticed,
  and when it takes nothing from what files keep (`Saves`). `SizeInv` says that the
  plan left goes by such steps, with one lemma per operation (`AllocatesFit`,
  `FreesFit`, `CreateFit`, `UnlinkFit`, `ShrinkFit`, `FlushFit`, `PublishFit`,
  `GrowFit`, `ReclaimFit`, `RecoverFit`). How long a chain is, and where two of them
  agree, is shown on paths (`HoldsChain`, `PathsAgree`), by a least counterexample.
* `BlockCacheProofs`, for any number of blocks, capacity, run length and contents:
  `CleanIsOnDevice` (`[]CleanMatchesDevice`), `RequestsSeeTheCache`
  (`[]RequestsAgree`), `WritesAreKept` (`NoLostWrites`) and `ImplementsBlockStore`
  (`StorePromise`). `CacheInv` adds to the first two that no block has two slots
  (`OneSlot`), what each phase of a request has in hand (`OpOK`: the blocks a read
  has fetched are uncached, and the device has not changed, until they are filled
  in; a write past the cache meets no cached copy), and that every value the
  cache shows, the device returns or the medium holds is one the block had since
  the last flush (`Recorded`). Without `OpOK`, `Fill` could cache a stale block.
  Of the LRU list the proofs need only that a victim is a slot.
* `FsVolumeProofs`, assuming `Windows = {}`, which leaves out builds without `std`, for
  any tasks, nodes and finite set of pins: `PinsStayAccounted` (`[]PinsAccounted`)
  and `BrokenDriverIsQuiet` (`FailedIsQuiet`, with its exception of a late release). `VolumeInv` is `LockInv` (a task inside a call has the lock; a
  broken driver is in the hands of the unwinding task until the volume has
  failed) and, while the driver is whole, `Account`: the guards of a task hold
  pins of their own and only the one being truncated has an open (`HoldOK`), no
  two tasks use one handle (`UsesOK`), and the queue has at most a close and then
  a forget of a pin, the close exactly if it is open (`QueueOK`). Of a broken driver
  it keeps the counts of pins and opens (`Counts`), which a late release still changes.
  `PinsAccounted` is not inductive: it counts pins without saying who will give
  them back, so a second forget of one pin would not contradict it beforehand.
  Nothing is assumed of the order in which tasks run, and the fairness of
  `Spec` is not used.
* `PartDiskProofs`, for any sizes of the device, slots, alignments and limits:
  `WrittenTableIsRead` (`[]WriteRoundTrips`), `CutWriteShowsATable`
  (`[]TableSurvives`) and `TableSparesPartitions` (`[]RunsSparePartitions`). `IInv`
  says which devices only this library wrote (`DiskOK`), which tables can be in
  memory (`TableOK`, and `MemOK`: the partitions of an MBR are apart unless it was
  read behind an unsafe cut), that after a write that returned all its blocks are on
  the device (`DoneOK`), and that during one the first `k` blocks of the table are
  over some earlier device, whose partitions `job.shows` holds (`WriteOK`). None of the
  properties is inductive: each speaks of what reading finds, and a write in progress
  is read only once it stops. The lemmas say what reading finds on a device with the
  blocks of a table (`WalkFindsAll` for the chain of extended boot records, `MbrReads`
  and those of the two GPT copies), with a part of them, and after the device was cut
  or grown (`FollowTrimmed`); that each edit and each layout gives a legal table whose
  partitions are apart (`MbrEditsKeep`, `BuildMbrIs`); and where the blocks of a table
  lie (`GptLbas`). Induction along the chain and over a layout is again by a least
  counterexample (`LeastNatural`).

The refinement theorems take the mapped initial predicate and `[Next]_vars` step
by step, one lemma per action where the step is not obvious.

Only model-checked:

* `OwedCallsRun` and `LockComesFree`: liveness is out of the prover's reach.
* `FatDir` and `ExfatFs`: their operations are compiled by walks over chains and
  slots (`Chain`, `Find`, `Plan`). The provers cannot instantiate the induction
  theorems with an operator; an argument by the least element of a set of
  naturals (`LeastNatural`) takes their place in `BlockCacheProofs`,
  `FatChainsProofs` and `PartDiskProofs`, walk by walk, and has not been made for these.

## 6. Not modelled, and the plan

Next, in this order:

1. Proofs: `NeverLost` of `FatDir`, `AllocationsKept` of `ExfatFs`.
2. `ReadAhead`: the two windows of `hadris-storage` as a second refinement of
   `BlockStore`: no window survives a write, failed or not, that it overlaps.
3. The driver's caches (chain positions, metadata blocks, the directory index)
   composed with `FatDir`.
4. ISO session order: what a cut append or rewrite leaves.
5. Of exFAT: renames that change the case only, `setattr`, labels and the serial,
   vendor allocations, the second FAT and bitmap of TexFAT, `ValidDataLength`,
   directories without clusters. Of FAT: labels, `setattr`, files with clusters in
   `FatDir`.
6. Path resolution and `create_dir_all` against a reference definition; the
   layout arithmetic of mkfs.

Left out on purpose: byte formats (boot sectors, dates, names, checksums), which
have no state and their own tests; read-only NTFS, APFS, UDF and ISO readers;
cryptography; the CLI; the error types and the macros that expand one source to
blocking and `async` code (both have the same states: blocking code can only be
cut by errors). Power loss inside a FAT operation leaves what
`KNOWN_ISSUES.md` (NF-CRASH-01) records; the models cover what is left in memory
and on the device after a cut, and for power loss the marker only.

## 7. Running

    tlc -workers 2 -config NodeTable.cfg MCNodeTable
    tlc -workers 2 -config FatDirty.cfg FatDirty
    tlc -workers 2 -config ExfatDirty.cfg ExfatDirty
    tlc -workers 2 -config FatTable.cfg MCFatTable
    tlc -workers 2 -config FatChains.cfg MCFatChains
    tlc -workers 2 -config FatDir.cfg MCFatDir
    tlc -workers 2 -config ExfatFs.cfg MCExfatFs
    tlc -workers 2 -config BlockCache.cfg MCBlockCache
    tlc -workers 2 -config FsVolume.cfg FsVolume
    tlc -workers 2 -config PartDisk.cfg MCPartDisk
    tlc -workers 2 -config FsVolume_cut_close.cfg FsVolume
    tlc -workers 2 -config PartDisk_cut_chain.cfg MCPartDisk
    tlapm NodeTableProofs.tla
    tlapm MarkerProofs.tla
    tlapm FatTableProofs.tla
    tlapm FatChainsProofs.tla
    tlapm FatRecoveryProofs.tla
    tlapm BlockCacheProofs.tla
    tlapm FsVolumeProofs.tla
    tlapm PartDiskProofs.tla
