----------------------------- MODULE ExfatDirty -----------------------------
(***************************************************************************)
(* VolumeDirty of exFAT volumes (hadris-fat-raw exfat/io/volume.rs:        *)
(* begin_write, write_flags, clear_dirty, and ExFat::dirty in io/mod.rs),  *)
(* with the operations of ExFatFs that use it.  As in FatDirty the device  *)
(* has a write cache, every other write is a data write, and a device call *)
(* may fail, or the future waiting for it be dropped, before or after it   *)
(* took effect.                                                            *)
(***************************************************************************)
CONSTANT Cuts   \* device calls that may be cut short, see AllCuts

(***************************************************************************)
(* Cuts after which the driver's Dirty and the flag disagree:              *)
(*   "mark_write":  setting the flag, when it took effect;                 *)
(*   "mark_flush":  the flush after setting it, when it had no effect;     *)
(*   "clear_write": clearing the flag, when it took effect;                *)
(*   "remount":     the driver is dropped and the device remounted while   *)
(*                  the flag is in the device's cache only;                *)
(* and the sync that does not know what was cut before it:                 *)
(*   "give_up":     recover gave up a cut operation as corrupt, and sync   *)
(*                  clears the flag this driver set for it.                *)
(***************************************************************************)
AllCuts == {"mark_write", "mark_flush", "clear_write", "remount", "give_up"}

ASSUME CutsAssumption == Cuts \subseteq AllCuts

VARIABLES
    mounted,   \* an ExFatFs exists
    dirty,     \* ExFat::dirty
    readOnly,  \* ExFatFs::read_only
    op,        \* the device call in progress
    vflag,     \* VolumeDirty as read back from the device
    dflag,     \* VolumeDirty on the medium
    image,     \* "whole", "middle" of an operation, or "left" unfinished by
               \* a driver that is gone or a recovery that gave up
    flushed,   \* every data write is on the medium
    synced     \* ghost: a sync returned Ok and no write was begun since

driver == <<mounted, dirty, readOnly>>
flags == <<vflag, dflag>>
data == <<image, flushed>>
vars == <<driver, op, flags, data, synced>>

Init ==
    /\ mounted = FALSE /\ dirty = "Clean" /\ readOnly = FALSE /\ op = "none"
    /\ vflag \in BOOLEAN /\ dflag = vflag
    /\ image \in {"whole", "left"} /\ flushed = TRUE
    /\ image = "left" => vflag
    /\ synced = FALSE

-----------------------------------------------------------------------------
Idle == mounted /\ op = "none"
Writable == Idle /\ ~readOnly

\* ExFat::new
Mount ==
    /\ ~mounted
    /\ mounted' = TRUE
    /\ dirty' = IF vflag THEN "Inherited" ELSE "Clean"
    /\ readOnly' \in BOOLEAN
    /\ UNCHANGED <<op, flags, data, synced>>

BeginWrite ==
    /\ Writable /\ dirty = "Clean"
    /\ op' = "mark" /\ synced' = FALSE
    /\ UNCHANGED <<driver, flags, data>>

PutFlag(value) == vflag' = value /\ UNCHANGED dflag
Flush == dflag' = vflag /\ vflag' = vflag /\ flushed' = TRUE /\ image' = image

\* begin_write is past its write before it flushes.
MarkFlag ==
    /\ op = "mark"
    /\ PutFlag(TRUE)
    /\ dirty' = "Marked" /\ op' = "markFlush"
    /\ UNCHANGED <<mounted, readOnly, data, synced>>

\* MUTANT of MarkFlush: no flush between the flag and the first write.
MarkUnflushed ==
    /\ op = "markFlush" /\ op' = "none"
    /\ UNCHANGED <<driver, flags, data, synced>>

MarkFlush ==
    /\ op = "markFlush"
    /\ Flush
    /\ op' = "none"
    /\ UNCHANGED <<driver, synced>>

\* A write after a begin_write that returned Ok: of a driver that is marked
\* or found the volume marked.
DataWrite ==
    /\ Writable /\ dirty # "Clean"
    /\ flushed' = FALSE /\ synced' = FALSE
    /\ image' \in IF image = "left" THEN {"left"} ELSE {"whole", "middle"}
    /\ UNCHANGED <<driver, op, flags>>

\* recover gives up what it cannot finish because the volume is corrupt, and
\* keeps nothing that would tell sync of it.
RecoverCorrupt ==
    /\ Writable /\ image = "middle"
    /\ image' = "left"
    /\ UNCHANGED <<driver, op, flags, flushed, synced>>

\* clear_dirty has work to do when this driver set the flag.
ClearDirty == IF dirty = "Marked" THEN "flush" ELSE "lastFlush"

\* sync, once recover and the pending sizes are done: PercentInUse is
\* written when this driver changed the bitmap since it last was.
Sync ==
    /\ Writable /\ image # "middle"
    /\ image = "left" /\ dirty = "Marked" => "give_up" \in Cuts
    /\ op' \in {ClearDirty} \cup {o \in {"percent"} : dirty # "Clean"}
    /\ UNCHANGED <<driver, flags, data, synced>>

WritePercent ==
    /\ op = "percent"
    /\ op' = ClearDirty
    /\ flushed' = FALSE /\ synced' = FALSE
    /\ UNCHANGED <<driver, flags, image>>

\* sync found a node it cannot write: the flag stays.
SyncCorrupt ==
    /\ Writable /\ image # "middle"
    /\ op' = "errFlush"
    /\ UNCHANGED <<driver, flags, data, synced>>

\* fsync, once the node's sizes are written: it neither recovers nor clears.
Fsync ==
    /\ Writable
    /\ op' = "fsync"
    /\ UNCHANGED <<driver, flags, data, synced>>

ClearFlush ==
    /\ op = "flush"
    /\ Flush
    /\ op' = "clear"
    /\ UNCHANGED <<driver, synced>>

\* MUTANT of ClearFlag: the state is updated and the flag is not.
ClearNothing ==
    /\ op = "clear"
    /\ dirty' = "Clean" /\ op' = "lastFlush"
    /\ UNCHANGED <<mounted, readOnly, flags, data, synced>>

ClearFlag ==
    /\ op = "clear"
    /\ PutFlag(FALSE)
    /\ dirty' = "Clean" /\ op' = "lastFlush"
    /\ UNCHANGED <<mounted, readOnly, data, synced>>

\* The flush_device that ends a sync or an fsync.
LastFlush ==
    /\ op \in {"lastFlush", "errFlush", "fsync"}
    /\ Flush
    /\ op' = "none"
    /\ synced' = (op = "lastFlush" \/ (synced /\ op = "fsync"))
    /\ UNCHANGED driver

-----------------------------------------------------------------------------
Flushes == {"markFlush", "flush", "lastFlush", "errFlush", "fsync"}

\* The device call in progress took effect and its caller never learned.
CutAfter ==
    /\ op # "none"
    /\ op = "mark" => "mark_write" \in Cuts
    /\ op = "clear" => "clear_write" \in Cuts
    /\ vflag' = (op = "mark" \/ (vflag /\ op # "clear"))
    /\ dflag' = IF op \in Flushes THEN vflag ELSE dflag
    /\ flushed' = (op \in Flushes \/ (flushed /\ op # "percent"))
    /\ synced' = (synced /\ op # "percent")
    /\ op' = "none"
    /\ UNCHANGED <<driver, image>>

\* The device call in progress had no effect.
CutBefore ==
    /\ op # "none"
    /\ op = "markFlush" => "mark_flush" \in Cuts
    /\ op' = "none"
    /\ UNCHANGED <<driver, flags, data, synced>>

\* The device refuses a write, or a flush: note_refusal.
Refuse ==
    /\ mounted /\ ~readOnly
    /\ op = "none" => dirty # "Clean"
    /\ readOnly' = TRUE /\ op' = "none"
    /\ UNCHANGED <<mounted, dirty, flags, data, synced>>

\* ExFatFs::mark_clean, called as its docs ask after a check found no error.
MarkClean ==
    /\ Writable /\ image = "whole"
    /\ dirty' = IF dirty = "Inherited" THEN "Marked" ELSE dirty
    /\ synced' = FALSE
    /\ UNCHANGED <<mounted, readOnly, op, flags, data>>

Drop ==
    /\ Idle
    /\ vflag = dflag \/ "remount" \in Cuts
    /\ mounted' = FALSE /\ synced' = FALSE
    /\ image' = IF image = "middle" THEN "left" ELSE image
    /\ UNCHANGED <<dirty, readOnly, op, flags, flushed>>

Writeback == dflag' = vflag /\ UNCHANGED <<driver, op, vflag, data, synced>>

Crash ==
    /\ mounted' = FALSE /\ op' = "none" /\ synced' = FALSE
    /\ vflag' = dflag
    /\ image' \in IF flushed /\ image # "middle" THEN {image}
                  ELSE IF image = "left" THEN {"left"}
                  ELSE {"whole", "left"}
    /\ flushed' = TRUE
    /\ UNCHANGED <<dirty, readOnly, dflag>>

\* The medium holds every write, and no operation that was cut short.
MediumWhole == flushed /\ image = "whole"

\* Another system repairs the volume while it is not mounted, and marks it
\* clean once it has.
Repair ==
    /\ ~mounted /\ vflag /\ dflag
    /\ image' = "whole" /\ flushed' = TRUE
    /\ UNCHANGED <<driver, op, flags, synced>>

RepairMark ==
    /\ ~mounted /\ MediumWhole
    /\ vflag' = FALSE /\ dflag' = FALSE
    /\ UNCHANGED <<driver, op, data, synced>>

Next ==
    \/ Mount \/ BeginWrite \/ MarkFlag \/ MarkFlush \/ DataWrite
    \/ RecoverCorrupt \/ Sync \/ WritePercent \/ SyncCorrupt \/ Fsync \/ ClearFlush
    \/ ClearFlag \/ LastFlush \/ MarkClean \/ CutAfter \/ CutBefore \/ Refuse
    \/ Drop \/ Writeback \/ Crash \/ Repair \/ RepairMark

Spec == Init /\ [][Next]_vars

-----------------------------------------------------------------------------
TypeOK ==
    /\ mounted \in BOOLEAN /\ dirty \in {"Clean", "Marked", "Inherited"}
    /\ readOnly \in BOOLEAN
    /\ op \in {"none", "mark", "markFlush", "percent", "flush", "clear", "lastFlush",
              "errFlush", "fsync"}
    /\ vflag \in BOOLEAN /\ dflag \in BOOLEAN
    /\ image \in {"whole", "middle", "left"}
    /\ flushed \in BOOLEAN /\ synced \in BOOLEAN

\* After a sync that returned Ok, the medium does not carry a flag that
\* this driver set: the volume does not come up dirty at the next mount.
SyncClears == synced /\ dirty # "Inherited" => ~dflag

\* "The medium never holds a clean flag over metadata that has not reached
\* it" (docs of ExFatFs), nor over an operation that was cut half way and is
\* not finished: begin_write flushes the flag first and clear_dirty flushes
\* what it covered.  Step by step, that is the marker's promise.  The sync
\* after a recovery that gave up breaks it, and is among AllCuts ("give_up").
Promise == INSTANCE CleanMarker WITH claim <- ~dflag, whole <- MediumWhole
MarkerPromise == Promise!Spec
=============================================================================
