------------------------------ MODULE FatDirty ------------------------------
(***************************************************************************)
(* The clean bit of FAT16/32 volumes (hadris-fat-raw io/fat.rs: read_fat,  *)
(* begin_write, clear_dirty, write_clean_bit, and Fat::dirty/keep_dirty in *)
(* io/mod.rs), with the operations of the driver that use it (FatFs::mount,*)
(* sync, mark_clean, recover, into_inner).                                 *)
(*                                                                         *)
(* The device has a write cache: a write reaches the medium at a flush or  *)
(* whenever the device likes.  vbit is the clean bit of each FAT copy as   *)
(* the device answers reads, dbit as the medium holds it.  Every write     *)
(* other than of the clean bit is a "data write"; `image` is what those    *)
(* writes amount to and `flushed` whether all of them are on the medium.   *)
(* A begin_write, clear_dirty or flush in progress is `op`; it may fail or *)
(* its future be dropped at any device call, which may have taken effect.  *)
(***************************************************************************)
CONSTANTS
    Copies,            \* FAT copies that writes are mirrored to
    Active,            \* the FAT copy that is read
    RemountUnflushed   \* whether the device is remounted with a marker in
                       \* its write cache that is not on the medium

ASSUME CopiesAssumption == Active \in Copies
ASSUME RemountAssumption == RemountUnflushed \in BOOLEAN

VARIABLES
    mounted,   \* a FatFs exists
    dirty,     \* Fat::dirty
    keep,      \* Fat::keep_dirty
    readOnly,  \* FatFs::read_only
    op,        \* the device call begin_write or clear_dirty is at
    todo,      \* copies write_clean_bit has not done yet
    forSync,   \* begin_write was called by clear_dirty
    vbit,      \* the clean bit of each copy, as read back from the device
    dbit,      \* the clean bit of each copy on the medium
    image,     \* "whole", "middle" of an operation, or "left" unfinished
    flushed    \* every data write is on the medium

driver == <<mounted, dirty, keep, readOnly>>
task == <<op, todo, forSync>>
bits == <<vbit, dbit>>
data == <<image, flushed>>
vars == <<driver, task, bits, data>>

DirtyStates == {"Clean", "Marking", "Marked", "Clearing", "Preserve"}
Ops == {"none", "mark", "markFlush", "flush", "clear", "clearFlush"}
Images == {"whole", "middle", "left"}

\* A volume in good order, with its clean bit set or, after someone else
\* stopped half way, clear.
Init ==
    /\ mounted = FALSE /\ dirty = "Clean" /\ keep = FALSE /\ readOnly = FALSE
    /\ op = "none" /\ todo = {} /\ forSync = FALSE
    /\ vbit \in [Copies -> BOOLEAN] /\ dbit = vbit
    /\ image \in {"whole", "left"} /\ flushed = TRUE
    /\ vbit[Active] => image = "whole"

-----------------------------------------------------------------------------
\* The medium holds every write and no unfinished operation.
MediumWhole == flushed /\ image = "whole"

Idle == mounted /\ op = "none"
Writable == Idle /\ ~readOnly

\* MUTANT of Mount: any copy's bit is taken for the volume's.
MountAnyCopy ==
    /\ ~mounted
    /\ mounted' = TRUE
    /\ dirty' = IF \E c \in Copies : vbit[c] THEN "Clean" ELSE "Preserve"
    /\ keep' = (\A c \in Copies : ~vbit[c])
    /\ readOnly' = FALSE
    /\ UNCHANGED <<task, bits, data>>

\* read_fat: the clean bit of the active copy decides.  The options and the
\* device decide whether the mount is read-only.
Mount ==
    /\ ~mounted
    /\ mounted' = TRUE
    /\ dirty' = IF vbit[Active] THEN "Clean" ELSE "Preserve"
    /\ keep' = ~vbit[Active]
    /\ readOnly' \in BOOLEAN
    /\ UNCHANGED <<task, bits, data>>

\* What begin_write has to do before it returns.
NeedsMark == dirty \notin {"Marked", "Preserve"}

StartMark(sync) ==
    /\ dirty' = "Marking"
    /\ op' = "mark" /\ todo' = Copies /\ forSync' = sync

BeginWrite ==
    /\ Writable /\ NeedsMark
    /\ StartMark(FALSE)
    /\ UNCHANGED <<mounted, keep, readOnly, bits, data>>

\* write_clean_bit starts with the active copy.
NextCopy(c) == c \in todo /\ (Active \in todo => c = Active)

PutBit(value) ==
    \E c \in todo :
        /\ NextCopy(c)
        /\ vbit' = [vbit EXCEPT ![c] = value]
        /\ todo' = todo \ {c}
        /\ dbit' = dbit

Flush == dbit' = vbit /\ vbit' = vbit /\ flushed' = TRUE /\ image' = image

MarkCopy ==
    /\ op = "mark"
    /\ PutBit(FALSE)
    /\ op' = IF todo' = {} THEN "markFlush" ELSE "mark"
    /\ UNCHANGED <<driver, forSync, data>>

\* MUTANT of MarkFlush: the marker is not flushed.
MarkUnflushed ==
    /\ op = "markFlush"
    /\ dirty' = IF forSync THEN "Preserve" ELSE "Marked"
    /\ op' = "none" /\ UNCHANGED <<todo, forSync>>
    /\ UNCHANGED <<mounted, keep, readOnly, bits, data>>

MarkFlush ==
    /\ op = "markFlush"
    /\ Flush
    /\ dirty' = IF forSync THEN "Preserve" ELSE "Marked"
    /\ op' = "none" /\ UNCHANGED <<todo, forSync>>
    /\ UNCHANGED <<mounted, keep, readOnly>>

\* MUTANT of DataWrite: a write path without begin_write.
DataWriteUnmarked ==
    /\ Writable
    /\ flushed' = FALSE
    /\ image' \in IF image = "left" THEN {"left"} ELSE {"whole", "middle"}
    /\ UNCHANGED <<driver, task, bits>>

\* A write of the FAT, a directory or a file, which comes after a
\* begin_write that returned Ok.  It is the last write of its operation or
\* of the recovery of an earlier one, or it is not.
DataWrite ==
    /\ Writable /\ ~NeedsMark
    /\ flushed' = FALSE
    /\ image' \in IF image = "left" THEN {"left"} ELSE {"whole", "middle"}
    /\ UNCHANGED <<driver, task, bits>>

\* MUTANT of RecoverCorrupt: preserve_dirty takes the marker for written.
RecoverPreserves ==
    /\ Writable
    /\ keep' = TRUE /\ dirty' = "Preserve"
    /\ image' = IF image = "middle" THEN "left" ELSE image
    /\ UNCHANGED <<mounted, readOnly, task, bits, flushed>>

\* recover finds corruption, its own or older, drops what it cannot finish
\* and calls preserve_dirty.
RecoverCorrupt ==
    /\ Writable
    /\ keep' = TRUE
    /\ image' = IF image = "middle" THEN "left" ELSE image
    /\ UNCHANGED <<mounted, dirty, readOnly, task, bits, flushed>>

\* sync, once recover, the pending sizes and FSInfo are written.
Sync ==
    /\ Writable /\ image # "middle"
    /\ op' = "flush"
    /\ UNCHANGED <<driver, todo, forSync, bits, data>>

\* clear_dirty after its first flush.
SyncFlush ==
    /\ op = "flush"
    /\ Flush
    /\ \/ /\ keep /\ NeedsMark
          /\ StartMark(TRUE)
       \/ /\ keep /\ ~NeedsMark
          /\ dirty' = "Preserve" /\ op' = "none" /\ UNCHANGED <<todo, forSync>>
       \/ /\ ~keep /\ dirty \in {"Marking", "Marked", "Clearing"}
          /\ dirty' = "Clearing"
          /\ op' = "clear" /\ todo' = Copies /\ UNCHANGED forSync
       \/ /\ ~keep /\ dirty \in {"Clean", "Preserve"}
          /\ op' = "none" /\ UNCHANGED <<dirty, todo, forSync>>
    /\ UNCHANGED <<mounted, keep, readOnly>>

ClearCopy ==
    /\ op = "clear"
    /\ PutBit(TRUE)
    /\ op' = IF todo' = {} THEN "clearFlush" ELSE "clear"
    /\ UNCHANGED <<driver, forSync, data>>

ClearFlush ==
    /\ op = "clearFlush"
    /\ Flush
    /\ dirty' = "Clean"
    /\ op' = "none" /\ UNCHANGED <<todo, forSync>>
    /\ UNCHANGED <<mounted, keep, readOnly>>

-----------------------------------------------------------------------------
\* The device call in progress fails or its future is dropped, after it
\* took effect or before.
Interrupt ==
    /\ op # "none"
    /\ \/ op = "mark" /\ PutBit(FALSE) /\ UNCHANGED data
       \/ op = "clear" /\ PutBit(TRUE) /\ UNCHANGED data
       \/ op \in {"markFlush", "flush", "clearFlush"} /\ Flush /\ UNCHANGED todo
       \/ UNCHANGED <<todo, bits, data>>
    /\ op' = "none"
    /\ UNCHANGED <<driver, forSync>>

\* The device refuses a write, or a flush: FatFs::note.
Refuse ==
    /\ mounted /\ ~readOnly
    /\ op = "none" => ~NeedsMark
    /\ readOnly' = TRUE /\ op' = "none"
    /\ UNCHANGED <<mounted, dirty, keep, todo, forSync, bits, data>>

\* FatFs::mark_clean, called as its docs ask after a check found no error.
MarkClean ==
    /\ Writable /\ image = "whole"
    /\ keep' = FALSE
    /\ dirty' = IF dirty = "Preserve" THEN "Marked" ELSE dirty
    /\ UNCHANGED <<mounted, readOnly, task, bits, data>>

\* The driver is dropped, or into_inner takes the device back.
Drop ==
    /\ Idle
    /\ RemountUnflushed \/ vbit = dbit
    /\ mounted' = FALSE
    /\ image' = IF image = "middle" THEN "left" ELSE image
    /\ UNCHANGED <<dirty, keep, readOnly, task, bits, flushed>>

\* The device writes back a copy's bit on its own.
Writeback ==
    /\ \E c \in Copies : dbit' = [dbit EXCEPT ![c] = vbit[c]]
    /\ UNCHANGED <<driver, task, vbit, data>>

\* Power loss: what the device had not written back is gone.  Data writes
\* reach the medium in any part.
Crash ==
    /\ mounted' = FALSE /\ op' = "none"
    /\ vbit' = dbit
    /\ image' \in IF image = "whole" /\ flushed THEN {"whole"}
                  ELSE IF image = "left" THEN {"left"} ELSE {"whole", "left"}
    /\ flushed' = TRUE
    /\ UNCHANGED <<dirty, keep, readOnly, todo, forSync, dbit>>

\* Another system repairs the volume while it is not mounted, and marks it
\* clean once it has.
Repair ==
    /\ ~mounted /\ ~vbit[Active] /\ ~dbit[Active]
    /\ image' = "whole" /\ flushed' = TRUE
    /\ UNCHANGED <<driver, task, bits>>

RepairMark ==
    /\ ~mounted /\ MediumWhole
    /\ vbit' = [c \in Copies |-> TRUE] /\ dbit' = vbit'
    /\ UNCHANGED <<driver, task, data>>

Next ==
    \/ Mount \/ BeginWrite \/ MarkCopy \/ MarkFlush \/ DataWrite
    \/ RecoverCorrupt \/ Sync \/ SyncFlush \/ ClearCopy \/ ClearFlush
    \/ MarkClean \/ Interrupt \/ Refuse \/ Drop \/ Writeback \/ Crash
    \/ Repair \/ RepairMark

Spec == Init /\ [][Next]_vars

-----------------------------------------------------------------------------
TypeOK ==
    /\ mounted \in BOOLEAN /\ dirty \in DirtyStates
    /\ keep \in BOOLEAN /\ readOnly \in BOOLEAN
    /\ op \in Ops /\ todo \subseteq Copies /\ forSync \in BOOLEAN
    /\ vbit \in [Copies -> BOOLEAN] /\ dbit \in [Copies -> BOOLEAN]
    /\ image \in Images /\ flushed \in BOOLEAN

\* The medium never says clean over a write that has not reached it or an
\* operation that is not finished, at whichever device call a begin_write
\* or a sync was cut and however the device orders its write-backs: the
\* reason begin_write flushes before it returns and clear_dirty before it
\* sets the bit.
CleanMeansWhole == dbit[Active] => MediumWhole

\* Corruption that recovery found, or that mount found, is on the medium's
\* marker once clear_dirty has seen it (Dirty::Preserve).
CorruptionRecorded == mounted /\ dirty = "Preserve" => ~dbit[Active] /\ ~vbit[Active]

\* A mount never takes an unfinished operation for a clean volume, and a
\* sync that ends in Dirty::Clean leaves a medium that says so: no cut of
\* marking or clearing makes the driver forget which of the two it owes.
CleanIsTrue == mounted /\ dirty = "Clean" => MediumWhole /\ dbit[Active]

\* The driver implements the marker's promise.
Promise == INSTANCE CleanMarker WITH claim <- dbit[Active], whole <- MediumWhole
MarkerPromise == Promise!Spec
=============================================================================
