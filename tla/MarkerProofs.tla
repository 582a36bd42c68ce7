--------------------------- MODULE MarkerProofs ---------------------------
(***************************************************************************)
(* The dirty markers tell the truth: of FAT, for every number of copies,   *)
(* the invariants of FatDirty and its refinement of CleanMarker, provided  *)
(* the device is not remounted with a marker in its cache only; of exFAT,  *)
(* ExfatDirty!SyncClears and the same refinement, without the cuts each    *)
(* theorem excludes.                                                       *)
(***************************************************************************)
EXTENDS FatDirty, TLAPS

\* What ExfatDirty has beside the state the two modules name alike.
CONSTANT Cuts
VARIABLES vflag, dflag, synced

\* The exFAT driver.
Exfat == INSTANCE ExfatDirty

\* Without a driver nothing is in progress and no marker is in the cache only.
Off == ~mounted => vbit = dbit /\ op = "none" /\ image # "middle"

\* Each value of Fat::dirty says where the marker can be and whether there
\* is anything it has to cover.
Marker ==
    /\ vbit[Active] \/ dbit[Active] => MediumWhole
    /\ mounted /\ dirty \in {"Marked", "Preserve"} => ~vbit[Active] /\ ~dbit[Active]
    /\ mounted /\ dirty \notin {"Marked", "Preserve"} => MediumWhole
    /\ mounted /\ dirty = "Clean" => vbit[Active] /\ dbit[Active]

\* Where a marking or a clearing in progress has got to.
Progress ==
    /\ op \in {"mark", "markFlush"} => dirty = "Marking" /\ (Active \notin todo => ~vbit[Active])
    /\ op \in {"clear", "clearFlush"} => dirty = "Clearing" /\ (Active \notin todo => vbit[Active])
    /\ op \in {"markFlush", "clearFlush"} => todo = {}
    /\ op = "flush" => image # "middle"

\* What was left unfinished is remembered until a check finds it repaired.
Kept == mounted /\ image = "left" => keep

\* The invariant of the FAT driver.
MarkerInv == TypeOK /\ Off /\ Marker /\ Progress /\ Kept

\* The invariant holds initially.
LEMMA MarkerInitInv == Init => MarkerInv
  BY CopiesAssumption DEF Init, MarkerInv, TypeOK, Off, Marker, Progress, Kept, MediumWhole,
     DirtyStates, Ops, Images

\* Every step of the driver, the device and the outside world preserves it.
LEMMA MarkerStepInv == ASSUME ~RemountUnflushed, MarkerInv, [Next]_vars PROVE MarkerInv'
  <1> USE CopiesAssumption DEF MarkerInv, TypeOK, Off, Marker, Progress, Kept, MediumWhole,
          DirtyStates, Ops, Images, driver, task, bits, data
  <1>1. CASE Mount
    BY <1>1 DEF Mount
  <1>2. CASE BeginWrite
    BY <1>2 DEF BeginWrite, Writable, Idle, NeedsMark, StartMark
  <1>3. CASE MarkCopy
    BY <1>3 DEF MarkCopy, PutBit, NextCopy
  <1>4. CASE MarkFlush
    BY <1>4 DEF MarkFlush, Flush
  <1>5. CASE DataWrite
    BY <1>5 DEF DataWrite, Writable, Idle, NeedsMark
  <1>6. CASE RecoverCorrupt
    BY <1>6 DEF RecoverCorrupt, Writable, Idle
  <1>7. CASE Sync
    BY <1>7 DEF Sync, Writable, Idle
  <1>8. CASE SyncFlush
    BY <1>8 DEF SyncFlush, Flush, NeedsMark, StartMark
  <1>9. CASE ClearCopy
    BY <1>9 DEF ClearCopy, PutBit, NextCopy
  <1>10. CASE ClearFlush
    BY <1>10 DEF ClearFlush, Flush
  <1>11. CASE MarkClean
    BY <1>11 DEF MarkClean, Writable, Idle
  <1>12. CASE Interrupt
    <2>1. CASE op = "mark" /\ PutBit(FALSE) /\ UNCHANGED data
      BY <1>12, <2>1 DEF Interrupt, PutBit, NextCopy
    <2>2. CASE op = "clear" /\ PutBit(TRUE) /\ UNCHANGED data
      BY <1>12, <2>2 DEF Interrupt, PutBit, NextCopy
    <2>3. CASE op \in {"markFlush", "flush", "clearFlush"} /\ Flush /\ UNCHANGED todo
      BY <1>12, <2>3 DEF Interrupt, Flush
    <2>4. CASE UNCHANGED <<todo, bits, data>>
      BY <1>12, <2>4 DEF Interrupt
    <2> QED
      BY <1>12, <2>1, <2>2, <2>3, <2>4 DEF Interrupt
  <1>13. CASE Refuse
    BY <1>13 DEF Refuse, NeedsMark
  <1>14. CASE Drop
    BY <1>14 DEF Drop, Idle
  <1>15. CASE Writeback
    BY <1>15 DEF Writeback
  <1>16. CASE Crash
    BY <1>16 DEF Crash
  <1>17. CASE Repair
    BY <1>17 DEF Repair
  <1>18. CASE RepairMark
    BY <1>18 DEF RepairMark
  <1>19. CASE UNCHANGED vars
    BY <1>19 DEF vars
  <1> QED
    BY <1>1, <1>2, <1>3, <1>4, <1>5, <1>6, <1>7, <1>8, <1>9, <1>10, <1>11, <1>12, <1>13, <1>14, <1>15, <1>16, <1>17, <1>18, <1>19 DEF Next

\* The invariant holds in every reachable state.
LEMMA MarkerInvariant == ASSUME ~RemountUnflushed PROVE Spec => []MarkerInv
  <1>1. MarkerInv /\ [Next]_vars => MarkerInv'
    BY MarkerStepInv
  <1> QED
    BY <1>1, MarkerInitInv, PTL DEF Spec

\* On a device that is remounted only with its marker on the medium, the
\* medium never says clean over writes that have not reached it or over an
\* unfinished operation, for any number of FAT copies.
THEOREM MarkerIsTrue ==
    ASSUME ~RemountUnflushed
    PROVE  Spec => [](TypeOK /\ CleanMeansWhole)
  <1>1. MarkerInv => TypeOK /\ CleanMeansWhole
    BY DEF MarkerInv, Marker, CleanMeansWhole
  <1> QED
    BY <1>1, MarkerInvariant, PTL

\* Dirty::Preserve, which a mount of a marked volume or a sync after
\* corruption enters, means that the medium carries the marker: it cannot be
\* entered while the marker is in the device's cache only.
THEOREM CorruptionIsRecorded == ASSUME ~RemountUnflushed PROVE Spec => []CorruptionRecorded
  <1>1. MarkerInv => CorruptionRecorded
    BY DEF MarkerInv, Marker, CorruptionRecorded
  <1> QED
    BY <1>1, MarkerInvariant, PTL

\* Dirty::Clean, which lets begin_write's caller believe nothing is owed,
\* means that the medium is whole and says so, whichever marking or clearing
\* was cut before.
THEOREM CleanStateIsTrue == ASSUME ~RemountUnflushed PROVE Spec => []CleanIsTrue
  <1>1. MarkerInv => CleanIsTrue
    BY DEF MarkerInv, Marker, CleanIsTrue
  <1> QED
    BY <1>1, MarkerInvariant, PTL

\* Every step is a step of CleanMarker or leaves claim and medium alone.
LEMMA MarkerStepSimulation ==
    ASSUME ~RemountUnflushed, MarkerInv, MarkerInv', [Next]_vars
    PROVE  [Promise!Next]_(Promise!vars)
  <1> DEFINE claim == dbit[Active]
  <1> USE CopiesAssumption DEF MarkerInv, TypeOK, Marker, MediumWhole
  \* No step moves the marker and the state of the medium at once.
  <1>1. (claim' <=> claim) \/ (MediumWhole' <=> MediumWhole)
    <2>1. CASE MarkFlush \/ SyncFlush \/ ClearFlush
      BY <2>1 DEF MarkFlush, SyncFlush, ClearFlush, Flush
    <2>2. CASE Interrupt
      BY <2>2 DEF Interrupt, PutBit, Flush, bits, data
    <2>3. CASE Writeback \/ RepairMark
      BY <2>3 DEF Writeback, RepairMark, data
    <2>4. CASE Crash \/ Repair \/ DataWrite \/ RecoverCorrupt \/ Drop
      BY <2>4 DEF Crash, Repair, DataWrite, RecoverCorrupt, Drop, bits
    <2>5. CASE Mount \/ BeginWrite \/ MarkCopy \/ Sync \/ ClearCopy \/ MarkClean \/ Refuse
      BY <2>5 DEF Mount, BeginWrite, MarkCopy, Sync, ClearCopy, MarkClean, Refuse,
         PutBit, bits
    <2>6. CASE UNCHANGED vars
      BY <2>6 DEF vars, bits
    <2> QED
      BY <2>1, <2>2, <2>3, <2>4, <2>5, <2>6 DEF Next
  <1>2. claim \in BOOLEAN /\ claim' \in BOOLEAN
    OBVIOUS
  <1>3. (claim => MediumWhole) /\ (claim => MediumWhole)'
    OBVIOUS
  <1>4. MediumWhole \in BOOLEAN /\ MediumWhole' \in BOOLEAN
    OBVIOUS
  <1> QED
    BY <1>1, <1>2, <1>3, <1>4 DEF Promise!Next, Promise!Disturb, Promise!Settle,
       Promise!Raise, Promise!Withdraw, Promise!vars

\* The FAT driver keeps the promise of CleanMarker: it raises the claim only
\* over a whole medium, and touches the medium only while nothing is claimed.
THEOREM ImplementsCleanMarker ==
    ASSUME ~RemountUnflushed
    PROVE  Spec => MarkerPromise
  <1>1. Init => Promise!Init
    BY CopiesAssumption DEF Init, Promise!Init, MediumWhole
  <1>2. MarkerInv /\ MarkerInv' /\ [Next]_vars => [Promise!Next]_(Promise!vars)
    BY MarkerStepSimulation
  <1> QED
    BY <1>1, <1>2, MarkerInvariant, PTL DEF Spec, MarkerPromise, Promise!Spec

-----------------------------------------------------------------------------
\* As Off, of VolumeDirty.
FlagOff == ~mounted => vflag = dflag /\ op = "none" /\ image # "middle"

\* Each value of ExFat::dirty says where the flag can be and whether there
\* is anything it has to cover.  A flag that only the cache holds is followed
\* by its flush, or by no write at all.
Flag ==
    /\ ~vflag \/ ~dflag => Exfat!MediumWhole
    /\ mounted /\ dirty # "Clean" => vflag
    /\ mounted /\ dirty # "Clean" /\ ~readOnly /\ op # "markFlush" => dflag
    /\ mounted /\ vflag /\ "mark_write" \notin Cuts => dirty # "Clean"

\* Where a marking or a sync in progress has got to.
FlagProgress ==
    /\ op # "none" => ~readOnly
    /\ op = "mark" => dirty = "Clean" /\ ~synced
    /\ op = "markFlush" => dirty = "Marked"
    /\ op = "percent" => dirty # "Clean" /\ (dirty = "Marked" => image = "whole")
    /\ op \in {"flush", "clear"} => dirty = "Marked" /\ image = "whole"
    /\ op = "clear" => Exfat!MediumWhole
    /\ op = "lastFlush" => dirty # "Marked"

\* Nothing was begun since the sync, so its last flush is still true.
Synced ==
    synced /\ "mark_write" \notin Cuts =>
        mounted /\ dirty # "Marked" /\ (dirty = "Clean" => ~vflag /\ ~dflag)

\* The invariant of the exFAT driver.
FlagInv == Exfat!TypeOK /\ FlagOff /\ Flag /\ FlagProgress /\ Synced

\* The invariant holds initially.
LEMMA FlagInitInv == Exfat!Init => FlagInv
  <1> USE DEF Exfat!Init, FlagInv, Exfat!TypeOK, FlagOff, Flag, FlagProgress, Synced, Exfat!MediumWhole
  <1>1. ASSUME Exfat!Init, vflag = TRUE PROVE FlagInv
    BY <1>1
  <1>2. ASSUME Exfat!Init, vflag = FALSE PROVE FlagInv
    BY <1>2
  <1> QED
    BY <1>1, <1>2

\* Every step of the driver, the device and the outside world preserves it.
LEMMA FlagStepInv ==
    ASSUME Cuts \subseteq {"mark_write"}, FlagInv, [Exfat!Next]_(Exfat!vars)
    PROVE  FlagInv'
  <1> USE DEF FlagInv, Exfat!TypeOK, FlagOff, Flag, FlagProgress, Synced, Exfat!MediumWhole, Exfat!driver, Exfat!flags, Exfat!data
  <1>1. CASE Exfat!Mount
    BY <1>1 DEF Exfat!Mount
  <1>2. CASE Exfat!BeginWrite
    BY <1>2 DEF Exfat!BeginWrite, Exfat!Writable, Exfat!Idle
  <1>3. CASE Exfat!MarkFlag
    BY <1>3 DEF Exfat!MarkFlag, Exfat!PutFlag
  <1>4. CASE Exfat!MarkFlush
    BY <1>4 DEF Exfat!MarkFlush, Exfat!Flush
  <1>5. CASE Exfat!DataWrite
    BY <1>5 DEF Exfat!DataWrite, Exfat!Writable, Exfat!Idle
  <1>6. CASE Exfat!RecoverCorrupt
    BY <1>6 DEF Exfat!RecoverCorrupt, Exfat!Writable, Exfat!Idle
  <1>7. CASE Exfat!Sync
    BY <1>7 DEF Exfat!Sync, Exfat!ClearDirty, Exfat!Writable, Exfat!Idle
  <1>8. CASE Exfat!SyncCorrupt
    BY <1>8 DEF Exfat!SyncCorrupt, Exfat!Writable, Exfat!Idle
  <1>9. CASE Exfat!ClearFlush
    BY <1>9 DEF Exfat!ClearFlush, Exfat!Flush
  <1>10. CASE Exfat!ClearFlag
    BY <1>10 DEF Exfat!ClearFlag, Exfat!PutFlag
  <1>11. CASE Exfat!LastFlush
    BY <1>11 DEF Exfat!LastFlush, Exfat!Flush
  <1>12. CASE Exfat!MarkClean
    BY <1>12 DEF Exfat!MarkClean, Exfat!Writable, Exfat!Idle
  <1>13. CASE Exfat!CutAfter
    BY <1>13 DEF Exfat!CutAfter, Exfat!Flushes
  <1>14. CASE Exfat!CutBefore
    BY <1>14 DEF Exfat!CutBefore
  <1>15. CASE Exfat!Refuse
    BY <1>15 DEF Exfat!Refuse
  <1>16. CASE Exfat!Drop
    BY <1>16 DEF Exfat!Drop, Exfat!Idle
  <1>17. CASE Exfat!Writeback
    BY <1>17 DEF Exfat!Writeback
  <1>18. CASE Exfat!Crash
    BY <1>18 DEF Exfat!Crash
  <1>19. CASE Exfat!Repair
    BY <1>19 DEF Exfat!Repair
  <1>20. CASE Exfat!RepairMark
    BY <1>20 DEF Exfat!RepairMark
  <1>21. CASE Exfat!WritePercent
    BY <1>21 DEF Exfat!WritePercent, Exfat!ClearDirty
  <1>22. CASE Exfat!Fsync
    BY <1>22 DEF Exfat!Fsync, Exfat!Writable, Exfat!Idle
  <1>23. CASE UNCHANGED Exfat!vars
    BY <1>23 DEF Exfat!vars
  <1> QED
    BY <1>1, <1>2, <1>3, <1>4, <1>5, <1>6, <1>7, <1>8, <1>9, <1>10, <1>11, <1>12, <1>13,
       <1>14, <1>15, <1>16, <1>17, <1>18, <1>19, <1>20, <1>21, <1>22, <1>23
       DEF Exfat!Next

\* The invariant holds in every reachable state.
LEMMA FlagInvariant == ASSUME Cuts \subseteq {"mark_write"} PROVE Exfat!Spec => []FlagInv
  <1>1. FlagInv /\ [Exfat!Next]_(Exfat!vars) => FlagInv'
    BY FlagStepInv
  <1> QED
    BY <1>1, FlagInitInv, PTL DEF Exfat!Spec

\* A sync that returned Ok leaves a medium without the flag this driver set,
\* whatever writes, cuts and syncs came before it, when none of the cuts of
\* AllCuts happens.
THEOREM SyncLeavesNoFlag == ASSUME Cuts = {} PROVE Exfat!Spec => []Exfat!SyncClears
  <1>1. FlagInv => Exfat!SyncClears
    BY DEF FlagInv, Exfat!TypeOK, Synced, Exfat!SyncClears
  <1>2. Exfat!Spec => []FlagInv
    BY FlagInvariant
  <1> QED
    BY <1>1, <1>2, PTL

\* Every step is a step of CleanMarker or leaves claim and medium alone.
LEMMA FlagStepSimulation ==
    ASSUME FlagInv, FlagInv', [Exfat!Next]_(Exfat!vars)
    PROVE  [Exfat!Promise!Next]_(Exfat!Promise!vars)
  <1> USE DEF FlagInv, Exfat!TypeOK, Flag, Exfat!MediumWhole
  \* No step moves the flag and the state of the medium at once.
  <1>1. (dflag' <=> dflag) \/ (Exfat!MediumWhole' <=> Exfat!MediumWhole)
    <2>1. CASE Exfat!MarkFlush \/ Exfat!ClearFlush \/ Exfat!LastFlush
      BY <2>1 DEF Exfat!MarkFlush, Exfat!ClearFlush, Exfat!LastFlush, Exfat!Flush
    <2>2. CASE Exfat!CutAfter \/ Exfat!CutBefore
      BY <2>2 DEF Exfat!CutAfter, Exfat!CutBefore, Exfat!flags, Exfat!data
    <2>3. CASE Exfat!Writeback \/ Exfat!RepairMark
      BY <2>3 DEF Exfat!Writeback, Exfat!RepairMark, Exfat!data
    <2>4. CASE Exfat!Crash \/ Exfat!Repair \/ Exfat!DataWrite \/ Exfat!RecoverCorrupt \/ Exfat!Drop
      BY <2>4 DEF Exfat!Crash, Exfat!Repair, Exfat!DataWrite, Exfat!RecoverCorrupt, Exfat!Drop, Exfat!flags
    <2>5. CASE Exfat!WritePercent \/ Exfat!Fsync
      BY <2>5 DEF Exfat!WritePercent, Exfat!Fsync, Exfat!flags, Exfat!data
    <2>6. CASE Exfat!Mount \/ Exfat!BeginWrite \/ Exfat!MarkFlag \/ Exfat!Sync \/ Exfat!SyncCorrupt \/ Exfat!ClearFlag
               \/ Exfat!MarkClean \/ Exfat!Refuse
      BY <2>6 DEF Exfat!Mount, Exfat!BeginWrite, Exfat!MarkFlag, Exfat!Sync, Exfat!SyncCorrupt, Exfat!ClearFlag, Exfat!MarkClean,
         Exfat!Refuse, Exfat!PutFlag, Exfat!flags
    <2>7. CASE UNCHANGED Exfat!vars
      BY <2>7 DEF Exfat!vars, Exfat!flags
    <2> QED
      BY <2>1, <2>2, <2>3, <2>4, <2>5, <2>6, <2>7 DEF Exfat!Next
  <1>2. (~dflag => Exfat!MediumWhole) /\ (~dflag => Exfat!MediumWhole)'
    OBVIOUS
  <1>3. Exfat!MediumWhole \in BOOLEAN /\ Exfat!MediumWhole' \in BOOLEAN
    OBVIOUS
  <1> QED
    BY <1>1, <1>2, <1>3 DEF Exfat!Promise!Next, Exfat!Promise!Disturb, Exfat!Promise!Settle,
       Exfat!Promise!Raise, Exfat!Promise!Withdraw, Exfat!Promise!vars

\* The exFAT driver keeps the promise of CleanMarker: the medium loses its
\* VolumeDirty only when it is whole, no operation cut short or given up by
\* recovery among what it holds, and is touched only while it has it.  Of
\* AllCuts only "mark_write" may happen.
THEOREM ExfatImplementsCleanMarker ==
    ASSUME Cuts \subseteq {"mark_write"}
    PROVE  Exfat!Spec => Exfat!MarkerPromise
  <1>1. Exfat!Init => Exfat!Promise!Init
    BY DEF Exfat!Init, Exfat!Promise!Init, Exfat!MediumWhole
  <1>2. FlagInv /\ FlagInv' /\ [Exfat!Next]_(Exfat!vars) => [Exfat!Promise!Next]_(Exfat!Promise!vars)
    BY FlagStepSimulation
  <1> QED
    BY <1>1, <1>2, FlagInvariant, PTL DEF Exfat!Spec, Exfat!MarkerPromise, Exfat!Promise!Spec
=============================================================================
