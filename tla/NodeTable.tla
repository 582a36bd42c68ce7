------------------------------ MODULE NodeTable ------------------------------
(***************************************************************************)
(* The node table of the FAT driver (hadris-fat: table.rs and the parts of *)
(* fatfs.rs that read and change it): which ids are pinned, on which       *)
(* directory entry each of them sits, and how creating, removing and       *)
(* renaming files, and the recovery of an interrupted removal or rename,   *)
(* keep that table in step with the directory entries on disk.             *)
(*                                                                         *)
(* An id is <<slot, tag>>: the code packs them into one integer.  A file   *)
(* stands for itself and for its first cluster: the head of a non-empty    *)
(* node is its file, the head of an empty one is NoFile.                   *)
(***************************************************************************)
EXTENDS Naturals, FiniteSets

CONSTANTS
    Slots,       \* directory slots that can hold a short entry
    NumTags,     \* 2^TAG_BITS: ids per slot
    Files,       \* identities of files, ghost of the contents
    NoFile,      \* no file; the head of an empty file
    NoSlot,      \* u64::MAX: the entry offset of a node without an entry
    Reserved,    \* RESERVED: the id `create` inserts before it writes
    NodeLimit,   \* Table::limit
    MaxPins,     \* bound: pins callers take on one id
    MaxOpens,    \* bound: opens of one id
    Windows      \* which early steps are explored, see EarlySteps

Tags == 0 .. NumTags - 1
Ids == Slots \X Tags
AllIds == Ids \cup {Reserved}

(***************************************************************************)
(* Steps between an interruption and its recovery from which the table     *)
(* does not come back in step with the disk; a configuration names the     *)
(* ones it explores.                                                       *)
(*   "empty_unlink": the removal of an empty file stops after its entry is *)
(*                   cleared, before the table is updated;                 *)
(*   "early_lookup": a lookup of either name of an interrupted rename;     *)
(*   "early_open":   an open while a removal or a rename is unrecovered;   *)
(*   "early_forget": the last forget of a node an interrupted rename holds *)
(*                   by its id;                                            *)
(*   "early_flush":  a close or fsync that writes a replaced file's node   *)
(*                   into the entry an interrupted rename put in its place.*)
(***************************************************************************)
EarlySteps == {"empty_unlink", "early_lookup", "early_open", "early_forget", "early_flush"}

ASSUME NumTagsAssumption == NumTags \in Nat \ {0}
ASSUME LimitAssumption == NodeLimit \in Nat
ASSUME ConstantsAssumption ==
    /\ NoFile \notin Files
    /\ NoSlot \notin Slots
    /\ Reserved \notin Ids
    /\ Windows \subseteq EarlySteps
    /\ MaxPins \in Nat /\ MaxOpens \in Nat

VARIABLES
    disk,     \* the directory: per slot the visible short entry, or NoEntry
    nodes,    \* Table::nodes; an absent id maps to Absent
    moved,    \* FatFs::moved: some node is not on the slot its id names
    rename,   \* FatFs::rename: an interrupted rename, or NoRename
    removed,  \* FatFs::pending with Owner::Removed, or NoRemoval
    refs,     \* ghost: pins callers hold on each id
    opened    \* ghost: opens callers have not closed

vars == <<disk, nodes, moved, rename, removed, refs, opened>>

NoEntry == [tag |-> 0, file |-> NoFile, head |-> NoFile]
Entry == [tag : Tags, file : Files \cup {NoFile}, head : Files \cup {NoFile}]
Visible(s) == disk[s].file # NoFile

\* Node with its pin count; `file` is a ghost, the file it was made for
Absent == [pins |-> 0, entry |-> NoSlot, file |-> NoFile, head |-> NoFile,
           dirty |-> FALSE, opens |-> 0, unlinked |-> FALSE]
Node == [pins : Nat, entry : Slots \cup {NoSlot}, file : Files \cup {NoFile},
         head : Files \cup {NoFile}, dirty : BOOLEAN, opens : Nat, unlinked : BOOLEAN]

\* PendingRename: source and destination slot, the entry to publish, the
\* slot and the saved entry of a replaced target, the nodes of both, and
\* whether the driver knows the entry is written.  (The code's `publishing`
\* only spares a comparison that fails: nothing is visible in the
\* destination before it is set.)
NoRename == [src |-> NoSlot, dst |-> NoSlot, entry |-> NoEntry, target |-> NoSlot,
             saved |-> NoEntry, source_id |-> Reserved, target_id |-> Reserved,
             committed |-> FALSE]
NoRemoval == [slot |-> NoSlot, head |-> NoFile]

Present(t) == {id \in AllIds : t[id].pins > 0}
Live(t) == {id \in Ids : t[id].pins > 0 /\ ~t[id].unlinked}

-----------------------------------------------------------------------------
(* Table: the accounting of pins, dirty nodes and removed nodes. *)

\* Node::new, with the pin Table::insert gives it
NewNode(s, e) ==
    [pins |-> 1, entry |-> s, file |-> e.file, head |-> e.head,
     dirty |-> FALSE, opens |-> 0, unlinked |-> FALSE]

\* Table::insert of an id that is not in the table
Room(t) == Cardinality(Present(t)) < NodeLimit
Insert(t, id, node) == [t EXCEPT ![id] = node]

\* Table::pin
Pin(t, id) == [t EXCEPT ![id].pins = @ + 1]

\* Table::unpin, k times: the node goes with its last pin
UnpinNode(n, k) == IF n.pins <= k THEN Absent ELSE [n EXCEPT !.pins = @ - k]

\* Table::mark_dirty: the first time, the driver takes a pin of its own
MarkDirtyNode(n) ==
    IF n.pins = 0 \/ n.dirty THEN n ELSE [n EXCEPT !.dirty = TRUE, !.pins = @ + 1]

\* Mutant of CleanNode: the driver keeps its pin on a written node
CleanKeepsPin(n) == [n EXCEPT !.dirty = FALSE]

\* Table::clean: a written node gives that pin back
CleanNode(n) == IF n.dirty THEN UnpinNode([n EXCEPT !.dirty = FALSE], 1) ELSE n

\* Table::mark_unlinked: a node that callers still pin stays, without entry
MarkUnlinkedNode(n) ==
    LET cleaned == CleanNode(n)
    IN  IF cleaned.pins = 0 THEN Absent
        ELSE [cleaned EXCEPT !.unlinked = TRUE, !.entry = NoSlot, !.head = NoFile]

MarkUnlinked(t, id) == [t EXCEPT ![id] = MarkUnlinkedNode(@)]

\* Table::user_pins
UserPins(n) == IF n.dirty THEN n.pins - 1 ELSE n.pins

-----------------------------------------------------------------------------
(* Finding the node of an entry, and an id for a new node. *)

\* Mutant of PinnedAt: nodes that moved away from their slot are not searched
PinnedAtSlotOnly(t, m, s) ==
    {id \in Ids : t[id].pins > 0 /\ t[id].entry = s /\ id[1] = s}

\* pinned_at: unless a node has moved, only the ids of the slot are searched
PinnedAt(t, m, s) ==
    {id \in Ids : t[id].pins > 0 /\ t[id].entry = s /\ (m \/ id[1] = s)}

\* free_id: the first free id of the slot, probing from the entry's tag
Probe(tag, id) == (id[2] + NumTags - tag) % NumTags
\* Mutant of FreeIds: the id of a removed node counts as free
FreeIdsReuseRemoved(t, s) == {id \in Ids : id[1] = s /\ (t[id].pins = 0 \/ t[id].unlinked)}
FreeIds(t, s) == {id \in Ids : id[1] = s /\ t[id].pins = 0}
FreeId(t, s, tag) ==
    {id \in FreeIds(t, s) :
        \A other \in FreeIds(t, s) : Probe(tag, id) <= Probe(tag, other)}

\* The pinned node of slot s, Reserved for none
IdAt(s) ==
    IF PinnedAt(nodes, moved, s) = {} THEN Reserved
    ELSE CHOOSE id \in PinnedAt(nodes, moved, s) : TRUE

\* The first cluster of the file in slot s: the node's, else the entry's
HeadAt(s) == IF IdAt(s) = Reserved THEN disk[s].head ELSE nodes[IdAt(s)].head

\* is_open; the mutant lets an open file be removed
IsOpenIgnored(s) == FALSE
IsOpen(s) == IdAt(s) # Reserved /\ nodes[IdAt(s)].opens > 0

\* What prepare leaves before a writing operation starts
Ready ==
    /\ rename = NoRename
    /\ removed = NoRemoval
    /\ nodes[Reserved] = Absent

\* A caller may use an id it pins; a removed node answers NotFound
Usable(id) == refs[id] > 0 /\ nodes[id].pins > 0 /\ ~nodes[id].unlinked

-----------------------------------------------------------------------------
Init ==
    /\ disk = [s \in Slots |-> NoEntry]
    /\ nodes = [id \in AllIds |-> Absent]
    /\ moved = FALSE
    /\ rename = NoRename
    /\ removed = NoRemoval
    /\ refs = [id \in Ids |-> 0]
    /\ opened = [id \in Ids |-> 0]

\* lookup, then intern.  It does not run recovery first.
Lookup(s) ==
    /\ Visible(s)
    /\ "early_lookup" \in Windows \/ s \notin {rename.src, rename.dst, rename.target}
    /\ IF IdAt(s) # Reserved
       THEN /\ refs[IdAt(s)] < MaxPins
            /\ nodes' = Pin(nodes, IdAt(s))
            /\ refs' = [refs EXCEPT ![IdAt(s)] = @ + 1]
       ELSE /\ Room(nodes)
            /\ \E id \in FreeId(nodes, s, disk[s].tag) :
                 /\ nodes' = Insert(nodes, id, NewNode(s, disk[s]))
                 /\ refs' = [refs EXCEPT ![id] = 1]
    /\ UNCHANGED <<disk, moved, rename, removed, opened>>

\* A file no slot and no node knows: the next one to be created
Fresh(f) ==
    /\ \A s \in Slots : disk[s].file # f
    /\ \A id \in Ids : nodes[id].file # f

\* create_node: the reserved place proves there is room before the entry is
\* written.  With every id of the slot taken the file exists but the call fails.
Create(s, tag, f) ==
    /\ Ready
    /\ ~Visible(s) /\ Fresh(f)
    /\ Room(nodes)
    /\ LET e == [tag |-> tag, file |-> f, head |-> NoFile]
       IN  /\ disk' = [disk EXCEPT ![s] = e]
           /\ \/ \E id \in FreeId(nodes, s, tag) :
                   /\ nodes' = Insert(nodes, id, NewNode(s, e))
                   /\ refs' = [refs EXCEPT ![id] = 1]
              \/ /\ FreeIds(nodes, s) = {}
                 /\ UNCHANGED <<nodes, refs>>
    /\ UNCHANGED <<moved, rename, removed, opened>>

\* create_node dropped before it ends: the reserved place stays behind
CreateDropped(s, tag, f) ==
    /\ Ready
    /\ ~Visible(s) /\ Fresh(f)
    /\ Room(nodes)
    /\ nodes' = Insert(nodes, Reserved, NewNode(NoSlot, NoEntry))
    /\ \/ disk' = [disk EXCEPT ![s] = [tag |-> tag, file |-> f, head |-> NoFile]]
       \/ disk' = disk
    /\ UNCHANGED <<moved, rename, removed, refs, opened>>

\* write: a first cluster is stored in the entry at once, a larger size is
\* kept in the table (publish)
Write(id) ==
    /\ Ready
    /\ Usable(id)
    /\ IF nodes[id].head = NoFile
       THEN /\ nodes' = [nodes EXCEPT ![id] = CleanNode([@ EXCEPT !.head = nodes[id].file])]
            /\ disk' = [disk EXCEPT ![nodes[id].entry].head = nodes[id].file]
       ELSE /\ nodes' = [nodes EXCEPT ![id] = MarkDirtyNode(@)]
            /\ UNCHANGED disk
    /\ UNCHANGED <<moved, rename, removed, refs, opened>>

\* truncate to 0: the entry loses its first cluster, the node is written
Truncate(id) ==
    /\ Ready
    /\ Usable(id)
    /\ nodes[id].head # NoFile
    /\ nodes' = [nodes EXCEPT ![id] = CleanNode([@ EXCEPT !.head = NoFile])]
    /\ disk' = [disk EXCEPT ![nodes[id].entry].head = NoFile]
    /\ UNCHANGED <<moved, rename, removed, refs, opened>>

\* A write through an id nobody pins (any_node, unpinned): the entry is stored
WriteUnpinned(id) ==
    /\ Ready
    /\ Visible(id[1])
    /\ IdAt(id[1]) = Reserved
    /\ id \in FreeId(nodes, id[1], disk[id[1]].tag)
    /\ disk[id[1]].head = NoFile
    /\ disk' = [disk EXCEPT ![id[1]].head = disk[id[1]].file]
    /\ UNCHANGED <<nodes, moved, rename, removed, refs, opened>>

\* flush_node: writes a dirty node into the entry that lies in its slot,
\* whichever file that entry is of; a cleared entry fails (read_short)
Writable(n) == n.entry \in Slots /\ Visible(n.entry)
FlushNode(n) == IF Writable(n) THEN CleanNode(n) ELSE n
Stored(n) ==
    IF n.dirty /\ Writable(n) THEN [disk EXCEPT ![n.entry].head = n.head] ELSE disk

\* An interrupted rename has put another file's entry where this node's was
Replaced(id) ==
    /\ id = rename.target_id /\ nodes[id].entry = rename.dst
    /\ disk[rename.dst] = rename.entry

\* open: it does not run recovery first
Open(id) ==
    /\ Usable(id)
    /\ "early_open" \in Windows \/ (rename = NoRename /\ removed = NoRemoval)
    /\ opened[id] < MaxOpens
    /\ nodes' = [nodes EXCEPT ![id].opens = @ + 1]
    /\ opened' = [opened EXCEPT ![id] = @ + 1]
    /\ UNCHANGED <<disk, moved, rename, removed, refs>>

\* Table::close
CloseNode(n) == [n EXCEPT !.opens = IF n.opens = 0 THEN 0 ELSE n.opens - 1]

\* close, then publish_node: no recovery first
Close(id) ==
    /\ opened[id] > 0
    /\ "early_flush" \in Windows \/ ~(nodes[id].dirty /\ Replaced(id))
    /\ nodes' = [nodes EXCEPT ![id] = FlushNode(CloseNode(@))]
    /\ disk' = Stored(nodes[id])
    /\ opened' = [opened EXCEPT ![id] = @ - 1]
    /\ UNCHANGED <<moved, rename, removed, refs>>

Fsync(id) ==
    /\ Usable(id)
    /\ "early_flush" \in Windows \/ ~(nodes[id].dirty /\ Replaced(id))
    /\ nodes' = [nodes EXCEPT ![id] = FlushNode(@)]
    /\ disk' = Stored(nodes[id])
    /\ UNCHANGED <<moved, rename, removed, refs, opened>>

\* One node of the loop of sync, after its recovery: a node that cannot be
\* written is clean afterwards too
Sync(id) ==
    /\ rename = NoRename /\ removed = NoRemoval
    /\ nodes[id].dirty
    /\ nodes' = [nodes EXCEPT ![id] = CleanNode(@)]
    /\ disk' = Stored(nodes[id])
    /\ UNCHANGED <<moved, rename, removed, refs, opened>>

\* Table::forget: at most the callers' pins
ForgetNode(n, count) == UnpinNode(n, IF count < UserPins(n) THEN count ELSE UserPins(n))

\* forget: an empty table has no moved node.  The caller keeps a pin
\* while the file is open.
Forget(id, n) ==
    /\ n \in 1 .. refs[id]
    /\ opened[id] > 0 => n < refs[id]
    /\ "early_forget" \in Windows \/ n < refs[id] \/ id \notin {rename.source_id, rename.target_id}
    /\ nodes' = [nodes EXCEPT ![id] = ForgetNode(@, n)]
    /\ refs' = [refs EXCEPT ![id] = @ - n]
    /\ moved' = (moved /\ Present(nodes') # {})
    /\ UNCHANGED <<disk, rename, removed, opened>>

-----------------------------------------------------------------------------
(* Removing and renaming. *)

\* remove_entry: an open file is busy; the entry goes, then the node
Unlink(s) ==
    /\ Ready
    /\ Visible(s) /\ ~IsOpen(s)
    /\ disk' = [disk EXCEPT ![s] = NoEntry]
    /\ IF IdAt(s) # Reserved
       THEN /\ nodes' = MarkUnlinked(nodes, IdAt(s))
            /\ moved' = (moved \/ MarkUnlinkedNode(nodes[IdAt(s)]) # Absent)
       ELSE UNCHANGED <<nodes, moved>>
    /\ UNCHANGED <<rename, removed, refs, opened>>

\* What `pending` records of a chain about to lose its entry in slot s
Removal(s) ==
    IF s = NoSlot \/ HeadAt(s) = NoFile THEN NoRemoval
    ELSE [slot |-> s, head |-> HeadAt(s)]

\* remove_entry cut at the write that clears the entry, which landed or did
\* not: what is remembered is the chain, so an empty file leaves no trace
UnlinkDropped(s) ==
    /\ Ready
    /\ Visible(s) /\ ~IsOpen(s)
    /\ "empty_unlink" \in Windows \/ HeadAt(s) # NoFile
    /\ removed' = Removal(s)
    /\ \/ disk' = [disk EXCEPT ![s] = NoEntry]
       \/ disk' = disk
    /\ UNCHANGED <<nodes, moved, rename, refs, opened>>

\* The entry in slot s goes to slot d, replacing the one in slot t (NoSlot:
\* none); d = t when the new name fits the slots of the old one
CanRename(s, d, t) ==
    /\ Ready
    /\ s # d /\ s # t /\ Visible(s)
    /\ d # t => ~Visible(d)
    /\ t # NoSlot => Visible(t) /\ ~IsOpen(t)

\* The entry that is written under the new name
MovedEntry(s) == [disk[s] EXCEPT !.head = HeadAt(s)]

\* Mutant of Rehome: the node of a renamed file stays on its old entry
RehomeTargetOnly(t, source, target, d) ==
    IF target = Reserved THEN t ELSE MarkUnlinked(t, target)

\* finish_rename's table update: the target goes, the source follows its entry
Rehome(t, source, target, d) ==
    LET gone == IF target = Reserved THEN t ELSE MarkUnlinked(t, target)
    IN  IF source = Reserved \/ gone[source].pins = 0 THEN gone
        ELSE [gone EXCEPT ![source].entry = d]

Moves(t, source, target) ==
    \/ source # Reserved /\ t[source].pins > 0
    \/ target # Reserved /\ MarkUnlinkedNode(t[target]) # Absent

TargetId(t) == IF t = NoSlot THEN Reserved ELSE IdAt(t)

Rename(s, d, t) ==
    /\ CanRename(s, d, t)
    /\ disk' = [x \in Slots |-> IF x = d THEN MovedEntry(s)
                               ELSE IF x \in {s, t} THEN NoEntry ELSE disk[x]]
    /\ nodes' = Rehome(nodes, IdAt(s), TargetId(t), d)
    /\ moved' = (moved \/ Moves(nodes, IdAt(s), TargetId(t)))
    /\ UNCHANGED <<rename, removed, refs, opened>>

\* rename dropped before or after its writes: 1, the target is cleared; 2, the
\* new entry is written, which the driver may not have noted; 3, the old one
\* is cleared
RenameDropped(s, d, t) ==
    /\ CanRename(s, d, t)
    /\ \E landed \in 0 .. 3, committed \in BOOLEAN :
         /\ landed < 2 => ~committed
         /\ landed = 3 => committed
         /\ rename' = [src |-> s, dst |-> d, entry |-> MovedEntry(s), target |-> t,
                       saved |-> IF t = NoSlot THEN NoEntry ELSE disk[t],
                       source_id |-> IdAt(s), target_id |-> TargetId(t),
                       committed |-> committed]
         /\ disk' = [x \in Slots |->
                        IF x = d /\ landed >= 2 THEN MovedEntry(s)
                        ELSE IF (x = t /\ landed >= 1) \/ (x = s /\ landed = 3) THEN NoEntry
                        ELSE disk[x]]
    /\ removed' = Removal(t)
    /\ UNCHANGED <<nodes, moved, refs, opened>>

-----------------------------------------------------------------------------
(* prepare: the next writing operation, or sync, finishes what was cut.     *)
(* It can be cut itself between these steps.                                *)

DropReserved ==
    /\ nodes[Reserved] # Absent
    /\ nodes' = [nodes EXCEPT ![Reserved] = Absent]
    /\ UNCHANGED <<disk, moved, rename, removed, refs, opened>>

\* A published entry commits a rename, else it is undone
Published == rename.committed \/ disk[rename.dst] = rename.entry
SourceCleared == [disk EXCEPT ![rename.src] = NoEntry]
Undone == [x \in Slots |-> IF x = rename.target THEN rename.saved
                           ELSE IF x = rename.dst THEN NoEntry ELSE disk[x]]

\* finish_rename
FinishRename ==
    /\ rename # NoRename
    /\ IF Published
       THEN /\ disk' = SourceCleared
            /\ nodes' = Rehome(nodes, rename.source_id, rename.target_id, rename.dst)
            /\ moved' = (moved \/ Moves(nodes, rename.source_id, rename.target_id))
       ELSE /\ disk' = Undone
            /\ UNCHANGED <<nodes, moved>>
    /\ rename' = NoRename
    /\ UNCHANGED <<removed, refs, opened>>

\* finish_rename cut: it has noted that the rename is committed and may have
\* cleared the source, or has cleared the destination of a rename it undoes
FinishRenameDropped ==
    /\ rename # NoRename
    /\ IF Published
       THEN /\ rename' = [rename EXCEPT !.committed = TRUE]
            /\ disk' \in {disk, SourceCleared}
       ELSE /\ disk' \in {[disk EXCEPT ![rename.dst] = NoEntry], Undone}
            /\ UNCHANGED rename
    /\ UNCHANGED <<nodes, moved, removed, refs, opened>>

\* finish_interrupted for Owner::Removed: an entry that still links the chain
\* keeps its node, else the node of that chain is unlinked
FinishRemoval ==
    /\ rename = NoRename
    /\ removed # NoRemoval
    /\ LET s == removed.slot
           owned == Visible(s) /\ disk[s].head = removed.head
           stale == ~owned /\ IdAt(s) # Reserved /\ nodes[IdAt(s)].head = removed.head
       IN  IF stale
           THEN /\ nodes' = MarkUnlinked(nodes, IdAt(s))
                /\ moved' = (moved \/ MarkUnlinkedNode(nodes[IdAt(s)]) # Absent)
           ELSE UNCHANGED <<nodes, moved>>
    /\ removed' = NoRemoval
    /\ UNCHANGED <<disk, rename, refs, opened>>

Next ==
    \/ \E s \in Slots : Lookup(s) \/ Unlink(s) \/ UnlinkDropped(s)
    \/ \E s \in Slots, tag \in Tags, f \in Files :
          Create(s, tag, f) \/ CreateDropped(s, tag, f)
    \/ \E s, d \in Slots, t \in Slots \cup {NoSlot} :
          Rename(s, d, t) \/ RenameDropped(s, d, t)
    \/ \E id \in Ids : \/ Write(id) \/ Truncate(id) \/ WriteUnpinned(id)
                       \/ Open(id) \/ Close(id) \/ Fsync(id) \/ Sync(id)
                       \/ \E n \in 1 .. MaxPins : Forget(id, n)
    \/ DropReserved \/ FinishRename \/ FinishRenameDropped \/ FinishRemoval

Spec == Init /\ [][Next]_vars

-----------------------------------------------------------------------------
TypeOK ==
    /\ disk \in [Slots -> Entry]
    /\ nodes \in [AllIds -> Node]
    /\ \A id \in AllIds : nodes[id].pins = 0 => nodes[id] = Absent
    /\ moved \in BOOLEAN
    /\ rename \in [src : Slots \cup {NoSlot}, dst : Slots \cup {NoSlot}, entry : Entry,
                   target : Slots \cup {NoSlot}, saved : Entry,
                   source_id : AllIds, target_id : AllIds, committed : BOOLEAN]
    /\ removed \in [slot : Slots \cup {NoSlot}, head : Files \cup {NoFile}]
    /\ refs \in [Ids -> Nat]
    /\ opened \in [Ids -> Nat]

\* The table's pin count of an id is what callers hold, plus the driver's one
\* pin while the node is dirty: no pin is lost or given back twice, so a node
\* a caller holds is in the table (Table::pin, unpin, mark_dirty, clean).
PinAccounting ==
    \A id \in Ids :
        nodes[id].pins = refs[id] + (IF nodes[id].dirty THEN 1 ELSE 0)

\* Two live nodes never sit on one directory entry: every handle on a file
\* sees one size and one first cluster (intern, pinned_at with its short cut
\* over the ids of the slot).
OneNodePerEntry ==
    \A a, b \in Live(nodes) : nodes[a].entry = nodes[b].entry => a = b

\* Once recovery has run, every live node sits on a visible entry of the file
\* it was made for, with the first cluster that entry records: "the driver's
\* own state stays consistent with the disk" (fatfs.rs, crash and
\* cancellation safety).
NodesMatchDisk ==
    Ready => \A id \in Live(nodes) :
        /\ nodes[id].entry \in Slots
        /\ disk[nodes[id].entry].file = nodes[id].file
        /\ disk[nodes[id].entry].head = nodes[id].head

\* A file a caller has open is never removed: unlink and a replacing rename
\* answer Busy, also after an interrupted attempt and its recovery.
OpenIsLinked ==
    \A id \in Ids : opened[id] > 0 =>
        nodes[id].opens = opened[id] /\ id \in Live(nodes)

\* An id stays with the file it was handed out for until its last forget: a
\* removed node is neither revived nor its id given to another file, whatever
\* takes the slot (free_id, mark_unlinked, forget).
IdsKeepTheirFile ==
    [][\A id \in Ids : refs[id] > 0 /\ refs'[id] > 0 =>
        /\ nodes'[id].file = nodes[id].file
        /\ nodes[id].unlinked => nodes'[id].unlinked]_vars
=============================================================================
