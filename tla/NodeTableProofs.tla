--------------------------- MODULE NodeTableProofs ---------------------------
(***************************************************************************)
(* Proofs about NodeTable, for every number of slots, tags and files.      *)
(*                                                                         *)
(* PinInv, whatever early steps are explored: the pins and opens of every  *)
(* node are those that callers and a dirty node account for.               *)
(*                                                                         *)
(* On top of it, the table stays in step with the directory: the           *)
(* invariants OneNodePerEntry, NodesMatchDisk and OpenIsLinked and the     *)
(* action property IdsKeepTheirFile.                                       *)
(***************************************************************************)
EXTENDS NodeTable, TLAPS

USE NumTagsAssumption, LimitAssumption, ConstantsAssumption

-----------------------------------------------------------------------------
(* What the table operations return. *)

\* The empty node and the empty entry have their types.
LEMMA AbsentType == Absent \in Node /\ NoEntry \in Entry
BY DEF Absent, Node, NoEntry, Entry, Tags

\* A node that a table operation returns is a node, and an absent one is Absent.
GoodNode(n) == n \in Node /\ (n.pins = 0 => n = Absent)

\* The pins of a node that callers hold (Table::user_pins).
CallerPins(n) == IF n.dirty THEN n.pins - 1 ELSE n.pins

\* Giving back k pins of callers (Table::unpin, called by forget) takes exactly
\* k of them and drops the node only with its last pin.
LEMMA UnpinLemma ==
    ASSUME NEW n \in Node, NEW k \in Nat, GoodNode(n), k <= n.pins
    PROVE  /\ GoodNode(UnpinNode(n, k))
           /\ UnpinNode(n, k).pins = n.pins - k
           /\ UnpinNode(n, k).dirty <=> (n.dirty /\ n.pins # k)
<1>1. CASE n.pins = k
  <2>1. UnpinNode(n, k) = Absent
    BY <1>1 DEF UnpinNode, Node
  <2>2. QED
    BY <1>1, <2>1, AbsentType DEF GoodNode, Absent, Node
<1>2. CASE n.pins # k
  <2>1. UnpinNode(n, k) = [n EXCEPT !.pins = n.pins - k]
    BY <1>2 DEF UnpinNode, Node
  <2>2. n.pins - k \in Nat /\ n.pins - k # 0
    BY <1>2 DEF Node
  <2>3. UnpinNode(n, k) \in Node /\ UnpinNode(n, k).pins = n.pins - k
    BY <2>1, <2>2 DEF Node
  <2>4. UnpinNode(n, k).dirty <=> n.dirty
    BY <2>1 DEF Node
  <2>5. QED
    BY <1>2, <2>2, <2>3, <2>4 DEF GoodNode
<1>3. QED
  BY <1>1, <1>2

\* Writing a node (Table::clean) gives back the driver's pin and no other.
LEMMA CleanLemma ==
    ASSUME NEW n, GoodNode(n)
    PROVE  /\ GoodNode(CleanNode(n))
           /\ ~CleanNode(n).dirty
           /\ CleanNode(n).pins = CallerPins(n)
<1>1. CASE ~n.dirty
  BY <1>1 DEF GoodNode, CleanNode, CallerPins
<1>2. CASE n.dirty
  <2> DEFINE w == [n EXCEPT !.dirty = FALSE]
  <2>a. n \in Node /\ n.pins # 0
    BY <1>2 DEF GoodNode, Absent
  <2>b. w \in Node /\ w.pins = n.pins
    BY <2>a DEF Node
  <2>c. w.dirty = FALSE
    BY <2>a DEF Node
  <2>1. w \in Node /\ w.pins = n.pins /\ ~w.dirty /\ w.pins > 0
    BY <2>a, <2>b, <2>c DEF Node
  <2>2. CleanNode(n) = UnpinNode(w, 1) /\ CallerPins(n) = n.pins - 1
    BY <1>2 DEF CleanNode, CallerPins
  <2> HIDE DEF w
  <2>3. GoodNode(w) /\ 1 <= w.pins
    BY <2>1 DEF GoodNode, Node
  <2>4. QED
    BY <2>1, <2>2, <2>3, UnpinLemma
<1>3. QED
  BY <1>1, <1>2

\* A size kept in the table (Table::mark_dirty) takes one pin, once.
LEMMA MarkDirtyLemma ==
    ASSUME NEW n, GoodNode(n)
    PROVE  /\ GoodNode(MarkDirtyNode(n))
           /\ CallerPins(MarkDirtyNode(n)) = CallerPins(n)
<1>1. CASE n.pins = 0 \/ n.dirty
  BY <1>1 DEF MarkDirtyNode
<1>2. CASE ~(n.pins = 0 \/ n.dirty)
  <2> DEFINE u == [n EXCEPT !.dirty = TRUE]
             w == [u EXCEPT !.pins = n.pins + 1]
  <2>1. MarkDirtyNode(n) = w
    BY <1>2 DEF MarkDirtyNode
  <2>a. n \in Node
    BY DEF GoodNode
  <2>b. u \in Node /\ u.dirty = TRUE
    BY <2>a DEF Node
  <2> HIDE DEF u
  <2>c. n.pins + 1 \in Nat
    BY <2>a DEF Node
  <2>d. w \in Node /\ w.pins = n.pins + 1 /\ w.dirty = u.dirty
    BY <2>b, <2>c DEF Node
  <2>2. w \in Node /\ w.dirty /\ w.pins = n.pins + 1
    BY <2>b, <2>d
  <2>3. n.pins \in Nat /\ ~n.dirty
    BY <1>2 DEF GoodNode, Node
  <2> HIDE DEF w
  <2>4. QED
    BY <2>1, <2>2, <2>3 DEF GoodNode, CallerPins
<1>3. QED
  BY <1>1, <1>2

\* Removing a node (Table::mark_unlinked) leaves the callers' pins as they are.
LEMMA MarkUnlinkedLemma ==
    ASSUME NEW n, GoodNode(n)
    PROVE  /\ GoodNode(MarkUnlinkedNode(n))
           /\ ~MarkUnlinkedNode(n).dirty
           /\ MarkUnlinkedNode(n).pins = CallerPins(n)
<1> DEFINE c == CleanNode(n)
<1>1. GoodNode(c) /\ ~c.dirty /\ c.pins = CallerPins(n)
  BY CleanLemma
<1>2. MarkUnlinkedNode(n) = IF c.pins = 0 THEN Absent
          ELSE [c EXCEPT !.unlinked = TRUE, !.entry = NoSlot, !.head = NoFile]
  BY DEF MarkUnlinkedNode
<1> HIDE DEF c
<1>3. QED
  BY <1>1, <1>2, AbsentType DEF GoodNode, Node, Absent

-----------------------------------------------------------------------------
(* Pins.  The inductive invariant says of every id that the node is well    *)
(* formed and that the pins that are not the driver's are the callers'.     *)

TableInv ==
    /\ nodes \in [AllIds -> Node]
    /\ refs \in [Ids -> Nat]
    /\ \A id \in AllIds : GoodNode(nodes[id])
    /\ \A id \in Ids : CallerPins(nodes[id]) = refs[id]

\* One node changes: it is enough that the new node is well formed and its
\* pins are the callers'.
LEMMA UpdateNode ==
    ASSUME TableInv, NEW id \in AllIds, NEW n, GoodNode(n),
           nodes' = [nodes EXCEPT ![id] = n],
           refs' \in [Ids -> Nat],
           \A other \in Ids : other # id => refs'[other] = refs[other],
           id \in Ids => CallerPins(n) = refs'[id]
    PROVE  TableInv'
<1>1. n \in Node
  BY DEF GoodNode
<1>2. nodes' \in [AllIds -> Node]
  BY <1>1 DEF TableInv
<1>3. \A other \in AllIds : nodes'[other] = IF other = id THEN n ELSE nodes[other]
  BY DEF TableInv
<1>4. \A other \in AllIds : GoodNode(nodes'[other])
  BY <1>3 DEF TableInv
<1>5. \A other \in Ids : CallerPins(nodes'[other]) = refs'[other]
  BY <1>3 DEF TableInv, AllIds
<1>6. QED
  BY <1>2, <1>4, <1>5 DEF TableInv

\* One node changes and no caller pins or forgets.
LEMMA UpdateKeepingPins ==
    ASSUME TableInv, NEW id \in AllIds, NEW n, GoodNode(n),
           nodes' = [nodes EXCEPT ![id] = n],
           CallerPins(n) = CallerPins(nodes[id]), refs' = refs
    PROVE  TableInv'
<1>1. refs' \in [Ids -> Nat] /\ (id \in Ids => CallerPins(n) = refs'[id])
  BY DEF TableInv
<1>2. QED
  BY <1>1, UpdateNode

\* The pinned node of a slot (pinned_at) is a node in the table, on that slot.
LEMMA IdAtLemma ==
    ASSUME NEW s, IdAt(s) # Reserved
    PROVE  IdAt(s) \in Ids /\ nodes[IdAt(s)].pins > 0 /\ nodes[IdAt(s)].entry = s
BY DEF IdAt, PinnedAt

LEMMA IdAtType == ASSUME NEW s PROVE IdAt(s) \in AllIds
BY IdAtLemma DEF AllIds

\* Removing a node, and moving the node of a renamed file, keep the callers' pins.
LEMMA UnlinkKeepsPins ==
    ASSUME TableInv, NEW id \in AllIds, nodes' = MarkUnlinked(nodes, id), refs' = refs
    PROVE  TableInv'
<1>1. GoodNode(nodes[id])
  BY DEF TableInv
<1>2. GoodNode(MarkUnlinkedNode(nodes[id]))
      /\ CallerPins(MarkUnlinkedNode(nodes[id])) = CallerPins(nodes[id])
  BY <1>1, MarkUnlinkedLemma DEF CallerPins
<1>3. QED
  BY <1>2, UpdateKeepingPins DEF MarkUnlinked
LEMMA EntryKeepsPins ==
    ASSUME NEW n, GoodNode(n), n.pins # 0, NEW s \in Slots \cup {NoSlot}
    PROVE  /\ GoodNode([n EXCEPT !.entry = s])
           /\ CallerPins([n EXCEPT !.entry = s]) = CallerPins(n)
<1> DEFINE w == [n EXCEPT !.entry = s]
<1>1. w \in Node /\ w.pins = n.pins /\ w.dirty = n.dirty
  BY DEF GoodNode, Node
<1> HIDE DEF w
<1>2. GoodNode(w) /\ CallerPins(w) = CallerPins(n)
  BY <1>1 DEF GoodNode, CallerPins
<1>3. QED
  BY <1>2 DEF w

\* A table is sound for the callers' pins r.
TableOK(t, r) ==
    /\ t \in [AllIds -> Node]
    /\ \A id \in AllIds : GoodNode(t[id])
    /\ \A id \in Ids : CallerPins(t[id]) = r[id]

LEMMA TableInvOK == TableInv <=> refs \in [Ids -> Nat] /\ TableOK(nodes, refs)
BY DEF TableInv, TableOK

LEMMA ReplaceOK ==
    ASSUME NEW t, NEW r, TableOK(t, r), NEW id \in AllIds, NEW n, GoodNode(n),
           CallerPins(n) = CallerPins(t[id])
    PROVE  TableOK([t EXCEPT ![id] = n], r)
<1> DEFINE u == [t EXCEPT ![id] = n]
<1>1. n \in Node /\ t \in [AllIds -> Node]
  BY DEF GoodNode, TableOK
<1>2. u \in [AllIds -> Node]
  BY <1>1
<1>3. \A other \in AllIds : u[other] = IF other = id THEN n ELSE t[other]
  BY <1>1
<1> HIDE DEF u
<1>4. \A other \in AllIds : GoodNode(u[other])
  BY <1>3 DEF TableOK
<1>5. \A other \in Ids : CallerPins(u[other]) = r[other]
  BY <1>3 DEF TableOK, AllIds
<1>6. TableOK(u, r)
  BY <1>2, <1>4, <1>5 DEF TableOK
<1>7. QED
  BY <1>6 DEF u

\* finish_rename's update of the table keeps the callers' pins.
LEMMA RehomeKeepsPins ==
    ASSUME TableInv, NEW source \in AllIds, NEW target \in AllIds,
           NEW d \in Slots \cup {NoSlot},
           nodes' = Rehome(nodes, source, target, d), refs' = refs
    PROVE  TableInv'
<1> DEFINE gone == IF target = Reserved THEN nodes ELSE MarkUnlinked(nodes, target)
<1>1. TableOK(nodes, refs) /\ refs \in [Ids -> Nat]
  BY TableInvOK
<1>2. GoodNode(MarkUnlinkedNode(nodes[target]))
      /\ CallerPins(MarkUnlinkedNode(nodes[target])) = CallerPins(nodes[target])
  BY <1>1, MarkUnlinkedLemma DEF CallerPins, TableOK
<1>3. TableOK(MarkUnlinked(nodes, target), refs)
  BY <1>1, <1>2, ReplaceOK DEF MarkUnlinked
<1>4. TableOK(gone, refs)
  BY <1>1, <1>3
<1>5. nodes' = IF source = Reserved \/ gone[source].pins = 0 THEN gone
               ELSE [gone EXCEPT ![source] = [gone[source] EXCEPT !.entry = d]]
  BY DEF Rehome
<1> HIDE DEF gone
<1>6. CASE source = Reserved \/ gone[source].pins = 0
  BY <1>1, <1>4, <1>5, <1>6 DEF TableInv, TableOK
<1>7. CASE ~(source = Reserved \/ gone[source].pins = 0)
  <2>1. GoodNode(gone[source])
    BY <1>4 DEF TableOK
  <2>2. /\ GoodNode([gone[source] EXCEPT !.entry = d])
        /\ CallerPins([gone[source] EXCEPT !.entry = d]) = CallerPins(gone[source])
    BY <1>7, <2>1, EntryKeepsPins
  <2>a. TableOK([gone EXCEPT ![source] = [gone[source] EXCEPT !.entry = d]], refs)
    BY <1>4, <2>2, ReplaceOK
  <2>3. TableOK(nodes', refs)
    BY <1>5, <1>7, <2>a
  <2>4. QED
    BY <1>1, <2>3 DEF TableInv, TableOK
<1>8. QED
  BY <1>6, <1>7

\* The types of what the table does not hold.
OtherTypes ==
    /\ disk \in [Slots -> Entry]
    /\ moved \in BOOLEAN
    /\ rename \in [src : Slots \cup {NoSlot}, dst : Slots \cup {NoSlot}, entry : Entry,
                   target : Slots \cup {NoSlot}, saved : Entry,
                   source_id : AllIds, target_id : AllIds, committed : BOOLEAN]
    /\ removed \in [slot : Slots \cup {NoSlot}, head : Files \cup {NoFile}]
    /\ opened \in [Ids -> Nat]

\* A node made for an entry starts with one pin, the caller's.
LEMMA NewNodeLemma ==
    ASSUME NEW s \in Slots \cup {NoSlot}, NEW e \in Entry
    PROVE  GoodNode(NewNode(s, e)) /\ CallerPins(NewNode(s, e)) = 1
<1>1. e.file \in Files \cup {NoFile} /\ e.head \in Files \cup {NoFile}
  BY DEF Entry
<1>2. QED
  BY <1>1 DEF NewNode, GoodNode, Node, CallerPins

\* Inserting a node under a free id and handing it to a caller.
LEMMA InsertOK ==
    ASSUME TableInv, NEW s \in Slots \cup {NoSlot}, NEW e \in Entry,
           NEW id \in Ids, nodes[id].pins = 0,
           nodes' = Insert(nodes, id, NewNode(s, e)), refs' = [refs EXCEPT ![id] = 1]
    PROVE  TableInv'
<1>1. refs' \in [Ids -> Nat] /\ refs'[id] = 1
      /\ \A other \in Ids : other # id => refs'[other] = refs[other]
  BY DEF TableInv
<1>2. QED
  BY <1>1, NewNodeLemma, UpdateNode DEF Insert, AllIds

\* Writing a node to its entry gives back the driver's pin.
LEMMA CleanKeepsPins ==
    ASSUME NEW n, GoodNode(n)
    PROVE  GoodNode(CleanNode(n)) /\ CallerPins(CleanNode(n)) = CallerPins(n)
BY CleanLemma DEF CallerPins

LEMMA FlushKeepsPins ==
    ASSUME NEW n, GoodNode(n)
    PROVE  GoodNode(FlushNode(n)) /\ CallerPins(FlushNode(n)) = CallerPins(n)
BY CleanKeepsPins DEF FlushNode

LEMMA HeadKeepsPins ==
    ASSUME NEW n, GoodNode(n), n.pins # 0, NEW h \in Files \cup {NoFile}
    PROVE  /\ GoodNode([n EXCEPT !.head = h])
           /\ CallerPins([n EXCEPT !.head = h]) = CallerPins(n)
<1> DEFINE w == [n EXCEPT !.head = h]
<1>1. w \in Node /\ w.pins = n.pins /\ w.dirty = n.dirty
  BY DEF GoodNode, Node
<1> HIDE DEF w
<1>2. GoodNode(w) /\ CallerPins(w) = CallerPins(n)
  BY <1>1 DEF GoodNode, CallerPins
<1>3. QED
  BY <1>2 DEF w

LEMMA OpensKeepsPins ==
    ASSUME NEW n, GoodNode(n), n.pins # 0, NEW k \in Nat
    PROVE  /\ GoodNode([n EXCEPT !.opens = k])
           /\ CallerPins([n EXCEPT !.opens = k]) = CallerPins(n)
<1> DEFINE w == [n EXCEPT !.opens = k]
<1>1. w \in Node /\ w.pins = n.pins /\ w.dirty = n.dirty
  BY DEF GoodNode, Node
<1> HIDE DEF w
<1>2. GoodNode(w) /\ CallerPins(w) = CallerPins(n)
  BY <1>1 DEF GoodNode, CallerPins
<1>3. QED
  BY <1>2 DEF w
-----------------------------------------------------------------------------
OpenHeld == \A id \in Ids : opened[id] > 0 => refs[id] > 0

PinInv == TableInv /\ OtherTypes /\ OpenHeld

\* The callers' pins are accounted for in every step.
LEMMA TableInvStep == PinInv /\ Next => TableInv'
<1> SUFFICES ASSUME PinInv, Next PROVE TableInv'
  OBVIOUS
<1> USE DEF AllIds
<1>a. TableInv /\ OtherTypes /\ OpenHeld
  BY DEF PinInv
<1>b. \A id \in Ids : refs[id] > 0 => nodes[id].pins > 0
  BY <1>a DEF TableInv, CallerPins, Node
<1>1. ASSUME NEW s \in Slots, Lookup(s) PROVE TableInv'
  <2>1. CASE IdAt(s) # Reserved
    <3> DEFINE id == IdAt(s)
               n == [nodes[id] EXCEPT !.pins = nodes[id].pins + 1]
    <3>1. id \in Ids /\ GoodNode(nodes[id]) /\ nodes[id].pins > 0
      BY <1>a, <2>1, IdAtLemma DEF TableInv
    <3>2. nodes' = [nodes EXCEPT ![id] = n] /\ refs' = [refs EXCEPT ![id] = refs[id] + 1]
      BY <1>1, <2>1 DEF Lookup, Pin
    <3> HIDE DEF id
    <3>3. nodes[id].pins + 1 \in Nat /\ nodes[id] \in Node
      BY <3>1 DEF GoodNode, Node
    <3>4. n \in Node /\ n.pins = nodes[id].pins + 1 /\ n.dirty = nodes[id].dirty
      BY <3>3 DEF Node
    <3>5. GoodNode(n) /\ CallerPins(n) = refs[id] + 1
      BY <1>a, <3>1, <3>3, <3>4 DEF GoodNode, CallerPins, TableInv, Node
    <3> HIDE DEF n
    <3>6. refs' \in [Ids -> Nat] /\ refs'[id] = refs[id] + 1
          /\ \A other \in Ids : other # id => refs'[other] = refs[other]
      BY <1>a, <3>1, <3>2 DEF TableInv
    <3>7. QED
      BY <1>a, <3>1, <3>2, <3>5, <3>6, UpdateNode
  <2>2. CASE IdAt(s) = Reserved
    <3>1. PICK id \in FreeIds(nodes, s) :
            nodes' = Insert(nodes, id, NewNode(s, disk[s])) /\ refs' = [refs EXCEPT ![id] = 1]
      BY <1>1, <2>2 DEF Lookup, FreeId
    <3>2. id \in Ids /\ nodes[id].pins = 0 /\ disk[s] \in Entry
      BY <1>a DEF FreeIds, OtherTypes
    <3>3. QED
      BY <1>a, <3>1, <3>2, InsertOK
  <2>3. QED
    BY <2>1, <2>2
<1>2. ASSUME NEW s \in Slots, NEW tag \in Tags, NEW f \in Files, Create(s, tag, f)
      PROVE  TableInv'
  <2> DEFINE e == [tag |-> tag, file |-> f, head |-> NoFile]
  <2>1. e \in Entry
    BY DEF Entry
  <2>2. CASE \E id \in FreeId(nodes, s, tag) :
                 nodes' = Insert(nodes, id, NewNode(s, e)) /\ refs' = [refs EXCEPT ![id] = 1]
    <3>1. PICK id \in FreeIds(nodes, s) :
            nodes' = Insert(nodes, id, NewNode(s, e)) /\ refs' = [refs EXCEPT ![id] = 1]
      BY <2>2 DEF FreeId
    <3>2. QED
      BY <1>a, <2>1, <3>1, InsertOK DEF FreeIds
  <2>3. CASE UNCHANGED <<nodes, refs>>
    BY <1>a, <2>3 DEF TableInv
  <2>4. QED
    BY <1>2, <2>2, <2>3 DEF Create
<1>3. ASSUME NEW s \in Slots, NEW tag \in Tags, NEW f \in Files, CreateDropped(s, tag, f)
      PROVE  TableInv'
  <2>1. GoodNode(NewNode(NoSlot, NoEntry))
    BY AbsentType, NewNodeLemma
  <2>2. nodes' = [nodes EXCEPT ![Reserved] = NewNode(NoSlot, NoEntry)] /\ refs' = refs
    BY <1>3 DEF CreateDropped, Insert
  <2>3. QED
    BY <1>a, <2>1, <2>2, UpdateNode DEF TableInv
<1>4. ASSUME NEW id \in Ids, Write(id) PROVE TableInv'
  <2>1. GoodNode(nodes[id]) /\ nodes[id].pins # 0 /\ nodes[id].file \in Files \cup {NoFile}
    BY <1>a, <1>4 DEF TableInv, Write, Usable, Node
  <2>2. CASE nodes[id].head = NoFile
    <3> DEFINE n == [nodes[id] EXCEPT !.head = nodes[id].file]
    <3>1. GoodNode(n) /\ CallerPins(n) = CallerPins(nodes[id])
      BY <2>1, HeadKeepsPins
    <3>2. nodes' = [nodes EXCEPT ![id] = CleanNode(n)] /\ refs' = refs
      BY <1>4, <2>2 DEF Write
    <3> HIDE DEF n
    <3>3. QED
      BY <1>a, <3>1, <3>2, CleanKeepsPins, UpdateKeepingPins
  <2>3. CASE nodes[id].head # NoFile
    <3>1. nodes' = [nodes EXCEPT ![id] = MarkDirtyNode(nodes[id])] /\ refs' = refs
      BY <1>4, <2>3 DEF Write
    <3>2. QED
      BY <1>a, <2>1, <3>1, MarkDirtyLemma, UpdateKeepingPins
  <2>4. QED
    BY <2>2, <2>3
<1>5. ASSUME NEW id \in Ids, Truncate(id) PROVE TableInv'
  <2>1. GoodNode(nodes[id]) /\ nodes[id].pins # 0
    BY <1>a, <1>5 DEF TableInv, Truncate, Usable, Node
  <2> DEFINE n == [nodes[id] EXCEPT !.head = NoFile]
  <2>2. GoodNode(n) /\ CallerPins(n) = CallerPins(nodes[id])
    BY <2>1, HeadKeepsPins
  <2>3. nodes' = [nodes EXCEPT ![id] = CleanNode(n)] /\ refs' = refs
    BY <1>5 DEF Truncate
  <2> HIDE DEF n
  <2>4. QED
    BY <1>a, <2>2, <2>3, CleanKeepsPins, UpdateKeepingPins
<1>6. ASSUME NEW id \in Ids, WriteUnpinned(id) PROVE TableInv'
  BY <1>a, <1>6 DEF WriteUnpinned, TableInv
<1>7. ASSUME NEW id \in Ids, Open(id) PROVE TableInv'
  <2>1. GoodNode(nodes[id]) /\ nodes[id].pins # 0 /\ nodes[id].opens + 1 \in Nat
    BY <1>a, <1>7 DEF TableInv, Open, Usable, Node
  <2>2. nodes' = [nodes EXCEPT ![id] = [nodes[id] EXCEPT !.opens = nodes[id].opens + 1]]
        /\ refs' = refs
    BY <1>7 DEF Open
  <2>3. QED
    BY <1>a, <2>1, <2>2, OpensKeepsPins, UpdateKeepingPins
<1>8. ASSUME NEW id \in Ids, Close(id) PROVE TableInv'
  <2> DEFINE k == IF nodes[id].opens = 0 THEN 0 ELSE nodes[id].opens - 1
             n == [nodes[id] EXCEPT !.opens = k]
  <2>1. nodes[id].pins > 0 /\ nodes[id] \in Node
    BY <1>a, <1>b, <1>8 DEF Close, OpenHeld, TableInv
  <2>2. GoodNode(nodes[id]) /\ nodes[id].pins # 0 /\ k \in Nat
    BY <1>a, <2>1 DEF TableInv, Node
  <2>3. nodes' = [nodes EXCEPT ![id] = FlushNode(n)] /\ refs' = refs
    BY <1>8 DEF Close, CloseNode
  <2> HIDE DEF k
  <2>4. GoodNode(n) /\ CallerPins(n) = CallerPins(nodes[id])
    BY <2>2, OpensKeepsPins
  <2> HIDE DEF n
  <2>5. QED
    BY <1>a, <2>3, <2>4, FlushKeepsPins, UpdateKeepingPins
<1>9. ASSUME NEW id \in Ids, Fsync(id) PROVE TableInv'
  <2>1. nodes' = [nodes EXCEPT ![id] = FlushNode(nodes[id])] /\ refs' = refs
    BY <1>9 DEF Fsync
  <2>2. QED
    BY <1>a, <2>1, FlushKeepsPins, UpdateKeepingPins DEF TableInv
<1>10. ASSUME NEW id \in Ids, Sync(id) PROVE TableInv'
  <2>1. nodes' = [nodes EXCEPT ![id] = CleanNode(nodes[id])] /\ refs' = refs
    BY <1>10 DEF Sync
  <2>2. QED
    BY <1>a, <2>1, CleanKeepsPins, UpdateKeepingPins DEF TableInv
<1>11. ASSUME NEW id \in Ids, NEW n \in 1 .. MaxPins, Forget(id, n) PROVE TableInv'
  <2>1. /\ nodes[id] \in Node /\ GoodNode(nodes[id]) /\ refs[id] \in Nat
        /\ CallerPins(nodes[id]) = refs[id] /\ n \in Nat /\ n >= 1 /\ n <= refs[id]
    BY <1>a, <1>11 DEF TableInv, Forget
  <2>2. UserPins(nodes[id]) = refs[id]
    BY <2>1 DEF UserPins, CallerPins
  <2>a. (IF n < refs[id] THEN n ELSE refs[id]) = n
    BY <2>1
  <2>b. ForgetNode(nodes[id], n) = UnpinNode(nodes[id], n)
    BY <2>2, <2>a DEF ForgetNode
  <2>3. nodes' = [nodes EXCEPT ![id] = UnpinNode(nodes[id], n)]
        /\ refs' = [refs EXCEPT ![id] = refs[id] - n]
    BY <1>11, <2>b DEF Forget
  <2>4. n <= nodes[id].pins
    BY <2>1 DEF CallerPins, Node
  <2>5. /\ GoodNode(UnpinNode(nodes[id], n))
        /\ UnpinNode(nodes[id], n).pins = nodes[id].pins - n
        /\ UnpinNode(nodes[id], n).dirty <=> (nodes[id].dirty /\ nodes[id].pins # n)
    BY <2>1, <2>4, UnpinLemma
  <2>6. CallerPins(UnpinNode(nodes[id], n)) = refs[id] - n
    BY <2>1, <2>5 DEF CallerPins, Node
  <2>7. refs' \in [Ids -> Nat] /\ refs'[id] = refs[id] - n
        /\ \A other \in Ids : other # id => refs'[other] = refs[other]
    BY <1>a, <2>1, <2>3 DEF TableInv
  <2>8. QED
    BY <1>a, <2>3, <2>5, <2>6, <2>7, UpdateNode
<1>12. ASSUME NEW s \in Slots, Unlink(s) PROVE TableInv'
  BY <1>a, <1>12, IdAtType, UnlinkKeepsPins DEF Unlink, TableInv
<1>13. ASSUME NEW s \in Slots, UnlinkDropped(s) PROVE TableInv'
  BY <1>a, <1>13 DEF UnlinkDropped, TableInv
<1>14. ASSUME NEW s \in Slots, NEW d \in Slots, NEW t \in Slots \cup {NoSlot}, Rename(s, d, t)
       PROVE  TableInv'
  BY <1>a, <1>14, IdAtType, RehomeKeepsPins DEF Rename, TargetId
<1>15. ASSUME NEW s \in Slots, NEW d \in Slots, NEW t \in Slots \cup {NoSlot},
              RenameDropped(s, d, t)
       PROVE  TableInv'
  BY <1>a, <1>15 DEF RenameDropped, TableInv
<1>16. ASSUME DropReserved PROVE TableInv'
  <2>1. GoodNode(Absent)
    BY AbsentType DEF GoodNode
  <2>2. QED
    BY <1>a, <1>16, <2>1, UpdateNode DEF DropReserved, TableInv
<1>17. ASSUME FinishRename PROVE TableInv'
  <2>1. rename.source_id \in AllIds /\ rename.target_id \in AllIds
        /\ rename.dst \in Slots \cup {NoSlot}
    BY <1>a DEF OtherTypes
  <2>2. CASE nodes' = Rehome(nodes, rename.source_id, rename.target_id, rename.dst)
    BY <1>a, <1>17, <2>1, <2>2, RehomeKeepsPins DEF FinishRename
  <2>3. CASE UNCHANGED nodes
    BY <1>a, <1>17, <2>3 DEF FinishRename, TableInv
  <2>4. QED
    BY <1>17, <2>2, <2>3 DEF FinishRename
<1>18. ASSUME FinishRemoval PROVE TableInv'
  <2>1. IdAt(removed.slot) \in AllIds
    BY IdAtType
  <2>2. CASE nodes' = MarkUnlinked(nodes, IdAt(removed.slot))
    BY <1>a, <1>18, <2>1, <2>2, UnlinkKeepsPins DEF FinishRemoval
  <2>3. CASE UNCHANGED nodes
    BY <1>a, <1>18, <2>3 DEF FinishRemoval, TableInv
  <2>4. QED
    BY <1>18, <2>2, <2>3 DEF FinishRemoval
<1>19. ASSUME FinishRenameDropped PROVE TableInv'
  BY <1>a, <1>19 DEF FinishRenameDropped, TableInv
<1>20. QED
  BY <1>1, <1>2, <1>3, <1>4, <1>5, <1>6, <1>7, <1>8, <1>9, <1>10, <1>11, <1>12,
     <1>13, <1>14, <1>15, <1>16, <1>17, <1>18, <1>19 DEF Next

\* A pending rename names slots and ids, a pending removal a slot and a head.
LEMMA OtherTypesStep == PinInv /\ Next => OtherTypes'
<1> SUFFICES ASSUME PinInv, Next PROVE OtherTypes'
  OBVIOUS
<1> USE DEF AllIds
<1>a. TableInv /\ OtherTypes
  BY DEF PinInv
<1>b. ASSUME NEW s \in Slots
      PROVE  HeadAt(s) \in Files \cup {NoFile} /\ MovedEntry(s) \in Entry
             /\ disk[s] \in Entry /\ IdAt(s) \in AllIds
  <2>1. disk[s] \in Entry
    BY <1>a DEF OtherTypes
  <2>2. disk[s].head \in Files \cup {NoFile}
    BY <2>1 DEF Entry
  <2>3. HeadAt(s) \in Files \cup {NoFile}
    BY <1>a, <2>2, IdAtLemma DEF HeadAt, TableInv, Node
  <2>4. MovedEntry(s) \in Entry
    BY <2>1, <2>3 DEF MovedEntry, Entry
  <2>5. QED
    BY <2>1, <2>3, <2>4, IdAtType
<1>c. NoEntry \in Entry
  BY AbsentType
<1>1. ASSUME NEW s \in Slots, Lookup(s) PROVE OtherTypes'
  BY <1>a, <1>1 DEF Lookup, OtherTypes
<1>2. ASSUME NEW s \in Slots, NEW tag \in Tags, NEW f \in Files,
             Create(s, tag, f) \/ CreateDropped(s, tag, f)
      PROVE  OtherTypes'
  <2>1. [tag |-> tag, file |-> f, head |-> NoFile] \in Entry
    BY DEF Entry
  <2>2. disk' \in [Slots -> Entry]
    BY <1>a, <1>2, <2>1 DEF Create, CreateDropped, OtherTypes
  <2>3. UNCHANGED <<moved, rename, removed, opened>>
    BY <1>2 DEF Create, CreateDropped
  <2>4. QED
    BY <1>a, <2>2, <2>3 DEF OtherTypes
<1>3. ASSUME NEW id \in Ids, Write(id) \/ Truncate(id) \/ WriteUnpinned(id)
      PROVE  OtherTypes'
  <2>1. ASSUME NEW s, NEW h \in Files \cup {NoFile}
        PROVE  [disk EXCEPT ![s].head = h] \in [Slots -> Entry]
    BY <1>a DEF OtherTypes, Entry
  <2>2. nodes[id].file \in Files \cup {NoFile} /\ id[1] \in Slots
    BY <1>a DEF TableInv, Node, Ids
  <2>3. disk[id[1]].file \in Files \cup {NoFile}
    BY <1>a, <2>2 DEF OtherTypes, Entry
  <2>4. disk' \in [Slots -> Entry]
    BY <1>a, <1>3, <2>1, <2>2, <2>3 DEF Write, Truncate, WriteUnpinned, OtherTypes
  <2>5. UNCHANGED <<moved, rename, removed, opened>>
    BY <1>3 DEF Write, Truncate, WriteUnpinned
  <2>6. QED
    BY <1>a, <2>4, <2>5 DEF OtherTypes
<1>d. ASSUME NEW id \in Ids PROVE Stored(nodes[id]) \in [Slots -> Entry]
  <2>1. nodes[id].head \in Files \cup {NoFile}
    BY <1>a DEF TableInv, Node
  <2>2. QED
    BY <1>a, <2>1 DEF Stored, OtherTypes, Entry
<1>4. ASSUME NEW id \in Ids, Open(id) \/ Close(id) PROVE OtherTypes'
  <2>1. opened' \in [Ids -> Nat]
    BY <1>a, <1>4 DEF Open, Close, OtherTypes
  <2>2. UNCHANGED <<moved, rename, removed>> /\ disk' \in {disk, Stored(nodes[id])}
    BY <1>4 DEF Open, Close
  <2>3. QED
    BY <1>a, <1>d, <2>1, <2>2 DEF OtherTypes
<1>5. ASSUME NEW id \in Ids, Fsync(id) \/ Sync(id) PROVE OtherTypes'
  <2>1. UNCHANGED <<moved, rename, removed, opened>> /\ disk' = Stored(nodes[id])
    BY <1>5 DEF Fsync, Sync
  <2>2. QED
    BY <1>a, <1>d, <2>1 DEF OtherTypes
<1>e. ASSUME DropReserved PROVE OtherTypes'
  BY <1>a, <1>e DEF DropReserved, OtherTypes
<1>6. ASSUME NEW id \in Ids, NEW n \in 1 .. MaxPins, Forget(id, n) PROVE OtherTypes'
  <2>1. moved' \in BOOLEAN /\ UNCHANGED <<disk, rename, removed, opened>>
    BY <1>6 DEF Forget
  <2>2. QED
    BY <1>a, <2>1 DEF OtherTypes
<1>7. ASSUME NEW s \in Slots, Unlink(s) PROVE OtherTypes'
  <2>1. disk' \in [Slots -> Entry] /\ UNCHANGED <<rename, removed, opened>>
    BY <1>a, <1>c, <1>7 DEF Unlink, OtherTypes
  <2>2. moved' \in BOOLEAN
    BY <1>a, <1>7 DEF Unlink, OtherTypes
  <2>3. QED
    BY <1>a, <2>1, <2>2 DEF OtherTypes
<1>8. ASSUME NEW s \in Slots \cup {NoSlot}
      PROVE  Removal(s) \in [slot : Slots \cup {NoSlot}, head : Files \cup {NoFile}]
  BY <1>b DEF Removal, NoRemoval
<1>9. ASSUME NEW s \in Slots, UnlinkDropped(s) PROVE OtherTypes'
  <2>1. disk' \in [Slots -> Entry] /\ UNCHANGED <<moved, rename, opened>>
    BY <1>a, <1>c, <1>9 DEF UnlinkDropped, OtherTypes
  <2>2. QED
    BY <1>a, <1>8, <1>9, <2>1 DEF UnlinkDropped, OtherTypes
<1>10. ASSUME NEW s \in Slots, NEW d \in Slots, NEW t \in Slots \cup {NoSlot}, Rename(s, d, t)
       PROVE  OtherTypes'
  <2>1. disk' \in [Slots -> Entry]
    BY <1>a, <1>b, <1>c, <1>10 DEF Rename, OtherTypes
  <2>2. moved' \in BOOLEAN /\ UNCHANGED <<rename, removed, opened>>
    BY <1>10 DEF Rename
  <2>3. QED
    BY <1>a, <2>1, <2>2 DEF OtherTypes
<1>11. ASSUME NEW s \in Slots, NEW d \in Slots, NEW t \in Slots \cup {NoSlot},
              RenameDropped(s, d, t)
       PROVE  OtherTypes'
  <2>1. PICK landed \in 0 .. 3, committed \in BOOLEAN :
          /\ rename' = [src |-> s, dst |-> d, entry |-> MovedEntry(s), target |-> t,
                        saved |-> IF t = NoSlot THEN NoEntry ELSE disk[t],
                        source_id |-> IdAt(s), target_id |-> TargetId(t),
                        committed |-> committed]
          /\ disk' = [x \in Slots |->
                         IF x = d /\ landed >= 2 THEN MovedEntry(s)
                         ELSE IF (x = t /\ landed >= 1) \/ (x = s /\ landed = 3) THEN NoEntry
                         ELSE disk[x]]
    BY <1>11 DEF RenameDropped
  <2>2. disk' \in [Slots -> Entry]
    BY <1>a, <1>b, <1>c, <2>1 DEF OtherTypes
  <2>3. TargetId(t) \in AllIds /\ IdAt(s) \in AllIds
    BY IdAtType DEF TargetId
  <2>4. (IF t = NoSlot THEN NoEntry ELSE disk[t]) \in Entry
    BY <1>b, <1>c
  <2>5. rename' \in [src : Slots \cup {NoSlot}, dst : Slots \cup {NoSlot}, entry : Entry,
                   target : Slots \cup {NoSlot}, saved : Entry,
                   source_id : AllIds, target_id : AllIds, committed : BOOLEAN]
    BY <1>b, <2>1, <2>3, <2>4
  <2>6. removed' \in [slot : Slots \cup {NoSlot}, head : Files \cup {NoFile}]
    BY <1>8, <1>11 DEF RenameDropped
  <2>7. UNCHANGED <<moved, opened>>
    BY <1>11 DEF RenameDropped
  <2>8. QED
    BY <1>a, <2>2, <2>5, <2>6, <2>7 DEF OtherTypes
<1>12. NoRename \in [src : Slots \cup {NoSlot}, dst : Slots \cup {NoSlot}, entry : Entry,
                    target : Slots \cup {NoSlot}, saved : Entry,
                    source_id : AllIds, target_id : AllIds, committed : BOOLEAN]
       /\ NoRemoval \in [slot : Slots \cup {NoSlot}, head : Files \cup {NoFile}]
  BY <1>c DEF NoRename, NoRemoval
<1>f. /\ SourceCleared \in [Slots -> Entry] /\ Undone \in [Slots -> Entry]
      /\ [disk EXCEPT ![rename.dst] = NoEntry] \in [Slots -> Entry]
  <2>1. rename.saved \in Entry
    BY <1>a DEF OtherTypes
  <2>2. Undone \in [Slots -> Entry]
    BY <1>a, <1>c, <2>1 DEF OtherTypes, Undone
  <2>3. QED
    BY <1>a, <1>c, <2>2 DEF OtherTypes, SourceCleared
<1>13. ASSUME FinishRename PROVE OtherTypes'
  <2>1. moved' \in BOOLEAN
    BY <1>a, <1>13 DEF FinishRename, OtherTypes
  <2>2. disk' \in [Slots -> Entry] /\ moved' \in BOOLEAN
    BY <1>13, <1>f, <2>1 DEF FinishRename
  <2>3. rename' = NoRename /\ UNCHANGED <<removed, opened>>
    BY <1>13 DEF FinishRename
  <2>4. QED
    BY <1>a, <1>12, <2>2, <2>3 DEF OtherTypes
<1>14. ASSUME FinishRemoval PROVE OtherTypes'
  <2>1. moved' \in BOOLEAN /\ removed' = NoRemoval /\ UNCHANGED <<disk, rename, opened>>
    BY <1>a, <1>14 DEF FinishRemoval, OtherTypes
  <2>2. QED
    BY <1>a, <1>12, <2>1 DEF OtherTypes
<1>15. ASSUME FinishRenameDropped PROVE OtherTypes'
  <2>1. disk' \in [Slots -> Entry] /\ UNCHANGED <<moved, removed, opened>>
    BY <1>a, <1>f, <1>15 DEF FinishRenameDropped, OtherTypes
  <2>2. [rename EXCEPT !.committed = TRUE] \in
          [src : Slots \cup {NoSlot}, dst : Slots \cup {NoSlot}, entry : Entry,
           target : Slots \cup {NoSlot}, saved : Entry,
           source_id : AllIds, target_id : AllIds, committed : BOOLEAN]
    BY <1>a DEF OtherTypes
  <2>3. rename' \in {rename, [rename EXCEPT !.committed = TRUE]}
    BY <1>15 DEF FinishRenameDropped
  <2>4. QED
    BY <1>a, <2>1, <2>2, <2>3 DEF OtherTypes
<1>16. QED
  BY <1>1, <1>2, <1>3, <1>4, <1>5, <1>e, <1>6, <1>7, <1>9, <1>10, <1>11, <1>13, <1>14, <1>15
     DEF Next

\* A caller forgets its last pin only when it has closed the file.
LEMMA OpenHeldStep == PinInv /\ Next => OpenHeld'
<1> SUFFICES ASSUME PinInv, Next, NEW id \in Ids, opened'[id] > 0 PROVE refs'[id] > 0
  BY DEF OpenHeld
<1>a. refs \in [Ids -> Nat] /\ opened \in [Ids -> Nat] /\ (opened[id] > 0 => refs[id] > 0)
  BY DEF PinInv, TableInv, OtherTypes, OpenHeld
<1>1. ASSUME NEW other \in Ids, Open(other) \/ Close(other) PROVE refs'[id] > 0
  BY <1>a, <1>1 DEF Open, Close, Usable
<1>2. ASSUME NEW other \in Ids, NEW n \in 1 .. MaxPins, Forget(other, n) PROVE refs'[id] > 0
  BY <1>a, <1>2 DEF Forget
<1>3. ASSUME NEW s \in Slots, Lookup(s) PROVE refs'[id] > 0
  <2>1. IdAt(s) # Reserved => IdAt(s) \in Ids
    BY IdAtLemma
  <2>2. QED
    BY <1>a, <1>3, <2>1 DEF Lookup, FreeId, FreeIds
<1>4. ASSUME NEW s \in Slots, NEW tag \in Tags, NEW f \in Files, Create(s, tag, f)
      PROVE  refs'[id] > 0
  BY <1>a, <1>4 DEF Create, FreeId, FreeIds
<1>5. CASE UNCHANGED <<refs, opened>>
  BY <1>a, <1>5
<1>6. QED
  BY <1>1, <1>2, <1>3, <1>4, <1>5
     DEF Next, CreateDropped, Unlink, UnlinkDropped, Rename, RenameDropped, Write, Truncate,
         WriteUnpinned, Fsync, Sync, DropReserved, FinishRename, FinishRenameDropped,
         FinishRemoval

\* Initially nothing is pinned.
LEMMA PinInvInit == Init => PinInv
<1> SUFFICES ASSUME Init PROVE PinInv
  OBVIOUS
<1>1. Absent \in Node /\ NoEntry \in Entry /\ GoodNode(Absent) /\ CallerPins(Absent) = 0
  BY AbsentType DEF GoodNode, CallerPins, Absent
<1>2. TableInv
  BY <1>1 DEF Init, TableInv, AllIds
<1>3. OtherTypes
  BY <1>1 DEF Init, OtherTypes, NoRename, NoRemoval, AllIds
<1>4. OpenHeld
  BY DEF Init, OpenHeld
<1>5. QED
  BY <1>2, <1>3, <1>4 DEF PinInv

LEMMA PinInvStep == PinInv /\ [Next]_vars => PinInv'
<1> SUFFICES ASSUME PinInv, [Next]_vars PROVE PinInv'
  OBVIOUS
<1>1. CASE Next
  BY <1>1, TableInvStep, OtherTypesStep, OpenHeldStep DEF PinInv
<1>2. CASE UNCHANGED vars
  BY <1>2 DEF vars, PinInv, TableInv, OtherTypes, OpenHeld
<1>3. QED
  BY <1>1, <1>2

LEMMA PinInvImplies == PinInv => TypeOK /\ PinAccounting
<1> SUFFICES ASSUME PinInv PROVE TypeOK /\ PinAccounting
  OBVIOUS
<1>1. TypeOK
  BY DEF PinInv, TableInv, OtherTypes, TypeOK, GoodNode
<1>2. PinAccounting
  BY DEF PinInv, TableInv, PinAccounting, CallerPins, AllIds, Node
<1>3. QED
  BY <1>1, <1>2

\* Whatever is dropped, looked up, opened or forgotten between an interruption
\* and its recovery, the table's pin count of every id is the callers' pins
\* plus the driver's own on a dirty node (Table::pin, unpin, mark_dirty, clean,
\* mark_unlinked, forget), and the state is well typed.
THEOREM PinsAccounted == Spec => [](TypeOK /\ PinAccounting)
<1>1. Init => PinInv
  BY PinInvInit
<1>2. PinInv /\ [Next]_vars => PinInv'
  BY PinInvStep
<1>3. PinInv => TypeOK /\ PinAccounting
  BY PinInvImplies
<1>4. QED
  BY <1>1, <1>2, <1>3, PTL DEF Spec

-----------------------------------------------------------------------------
(* Where the table operations leave a node. *)

\* A node that callers reach by its entry.
LiveNode(n) == n.pins > 0 /\ ~n.unlinked

\* Nothing of a node changes but its pins and its opens.
SamePlace(n, m) ==
    /\ m.entry = n.entry /\ m.file = n.file /\ m.head = n.head
    /\ m.unlinked = n.unlinked
    /\ m.pins > 0 <=> n.pins > 0

\* A node that gives back pins stays where it is, or was the last to go.
LEMMA UnpinPlace ==
    ASSUME NEW n, GoodNode(n), NEW k \in Nat
    PROVE  \/ k < n.pins /\ SamePlace(n, UnpinNode(n, k)) /\ UnpinNode(n, k).opens = n.opens
           \/ n.pins <= k /\ UnpinNode(n, k) = Absent
<1>1. n \in Node /\ n.pins \in Nat
  BY DEF GoodNode, Node
<1>2. CASE n.pins <= k
  BY <1>2 DEF UnpinNode
<1>3. CASE k < n.pins
  <2>1. UnpinNode(n, k) = [n EXCEPT !.pins = n.pins - k]
    BY <1>1, <1>3 DEF UnpinNode
  <2>2. QED
    BY <1>1, <1>3, <2>1 DEF SamePlace, Node
<1>4. QED
  BY <1>1, <1>2, <1>3

\* Writing a node to its entry drops it only if no caller pins it.
LEMMA CleanPlace ==
    ASSUME NEW n, GoodNode(n)
    PROVE  \/ SamePlace(n, CleanNode(n)) /\ CleanNode(n).opens = n.opens
           \/ CallerPins(n) = 0 /\ CleanNode(n) = Absent
<1>1. CASE ~n.dirty
  BY <1>1 DEF CleanNode, SamePlace
<1>2. CASE n.dirty
  <2> DEFINE w == [n EXCEPT !.dirty = FALSE]
  <2>1. n \in Node /\ n.pins # 0
    BY <1>2 DEF GoodNode, Absent
  <2>2. w \in Node /\ SamePlace(n, w) /\ w.opens = n.opens /\ w.pins = n.pins
    BY <2>1 DEF Node, SamePlace
  <2>3. CleanNode(n) = UnpinNode(w, 1) /\ CallerPins(n) = n.pins - 1
    BY <1>2 DEF CleanNode, CallerPins
  <2> HIDE DEF w
  <2>4. GoodNode(w)
    BY <2>1, <2>2 DEF GoodNode
  <2>5. \/ 1 < w.pins /\ SamePlace(w, UnpinNode(w, 1)) /\ UnpinNode(w, 1).opens = w.opens
        \/ w.pins <= 1 /\ UnpinNode(w, 1) = Absent
    BY <2>4, UnpinPlace
  <2>6. n.pins \in Nat
    BY <2>1 DEF Node
  <2>7. QED
    BY <2>1, <2>2, <2>3, <2>5, <2>6 DEF SamePlace
<1>3. QED
  BY <1>1, <1>2

LEMMA FlushPlace ==
    ASSUME NEW n, GoodNode(n)
    PROVE  \/ SamePlace(n, FlushNode(n)) /\ FlushNode(n).opens = n.opens
           \/ CallerPins(n) = 0 /\ FlushNode(n) = Absent
BY CleanPlace DEF FlushNode, SamePlace

LEMMA MarkDirtyPlace ==
    ASSUME NEW n, GoodNode(n)
    PROVE  SamePlace(n, MarkDirtyNode(n)) /\ MarkDirtyNode(n).opens = n.opens
<1>1. CASE n.pins = 0 \/ n.dirty
  BY <1>1 DEF MarkDirtyNode, SamePlace
<1>2. CASE ~(n.pins = 0 \/ n.dirty)
  <2> DEFINE u == [n EXCEPT !.dirty = TRUE]
  <2>1. n \in Node /\ n.pins \in Nat
    BY DEF GoodNode, Node
  <2>2. u \in Node /\ SamePlace(n, u) /\ u.opens = n.opens
    BY <2>1 DEF Node, SamePlace
  <2>3. MarkDirtyNode(n) = [u EXCEPT !.pins = n.pins + 1]
    BY <1>2 DEF MarkDirtyNode
  <2> HIDE DEF u
  <2>4. QED
    BY <1>2, <2>1, <2>2, <2>3 DEF Node, SamePlace
<1>3. QED
  BY <1>1, <1>2

\* A removed node leaves its entry, whether callers keep it or not.
LEMMA UnlinkPlace ==
    ASSUME NEW n, GoodNode(n)
    PROVE  LET m == MarkUnlinkedNode(n)
           IN  \/ m = Absent /\ CallerPins(n) = 0
               \/ m.pins > 0 /\ m.unlinked /\ m.entry = NoSlot /\ m.file = n.file
<1> DEFINE c == CleanNode(n)
           m == MarkUnlinkedNode(n)
<1>1. GoodNode(c) /\ c.pins = CallerPins(n)
  BY CleanLemma
<1>2. \/ SamePlace(n, c)
      \/ CallerPins(n) = 0 /\ c = Absent
  BY CleanPlace
<1>3. m = IF c.pins = 0 THEN Absent
          ELSE [c EXCEPT !.unlinked = TRUE, !.entry = NoSlot, !.head = NoFile]
  BY DEF MarkUnlinkedNode
<1> HIDE DEF c, m
<1>4. CASE c.pins = 0
  BY <1>1, <1>3, <1>4 DEF m
<1>5. CASE c.pins # 0
  <2>1. c \in Node /\ c.pins \in Nat /\ c.file = n.file
    BY <1>1, <1>2, <1>5 DEF GoodNode, Node, SamePlace, Absent
  <2>2. m.pins = c.pins /\ m.unlinked /\ m.entry = NoSlot /\ m.file = c.file
    BY <1>3, <1>5, <2>1 DEF Node
  <2>3. QED
    BY <1>5, <2>1, <2>2 DEF m
<1>6. QED
  BY <1>4, <1>5

-----------------------------------------------------------------------------
(* The inductive invariant. *)

\* Node n has the file and the first cluster of its entry in directory d.
Matches(d, n) == d[n.entry].file = n.file /\ d[n.entry].head = n.head

\* Live nodes sit on slots, and on the slot their id names unless `moved` says
\* that some do not; only live nodes are open.
LinkedNode(id, n, o, m) ==
    /\ LiveNode(n) =>
         /\ n.entry \in Slots /\ n.file \in Files /\ n.opens = o
         /\ m \/ id[1] = n.entry
    /\ n.pins > 0 /\ n.unlinked => n.entry = NoSlot
    /\ ~LiveNode(n) => o = 0

Linked == \A id \in Ids : LinkedNode(id, nodes[id], opened[id], moved)

OnePerEntry ==
    \A a, b \in Ids :
        LiveNode(nodes[a]) /\ LiveNode(nodes[b]) /\ nodes[a].entry = nodes[b].entry => a = b

\* Without a rename to recover, a node is out of step with its entry only if
\* the removal x to recover cleared that entry; FinishRemoval then finds it.
SettledNode(x, d, n) ==
    LiveNode(n) =>
        \/ Matches(d, n)
        \/ /\ n.entry = x.slot /\ n.head = x.head
           /\ d[n.entry].file = NoFile /\ n.opens = 0

Settled == rename = NoRename => \A id \in Ids : SettledNode(removed, disk, nodes[id])

\* What an interrupted rename r may have written: the entry is under its old
\* name unless the rename is committed, under its new one if it is, and
\* nothing but the target was in the way of the new one.
RenamedDisk(r, d) ==
    /\ r.src \in Slots /\ r.dst \in Slots /\ r.dst # r.src /\ r.target # r.src
    /\ r.entry.file # NoFile
    /\ d[r.src] = r.entry \/ (r.committed /\ d[r.src].file = NoFile)
    /\ r.committed => d[r.dst] = r.entry
    /\ \/ d[r.dst] = r.entry \/ d[r.dst].file = NoFile
       \/ r.target = r.dst /\ d[r.dst] = r.saved
    /\ r.target \in Slots /\ r.target # r.dst =>
          d[r.target].file = NoFile \/ d[r.target] = r.saved

\* The nodes it names are still those of its two entries.
RenamedNode(r, d, id, n) ==
    /\ id = r.source_id <=> LiveNode(n) /\ n.entry = r.src
    /\ id = r.target_id <=> LiveNode(n) /\ n.entry = r.target
    /\ LiveNode(n) /\ n.entry = r.dst => r.target = r.dst
    /\ id = r.source_id => n.file = r.entry.file /\ n.head = r.entry.head
    /\ id = r.target_id => n.file = r.saved.file /\ n.head = r.saved.head /\ n.opens = 0
    /\ LiveNode(n) /\ id # r.source_id /\ id # r.target_id => Matches(d, n)

Renaming ==
    rename # NoRename =>
        RenamedDisk(rename, disk) /\ \A id \in Ids : RenamedNode(rename, disk, id, nodes[id])

LinkInv == Linked /\ OnePerEntry /\ Settled /\ Renaming

\* Initially there is no node.
LEMMA LinkInvInit == Init => LinkInv
<1> SUFFICES ASSUME Init PROVE LinkInv
  OBVIOUS
<1>1. \A id \in Ids : nodes[id] = Absent /\ ~LiveNode(Absent) /\ opened[id] = 0
  BY DEF Init, LiveNode, Absent, AllIds
<1>2. Linked /\ OnePerEntry
  BY <1>1 DEF Linked, LinkedNode, OnePerEntry, Absent
<1>3. Settled /\ Renaming
  BY <1>1 DEF Settled, SettledNode, Renaming, Init
<1>4. QED
  BY <1>2, <1>3 DEF LinkInv

\* pinned_at finds the live node of a slot, also by its short cut.
LEMMA SlotNode ==
    ASSUME Linked, OnePerEntry, NEW s \in Slots
    PROVE  /\ IdAt(s) = Reserved => \A id \in Ids : LiveNode(nodes[id]) => nodes[id].entry # s
           /\ IdAt(s) # Reserved =>
                /\ IdAt(s) \in Ids /\ LiveNode(nodes[IdAt(s)]) /\ nodes[IdAt(s)].entry = s
                /\ \A id \in Ids : LiveNode(nodes[id]) /\ nodes[id].entry = s => id = IdAt(s)
<1>1. ASSUME NEW id \in Ids, LiveNode(nodes[id]), nodes[id].entry = s
      PROVE  id \in PinnedAt(nodes, moved, s)
  BY <1>1 DEF PinnedAt, Linked, LinkedNode, LiveNode
<1>2. CASE PinnedAt(nodes, moved, s) = {}
  <2>1. IdAt(s) = Reserved
    BY <1>2 DEF IdAt
  <2>2. QED
    BY <1>1, <1>2, <2>1
<1>3. CASE PinnedAt(nodes, moved, s) # {}
  <2>1. IdAt(s) \in PinnedAt(nodes, moved, s)
    BY <1>3 DEF IdAt
  <2>2. IdAt(s) \in Ids /\ nodes[IdAt(s)].pins > 0 /\ nodes[IdAt(s)].entry = s
    BY <2>1 DEF PinnedAt
  <2>3. LiveNode(nodes[IdAt(s)])
    BY <2>2 DEF Linked, LinkedNode, LiveNode
  <2>4. IdAt(s) # Reserved
    BY <2>2
  <2>5. QED
    BY <2>2, <2>3, <2>4 DEF OnePerEntry
<1>4. QED
  BY <1>2, <1>3

\* Pins and opens change, nodes without pins go: nothing moves.  A file is
\* opened only when nothing is left to recover.
Stays(id) ==
    /\ SamePlace(nodes[id], nodes'[id])
    /\ LiveNode(nodes[id]) => nodes'[id].opens = opened'[id]
    /\ opened[id] = 0 =>
          opened'[id] = 0 \/ (LiveNode(nodes[id]) /\ rename = NoRename /\ removed = NoRemoval)
Goes(id) ==
    /\ nodes'[id] = Absent /\ opened'[id] = 0
    /\ rename # NoRename => id # rename.source_id /\ id # rename.target_id

LEMMA KeepPlaces ==
    ASSUME LinkInv, UNCHANGED <<disk, rename, removed>>,
           moved' = moved \/ \A id \in Ids : ~LiveNode(nodes'[id]),
           \A id \in Ids : Stays(id) \/ Goes(id)
    PROVE  LinkInv'
<1>0. Linked /\ OnePerEntry /\ Settled /\ Renaming
  BY DEF LinkInv
<1>1. \A id \in Ids : LiveNode(nodes'[id]) => LiveNode(nodes[id]) /\ Stays(id)
  BY DEF Stays, Goes, LiveNode, SamePlace, Absent
<1>2. ASSUME NEW id \in Ids PROVE LinkedNode(id, nodes'[id], opened'[id], moved')
  <2>1. LinkedNode(id, nodes[id], opened[id], moved)
    BY <1>0 DEF Linked
  <2>2. CASE Stays(id)
    BY <1>1, <2>1, <2>2 DEF Stays, SamePlace, LinkedNode, LiveNode
  <2>3. CASE Goes(id)
    BY <2>3 DEF Goes, Absent, LinkedNode, LiveNode
  <2>4. QED
    BY <2>2, <2>3
<1>3. OnePerEntry'
  BY <1>0, <1>1 DEF OnePerEntry, Stays, SamePlace
<1>4. ASSUME NEW id \in Ids, rename = NoRename PROVE SettledNode(removed, disk, nodes'[id])
  <2>1. SettledNode(removed, disk, nodes[id]) /\ LinkedNode(id, nodes[id], opened[id], moved)
    BY <1>0, <1>4 DEF Settled, Linked
  <2>2. QED
    BY <1>1, <2>1 DEF SettledNode, LinkedNode, Stays, SamePlace, Matches, NoRemoval
<1>5. ASSUME NEW id \in Ids, rename # NoRename PROVE RenamedNode(rename, disk, id, nodes'[id])
  <2>1. RenamedNode(rename, disk, id, nodes[id]) /\ LinkedNode(id, nodes[id], opened[id], moved)
    BY <1>0, <1>5 DEF Renaming, Linked
  <2>2. CASE Stays(id)
    BY <1>5, <2>1, <2>2 DEF RenamedNode, LinkedNode, Stays, SamePlace, Matches, LiveNode
  <2>3. CASE Goes(id)
    BY <1>5, <2>1, <2>3 DEF RenamedNode, Goes, Absent, LiveNode
  <2>4. QED
    BY <2>2, <2>3
<1>6. Linked'
  BY <1>2 DEF Linked
<1>7. Settled' /\ Renaming'
  BY <1>0, <1>4, <1>5 DEF Settled, Renaming
<1>8. QED
  BY <1>3, <1>6, <1>7 DEF LinkInv

\* When nothing is left to recover, every live node matches its entry, so a
\* free slot has no node.
LEMMA ReadyNode ==
    ASSUME LinkInv, rename = NoRename, removed = NoRemoval
    PROVE  /\ \A id \in Ids : LiveNode(nodes[id]) => Matches(disk, nodes[id])
           /\ \A s \in Slots : ~Visible(s) => \A id \in Ids : LiveNode(nodes[id]) => nodes[id].entry # s
<1>1. ASSUME NEW id \in Ids, LiveNode(nodes[id])
      PROVE  Matches(disk, nodes[id]) /\ nodes[id].entry \in Slots /\ nodes[id].file \in Files
  <2>1. SettledNode(removed, disk, nodes[id]) /\ LinkedNode(id, nodes[id], opened[id], moved)
    BY DEF LinkInv, Settled, Linked
  <2>2. QED
    BY <1>1, <2>1 DEF SettledNode, LinkedNode, NoRemoval
<1>2. QED
  BY <1>1 DEF Matches, Visible

\* All nodes but x keep their entries, and x goes where no other is.
LEMMA OneMoves ==
    ASSUME OnePerEntry, NEW x,
           \A id \in Ids : id # x /\ LiveNode(nodes'[id]) =>
              /\ LiveNode(nodes[id]) /\ nodes'[id].entry = nodes[id].entry
              /\ LiveNode(nodes'[x]) => nodes'[id].entry # nodes'[x].entry
    PROVE  OnePerEntry'
<1> SUFFICES ASSUME NEW a \in Ids, NEW b \in Ids, LiveNode(nodes'[a]), LiveNode(nodes'[b]),
                    nodes'[a].entry = nodes'[b].entry
             PROVE  a = b
  BY DEF OnePerEntry
<1>1. CASE a = x \/ b = x
  BY <1>1
<1>2. CASE a # x /\ b # x
  BY <1>2 DEF OnePerEntry
<1>3. QED
  BY <1>1, <1>2

\* intern and create_node put a node on a visible entry that has none.
LEMMA InsertPlace ==
    ASSUME PinInv, LinkInv, NEW s \in Slots, NEW e \in Entry, e.file \in Files,
           NEW x \in Ids, nodes[x].pins = 0, x[1] = s,
           nodes' = Insert(nodes, x, NewNode(s, e)), disk' = [disk EXCEPT ![s] = e],
           \A id \in Ids : LiveNode(nodes[id]) => nodes[id].entry # s,
           rename # NoRename => s # rename.src /\ s # rename.dst /\ s # rename.target,
           UNCHANGED <<moved, rename, removed, opened>>
    PROVE  LinkInv'
<1>0. Linked /\ OnePerEntry /\ Settled /\ Renaming /\ nodes \in [AllIds -> Node]
      /\ disk \in [Slots -> Entry]
  BY DEF LinkInv, PinInv, TableInv, OtherTypes
<1> DEFINE n == NewNode(s, e)
<1>1. LiveNode(n) /\ n.entry = s /\ n.file = e.file /\ n.head = e.head /\ n.opens = 0
  BY DEF NewNode, LiveNode
<1>2. nodes'[x] = n /\ \A id \in Ids : id # x => nodes'[id] = nodes[id]
  BY <1>0 DEF Insert, AllIds
<1> HIDE DEF n
<1>3. disk'[s] = e /\ \A t \in Slots : t # s => disk'[t] = disk[t]
  BY <1>0
<1>4. ~LiveNode(nodes[x]) /\ opened[x] = 0
  BY <1>0 DEF LiveNode, Linked, LinkedNode
<1>5. ASSUME NEW id \in Ids, LiveNode(nodes[id])
      PROVE  nodes[id].entry \in Slots /\ disk'[nodes[id].entry] = disk[nodes[id].entry]
  BY <1>0, <1>3, <1>5 DEF Linked, LinkedNode
<1>6. Linked'
  <2> SUFFICES ASSUME NEW id \in Ids PROVE LinkedNode(id, nodes'[id], opened'[id], moved')
    BY DEF Linked
  <2>1. CASE id = x
    BY <1>1, <1>2, <1>4, <2>1 DEF LinkedNode, LiveNode
  <2>2. CASE id # x
    BY <1>0, <1>2, <2>2 DEF Linked
  <2>3. QED
    BY <2>1, <2>2
<1>7. OnePerEntry'
  BY <1>0, <1>1, <1>2, OneMoves
<1>8. Settled'
  <2> SUFFICES ASSUME rename = NoRename, NEW id \in Ids
               PROVE  SettledNode(removed, disk', nodes'[id])
    BY DEF Settled
  <2>1. CASE id = x
    BY <1>1, <1>2, <1>3, <2>1 DEF SettledNode, Matches
  <2>2. CASE id # x
    BY <1>0, <1>2, <1>5, <2>2 DEF Settled, SettledNode, Matches
  <2>3. QED
    BY <2>1, <2>2
<1>9. Renaming'
  <2> SUFFICES ASSUME rename # NoRename
               PROVE  /\ RenamedDisk(rename, disk')
                      /\ \A id \in Ids : RenamedNode(rename, disk', id, nodes'[id])
    BY DEF Renaming
  <2>1. RenamedDisk(rename, disk) /\ \A id \in Ids : RenamedNode(rename, disk, id, nodes[id])
    BY <1>0 DEF Renaming
  <2>2. s # rename.src /\ s # rename.dst /\ s # rename.target
    BY DEF RenamedDisk
  <2>3. RenamedDisk(rename, disk')
    BY <1>3, <2>1, <2>2 DEF RenamedDisk
  <2>4. ASSUME NEW id \in Ids PROVE RenamedNode(rename, disk', id, nodes'[id])
    <3>1. CASE id = x
      BY <1>1, <1>2, <1>3, <1>4, <2>1, <2>2, <3>1 DEF RenamedNode, Matches
    <3>2. CASE id # x
      BY <1>2, <1>5, <2>1, <3>2 DEF RenamedNode, Matches
    <3>3. QED
      BY <3>1, <3>2
  <2>5. QED
    BY <2>3, <2>4
<1>10. QED
  BY <1>6, <1>7, <1>8, <1>9 DEF LinkInv

\* The directory changes where no node is.
LEMMA DiskPlaces ==
    ASSUME PinInv, LinkInv, rename = NoRename, \A id \in Ids : nodes'[id] = nodes[id],
           UNCHANGED <<moved, rename, removed, opened>>,
           \A id \in Ids : LiveNode(nodes[id]) => disk'[nodes[id].entry] = disk[nodes[id].entry]
    PROVE  LinkInv'
<1>1. Linked' /\ OnePerEntry'
  BY DEF LinkInv, Linked, OnePerEntry
<1>2. Settled'
  BY DEF LinkInv, Settled, SettledNode, Matches
<1>3. Renaming'
  BY DEF Renaming
<1>4. QED
  BY <1>1, <1>2, <1>3 DEF LinkInv

\* write and truncate change the first cluster of a node and of its entry.
LEMMA HeadPlaces ==
    ASSUME PinInv, LinkInv, rename = NoRename, removed = NoRemoval, NEW x \in Ids, NEW h,
           LiveNode(nodes[x]), refs[x] > 0,
           nodes' = [nodes EXCEPT ![x] = CleanNode([@ EXCEPT !.head = h])],
           h \in Files \cup {NoFile},
           disk' = [disk EXCEPT ![nodes[x].entry].head = h],
           UNCHANGED <<moved, rename, removed, opened>>
    PROVE  LinkInv'
<1>0. Linked /\ OnePerEntry /\ Settled /\ Renaming /\ nodes \in [AllIds -> Node]
      /\ disk \in [Slots -> Entry] /\ GoodNode(nodes[x]) /\ CallerPins(nodes[x]) = refs[x]
  BY DEF LinkInv, PinInv, TableInv, OtherTypes, AllIds
<1> DEFINE w == [nodes[x] EXCEPT !.head = h]
           n == CleanNode(w)
<1>1. /\ w.entry = nodes[x].entry /\ w.file = nodes[x].file /\ w.head = h
      /\ w.unlinked = nodes[x].unlinked /\ w.opens = nodes[x].opens /\ w.pins = nodes[x].pins
  BY <1>0 DEF GoodNode, Node
<1>2. GoodNode(w) /\ CallerPins(w) = refs[x]
  BY <1>0, HeadKeepsPins DEF LiveNode
<1>3. nodes'[x] = n /\ \A id \in Ids : id # x => nodes'[id] = nodes[id]
  BY <1>0 DEF AllIds
<1> HIDE DEF w
<1>4. SamePlace(w, n) /\ n.opens = w.opens
  BY <1>2, CleanPlace
<1> HIDE DEF n
<1>5. LiveNode(n) /\ n.entry = nodes[x].entry /\ n.file = nodes[x].file /\ n.head = h
      /\ n.opens = nodes[x].opens
  BY <1>1, <1>4 DEF SamePlace, LiveNode
<1>6. nodes[x].entry \in Slots /\ Matches(disk, nodes[x])
  BY <1>0, ReadyNode DEF Linked, LinkedNode
<1>7. /\ disk'[nodes[x].entry].head = h /\ disk'[nodes[x].entry].file = nodes[x].file
      /\ \A t \in Slots : t # nodes[x].entry => disk'[t] = disk[t]
  BY <1>0, <1>6 DEF Entry, Matches
<1>8. \A id \in Ids : id # x /\ LiveNode(nodes[id]) => nodes[id].entry \in Slots \ {nodes[x].entry}
  BY <1>0 DEF OnePerEntry, Linked, LinkedNode
<1>9. Linked'
  <2> SUFFICES ASSUME NEW id \in Ids PROVE LinkedNode(id, nodes'[id], opened'[id], moved')
    BY DEF Linked
  <2>1. CASE id = x
    BY <1>0, <1>3, <1>5, <2>1 DEF Linked, LinkedNode, LiveNode
  <2>2. CASE id # x
    BY <1>0, <1>3, <2>2 DEF Linked
  <2>3. QED
    BY <2>1, <2>2
<1>10. OnePerEntry'
  BY <1>0, <1>3, <1>5, <1>8, OneMoves
<1>11. Settled'
  <2> SUFFICES ASSUME NEW id \in Ids PROVE SettledNode(removed, disk', nodes'[id])
    BY DEF Settled
  <2>1. CASE id = x
    BY <1>3, <1>5, <1>7, <2>1 DEF SettledNode, Matches
  <2>2. CASE id # x
    BY <1>0, <1>3, <1>7, <1>8, <2>2 DEF Settled, SettledNode, Matches
  <2>3. QED
    BY <2>1, <2>2
<1>12. QED
  BY <1>9, <1>10, <1>11 DEF LinkInv, Renaming

\* finish_rename's update of the table, which removing a file shares: node x
\* goes to slot d, where it matches, and node y leaves its entry.
LEMMA RehomePlaces ==
    ASSUME PinInv, LinkInv, NEW x \in AllIds, NEW y \in AllIds, NEW d \in Slots,
           x \in Ids => x # y /\ LiveNode(nodes[x]),
           y \in Ids => opened[y] = 0,
           nodes' = Rehome(nodes, x, y, d), moved' = (moved \/ Moves(nodes, x, y)),
           rename' = NoRename, opened' = opened,
           x \in Ids => disk'[d].file = nodes[x].file /\ disk'[d].head = nodes[x].head,
           \A id \in Ids : id # x /\ id # y /\ LiveNode(nodes[id]) =>
               Matches(disk', nodes[id]) /\ (x \in Ids => nodes[id].entry # d)
    PROVE  LinkInv'
<1>0. Linked /\ OnePerEntry /\ nodes \in [AllIds -> Node] /\ \A id \in Ids : GoodNode(nodes[id])
  BY DEF LinkInv, PinInv, TableInv, AllIds
<1> DEFINE m == MarkUnlinkedNode(nodes[y])
           n == [nodes[x] EXCEPT !.entry = d]
           gone == IF y = Reserved THEN nodes ELSE MarkUnlinked(nodes, y)
<1>1. y \in Ids => ~LiveNode(m) /\ (m.pins > 0 => m.entry = NoSlot)
  BY <1>0, UnlinkPlace DEF LiveNode, Absent
<1>2. gone \in [AllIds -> {nodes[id] : id \in AllIds} \cup {m}]
      /\ \A id \in AllIds : gone[id] = IF id = y /\ y # Reserved THEN m ELSE nodes[id]
  BY <1>0 DEF MarkUnlinked
<1>3. x \in Ids => LiveNode(n) /\ n.entry = d /\ n.file = nodes[x].file
                   /\ n.head = nodes[x].head /\ n.opens = nodes[x].opens
  BY <1>0 DEF Node, LiveNode, AllIds
<1>4. nodes' = IF x = Reserved \/ gone[x].pins = 0 THEN gone ELSE [gone EXCEPT ![x].entry = d]
  BY DEF Rehome
<1>5. x \in Ids => gone[x] = nodes[x] /\ gone[x].pins # 0
  BY <1>0, <1>2 DEF LiveNode, Node, AllIds
<1>6. x = Reserved \/ x \in Ids
  BY DEF AllIds
<1> HIDE DEF gone, m, n
<1>7. /\ x \in Ids => nodes'[x] = n
      /\ y \in Ids => nodes'[y] = m
      /\ \A id \in Ids : id # x /\ id # y => nodes'[id] = nodes[id]
  <2>1. CASE x = Reserved
    BY <1>2, <1>4, <2>1 DEF AllIds
  <2>2. CASE x \in Ids
    <3>1. nodes' = [gone EXCEPT ![x] = [gone[x] EXCEPT !.entry = d]] /\ y # x
      BY <1>4, <1>5, <2>2
    <3>2. [gone[x] EXCEPT !.entry = d] = n
      BY <1>5, <2>2 DEF n
    <3>3. QED
      BY <1>2, <2>2, <3>1, <3>2 DEF AllIds
  <2>3. QED
    BY <1>6, <2>1, <2>2
<1>8. (x \in Ids => moved' = TRUE) /\ (moved => moved')
  BY DEF Moves, LiveNode
<1>9. Linked'
  <2> SUFFICES ASSUME NEW id \in Ids PROVE LinkedNode(id, nodes'[id], opened'[id], moved')
    BY DEF Linked
  <2>1. CASE id = x
    <3>1. LinkedNode(id, nodes[id], opened[id], moved)
      BY <1>0 DEF Linked
    <3>2. QED
      BY <1>3, <1>7, <1>8, <2>1, <3>1 DEF LinkedNode, LiveNode
  <2>2. CASE id # x /\ id = y
    BY <1>1, <1>7, <2>2 DEF LinkedNode
  <2>3. CASE id # x /\ id # y
    <3>1. LinkedNode(id, nodes[id], opened[id], moved)
      BY <1>0 DEF Linked
    <3>2. QED
      BY <1>7, <1>8, <2>3, <3>1 DEF LinkedNode
  <2>4. QED
    BY <2>1, <2>2, <2>3
<1>10. OnePerEntry'
  <2>1. ASSUME NEW id \in Ids, id # x, LiveNode(nodes'[id])
        PROVE  id # y /\ nodes'[id] = nodes[id]
    BY <1>1, <1>7, <2>1
  <2>2. CASE x \in Ids
    BY <1>0, <1>3, <1>7, <2>1, <2>2, OneMoves
  <2>3. CASE x = Reserved
    BY <1>0, <2>1, <2>3 DEF OnePerEntry
  <2>4. QED
    BY <1>6, <2>2, <2>3
<1>11. Settled'
  <2> SUFFICES ASSUME NEW id \in Ids PROVE SettledNode(removed', disk', nodes'[id])
    BY DEF Settled
  <2>1. CASE id = x
    BY <1>3, <1>7, <2>1 DEF SettledNode, Matches
  <2>2. CASE id # x /\ id = y
    BY <1>1, <1>7, <2>2 DEF SettledNode
  <2>3. CASE id # x /\ id # y
    BY <1>7, <2>3 DEF SettledNode
  <2>4. QED
    BY <2>1, <2>2, <2>3
<1>12. QED
  BY <1>9, <1>10, <1>11 DEF LinkInv, Renaming

\* The file in a slot: what the driver takes from its node, the directory has.
LEMMA SlotHead ==
    ASSUME PinInv, LinkInv, rename = NoRename, removed = NoRemoval, NEW s \in Slots
    PROVE  /\ HeadAt(s) = disk[s].head /\ MovedEntry(s) = disk[s]
           /\ IdAt(s) # Reserved => nodes[IdAt(s)].head = disk[s].head
                                    /\ nodes[IdAt(s)].file = disk[s].file
<1>1. disk[s] \in Entry
  BY DEF PinInv, OtherTypes
<1>2. IdAt(s) # Reserved =>
        /\ IdAt(s) \in Ids /\ LiveNode(nodes[IdAt(s)]) /\ nodes[IdAt(s)].entry = s
        /\ Matches(disk, nodes[IdAt(s)])
  BY SlotNode, ReadyNode DEF LinkInv
<1>3. HeadAt(s) = disk[s].head
  BY <1>2 DEF HeadAt, Matches
<1>4. MovedEntry(s) = disk[s]
  BY <1>1, <1>3 DEF MovedEntry, Entry
<1>5. QED
  BY <1>2, <1>3, <1>4 DEF Matches

\* A file that is not open is not open for any caller.
LEMMA ClosedSlot ==
    ASSUME PinInv, LinkInv, NEW s \in Slots, ~IsOpen(s), IdAt(s) # Reserved
    PROVE  nodes[IdAt(s)].opens = 0 /\ opened[IdAt(s)] = 0
<1>1. IdAt(s) \in Ids /\ LiveNode(nodes[IdAt(s)])
  BY SlotNode DEF LinkInv
<1>2. nodes[IdAt(s)].opens = opened[IdAt(s)] /\ nodes[IdAt(s)].opens \in Nat
  BY <1>1 DEF LinkInv, Linked, LinkedNode, PinInv, TableInv, Node, AllIds
<1>3. QED
  BY <1>2 DEF IsOpen

LEMMA UnlinkStep ==
    ASSUME PinInv, LinkInv, NEW s \in Slots, Unlink(s) PROVE LinkInv'
<1>1. /\ rename = NoRename /\ removed = NoRemoval
      /\ ~IsOpen(s) /\ disk' = [disk EXCEPT ![s] = NoEntry]
      /\ UNCHANGED <<rename, removed, opened>> /\ disk \in [Slots -> Entry]
  BY DEF Unlink, Ready, PinInv, OtherTypes
<1>2. ASSUME NEW id \in Ids, LiveNode(nodes[id]), nodes[id].entry # s
      PROVE  Matches(disk', nodes[id])
  <2>1. Matches(disk, nodes[id]) /\ nodes[id].entry \in Slots
    BY <1>1, <1>2, ReadyNode DEF LinkInv, Linked, LinkedNode
  <2>2. QED
    BY <1>1, <1>2, <2>1 DEF Matches
<1>3. CASE IdAt(s) = Reserved
  BY <1>1, <1>3, SlotNode, DiskPlaces DEF Unlink, LinkInv, Linked, LinkedNode
<1>4. CASE IdAt(s) # Reserved
  <2>1. IdAt(s) \in Ids /\ opened[IdAt(s)] = 0
    BY <1>1, <1>4, ClosedSlot, SlotNode DEF LinkInv
  <2>2. nodes' = Rehome(nodes, Reserved, IdAt(s), s)
        /\ moved' = (moved \/ Moves(nodes, Reserved, IdAt(s)))
    BY <1>4 DEF Unlink, Rehome, Moves
  <2>3. \A id \in Ids : id # IdAt(s) /\ LiveNode(nodes[id]) => nodes[id].entry # s
    BY <1>4, SlotNode DEF LinkInv
  <2>4. QED
    BY <1>1, <1>2, <2>1, <2>2, <2>3, RehomePlaces, ZenonT(30) DEF AllIds
<1>5. QED
  BY <1>3, <1>4

\* A removal that was cut leaves a node out of step with the entry it cleared.
LEMMA UnlinkDroppedStep ==
    ASSUME PinInv, LinkInv, Windows = {}, NEW s \in Slots, UnlinkDropped(s) PROVE LinkInv'
<1>1. /\ rename = NoRename /\ removed = NoRemoval /\ ~IsOpen(s) /\ Visible(s)
      /\ disk' = [disk EXCEPT ![s] = NoEntry] \/ disk' = disk
      /\ UNCHANGED <<nodes, moved, rename, opened>> /\ disk \in [Slots -> Entry]
  BY DEF UnlinkDropped, Ready, PinInv, OtherTypes
<1>2. removed'.slot = s /\ removed'.head = HeadAt(s)
  BY DEF UnlinkDropped, Removal
<1>3. Settled'
  <2> SUFFICES ASSUME NEW id \in Ids, LiveNode(nodes[id])
               PROVE  SettledNode(removed', disk', nodes[id])
    BY <1>1 DEF Settled, SettledNode
  <2>1. Matches(disk, nodes[id]) /\ nodes[id].entry \in Slots
    BY <1>1, ReadyNode DEF LinkInv, Linked, LinkedNode
  <2>2. CASE disk' = disk \/ nodes[id].entry # s
    BY <1>1, <2>1, <2>2 DEF SettledNode, Matches
  <2>3. CASE disk' # disk /\ nodes[id].entry = s
    <3>1. id = IdAt(s) /\ IdAt(s) # Reserved
      BY <2>3, SlotNode DEF LinkInv
    <3>2. nodes[id].opens = 0 /\ nodes[id].head = HeadAt(s)
      BY <1>1, <3>1, ClosedSlot DEF HeadAt
    <3>3. disk'[s].file = NoFile
      BY <1>1, <2>3 DEF NoEntry
    <3>4. QED
      BY <1>2, <2>3, <3>2, <3>3 DEF SettledNode
  <2>4. QED
    BY <2>2, <2>3
<1>4. QED
  BY <1>1, <1>3 DEF LinkInv, Linked, OnePerEntry, Renaming

LEMMA FinishRemovalStep == ASSUME PinInv, LinkInv, FinishRemoval PROVE LinkInv'
<1> DEFINE s == removed.slot
           x == IdAt(s)
<1>1. /\ rename = NoRename /\ rename' = NoRename /\ removed' = NoRemoval
      /\ UNCHANGED <<disk, opened>>
  BY DEF FinishRemoval
<1>2. \A id \in Ids : /\ SettledNode(removed, disk, nodes[id])
                      /\ LinkedNode(id, nodes[id], opened[id], moved)
  BY <1>1 DEF LinkInv, Settled, Linked
<1>3. CASE UNCHANGED <<nodes, moved>>
           /\ ~(~(Visible(s) /\ disk[s].head = removed.head) /\ x # Reserved
                /\ nodes[x].head = removed.head)
  <2>1. ASSUME NEW id \in Ids, LiveNode(nodes[id]) PROVE Matches(disk, nodes[id])
    <3> SUFFICES ASSUME ~Matches(disk, nodes[id]) PROVE FALSE
      OBVIOUS
    <3>1. nodes[id].entry = s /\ nodes[id].head = removed.head /\ disk[s].file = NoFile
      BY <1>2, <2>1 DEF SettledNode
    <3>2. s \in Slots
      BY <1>2, <2>1, <3>1 DEF LinkedNode
    <3>3. x # Reserved /\ id = x
      BY <2>1, <3>1, <3>2, SlotNode DEF LinkInv
    <3>4. QED
      BY <1>3, <3>1, <3>3 DEF Visible
  <2>2. Settled'
    BY <1>1, <1>3, <2>1 DEF Settled, SettledNode
  <2>3. QED
    BY <1>1, <1>3, <2>2 DEF LinkInv, Linked, OnePerEntry, Renaming
<1>4. CASE /\ ~(Visible(s) /\ disk[s].head = removed.head)
           /\ x # Reserved /\ nodes[x].head = removed.head
           /\ nodes' = MarkUnlinked(nodes, x)
           /\ moved' = (moved \/ MarkUnlinkedNode(nodes[x]) # Absent)
  <2>1. x \in Ids /\ nodes[x].pins > 0 /\ nodes[x].entry = s
    BY <1>4, IdAtLemma
  <2>2. PICK e \in Slots : TRUE
    BY <2>1 DEF Ids
  <2>3. ASSUME s \notin Slots PROVE LinkInv'
    <3>1. ~LiveNode(nodes[x]) /\ nodes[x].unlinked /\ opened[x] = 0
      BY <1>2, <2>1, <2>3 DEF LinkedNode, LiveNode
    <3>2. \A id \in Ids : LiveNode(nodes[id]) => nodes[id].entry # s
      BY <1>2, <2>3 DEF LinkedNode
    <3>3. \A id \in Ids : LiveNode(nodes[id]) => Matches(disk, nodes[id])
      BY <1>2, <3>2 DEF SettledNode
    <3>4. nodes' = Rehome(nodes, Reserved, x, e) /\ moved' = (moved \/ Moves(nodes, Reserved, x))
      BY <1>4 DEF Rehome, Moves
    <3>5. QED
      BY <1>1, <2>1, <3>1, <3>3, <3>4, RehomePlaces DEF AllIds
  <2>4. ASSUME s \in Slots PROVE LinkInv'
    <3>1. LiveNode(nodes[x]) /\ \A id \in Ids : LiveNode(nodes[id]) /\ nodes[id].entry = s => id = x
      BY <1>4, <2>4, SlotNode DEF LinkInv
    <3>2. \A id \in Ids : id # x /\ LiveNode(nodes[id]) => Matches(disk, nodes[id])
      BY <1>2, <3>1 DEF SettledNode
    <3>3. ~Matches(disk, nodes[x])
      BY <1>2, <1>4, <2>1, <3>1 DEF Matches, Visible, LinkedNode
    <3>4. opened[x] = 0
      BY <1>2, <2>1, <3>1, <3>3 DEF SettledNode, LinkedNode
    <3>5. nodes' = Rehome(nodes, Reserved, x, s) /\ moved' = (moved \/ Moves(nodes, Reserved, x))
      BY <1>4 DEF Rehome, Moves
    <3>6. QED
      BY <1>1, <2>1, <2>4, <3>2, <3>4, <3>5, RehomePlaces DEF AllIds
  <2>5. QED
    BY <2>3, <2>4
<1>5. QED
  BY <1>3, <1>4 DEF FinishRemoval

\* Who is on the slots of a rename about to start.
LEMMA RenameNodes ==
    ASSUME PinInv, LinkInv, NEW s \in Slots, NEW d \in Slots, NEW t \in Slots \cup {NoSlot},
           CanRename(s, d, t)
    PROVE  /\ rename = NoRename /\ removed = NoRemoval
           /\ IdAt(s) \in AllIds /\ TargetId(t) \in AllIds
           /\ IdAt(s) \in Ids => IdAt(s) # TargetId(t)
           /\ TargetId(t) \in Ids => opened[TargetId(t)] = 0 /\ nodes[TargetId(t)].opens = 0
           /\ \A id \in Ids :
                /\ id = IdAt(s) <=> LiveNode(nodes[id]) /\ nodes[id].entry = s
                /\ id = TargetId(t) <=> LiveNode(nodes[id]) /\ nodes[id].entry = t
                /\ LiveNode(nodes[id]) /\ nodes[id].entry = d => t = d
                /\ LiveNode(nodes[id]) => Matches(disk, nodes[id]) /\ nodes[id].entry \in Slots
<1>1. rename = NoRename /\ removed = NoRemoval /\ s # t
      /\ (d # t => ~Visible(d)) /\ (t # NoSlot => ~IsOpen(t))
  BY DEF CanRename, Ready
<1>2. IdAt(s) \in AllIds /\ TargetId(t) \in AllIds
  BY IdAtType DEF TargetId, AllIds
<1>3. \A id \in Ids : LiveNode(nodes[id]) => Matches(disk, nodes[id]) /\ nodes[id].entry \in Slots
  BY <1>1, ReadyNode DEF LinkInv, Linked, LinkedNode
<1>4. \A id \in Ids : id = IdAt(s) <=> LiveNode(nodes[id]) /\ nodes[id].entry = s
  BY SlotNode DEF LinkInv
<1>5. \A id \in Ids : id = TargetId(t) <=> LiveNode(nodes[id]) /\ nodes[id].entry = t
  <2>1. CASE t = NoSlot
    BY <1>3, <2>1 DEF TargetId
  <2>2. CASE t # NoSlot
    BY <2>2, SlotNode DEF LinkInv, TargetId
  <2>3. QED
    BY <2>1, <2>2
<1>6. \A id \in Ids : LiveNode(nodes[id]) /\ nodes[id].entry = d => t = d
  BY <1>1, ReadyNode
<1>7. TargetId(t) \in Ids => opened[TargetId(t)] = 0 /\ nodes[TargetId(t)].opens = 0
  BY <1>1, ClosedSlot DEF TargetId
<1>8. QED
  BY <1>1, <1>2, <1>3, <1>4, <1>5, <1>6, <1>7

LEMMA RenameStep ==
    ASSUME PinInv, LinkInv, NEW s \in Slots, NEW d \in Slots, NEW t \in Slots \cup {NoSlot},
           Rename(s, d, t)
    PROVE  LinkInv'
<1> DEFINE x == IdAt(s)
           y == TargetId(t)
<1>1. CanRename(s, d, t) /\ UNCHANGED <<rename, removed, opened>>
  BY DEF Rename
<1>2. /\ rename = NoRename /\ removed = NoRemoval
      /\ x \in AllIds /\ y \in AllIds /\ (x \in Ids => x # y)
      /\ y \in Ids => opened[y] = 0
      /\ \A id \in Ids :
           /\ id = x <=> LiveNode(nodes[id]) /\ nodes[id].entry = s
           /\ id = y <=> LiveNode(nodes[id]) /\ nodes[id].entry = t
           /\ LiveNode(nodes[id]) /\ nodes[id].entry = d => t = d
           /\ LiveNode(nodes[id]) => Matches(disk, nodes[id]) /\ nodes[id].entry \in Slots
  BY <1>1, RenameNodes
<1>3. MovedEntry(s) = disk[s]
  BY <1>2, SlotHead
<1>4. nodes' = Rehome(nodes, x, y, d) /\ moved' = (moved \/ Moves(nodes, x, y))
  BY DEF Rename
<1>5. \A e \in Slots : disk'[e] = IF e = d THEN disk[s] ELSE IF e \in {s, t} THEN NoEntry ELSE disk[e]
  BY <1>3 DEF Rename
<1> HIDE DEF x, y
<1>6. x \in Ids => disk'[d].file = nodes[x].file /\ disk'[d].head = nodes[x].head
  BY <1>2, <1>5 DEF Matches
<1>7. \A id \in Ids : id # x /\ id # y /\ LiveNode(nodes[id]) =>
         Matches(disk', nodes[id]) /\ (x \in Ids => nodes[id].entry # d)
  BY <1>2, <1>5 DEF Matches
<1>8. QED
  BY <1>1, <1>2, <1>4, <1>6, <1>7, RehomePlaces

\* A rename that was cut remembers both nodes and both entries.
LEMMA RenameDroppedStep ==
    ASSUME PinInv, LinkInv, NEW s \in Slots, NEW d \in Slots, NEW t \in Slots \cup {NoSlot},
           RenameDropped(s, d, t)
    PROVE  LinkInv'
<1> DEFINE x == IdAt(s)
           y == TargetId(t)
<1>1. CanRename(s, d, t) /\ UNCHANGED <<nodes, moved, opened>>
  BY DEF RenameDropped
<1>2. /\ rename = NoRename /\ removed = NoRemoval
      /\ y \in Ids => nodes[y].opens = 0
      /\ \A id \in Ids :
           /\ id = x <=> LiveNode(nodes[id]) /\ nodes[id].entry = s
           /\ id = y <=> LiveNode(nodes[id]) /\ nodes[id].entry = t
           /\ LiveNode(nodes[id]) /\ nodes[id].entry = d => t = d
           /\ LiveNode(nodes[id]) => Matches(disk, nodes[id]) /\ nodes[id].entry \in Slots
  BY <1>1, RenameNodes
<1>3. MovedEntry(s) = disk[s]
  BY <1>2, SlotHead
<1>4. PICK landed \in 0 .. 3, committed \in BOOLEAN :
        /\ landed < 2 => ~committed
        /\ landed = 3 => committed
        /\ rename' = [src |-> s, dst |-> d, entry |-> disk[s], target |-> t,
                      saved |-> IF t = NoSlot THEN NoEntry ELSE disk[t],
                      source_id |-> x, target_id |-> y, committed |-> committed]
        /\ \A e \in Slots : disk'[e] =
              IF e = d /\ landed >= 2 THEN disk[s]
              ELSE IF (e = t /\ landed >= 1) \/ (e = s /\ landed = 3) THEN NoEntry
              ELSE disk[e]
  BY <1>3 DEF RenameDropped
<1>5. /\ committed => landed = 2 \/ landed = 3
      /\ landed = 3 => committed
      /\ landed \in {0, 1, 2, 3}
  BY <1>4
<1>6. s # d /\ s # t /\ disk[s].file # NoFile /\ (d # t => disk[d].file = NoFile)
  BY <1>1 DEF CanRename, Visible
<1> HIDE DEF x, y
<1>7. rename' # NoRename
  BY <1>4 DEF NoRename
<1>8. RenamedDisk(rename', disk')
  <2>1. CASE landed = 0
    BY <1>4, <1>5, <1>6, <2>1 DEF RenamedDisk
  <2>2. CASE landed = 1
    BY <1>4, <1>5, <1>6, <2>2 DEF RenamedDisk, NoEntry
  <2>3. CASE landed = 2
    BY <1>4, <1>5, <1>6, <2>3 DEF RenamedDisk, NoEntry
  <2>4. CASE landed = 3
    BY <1>4, <1>5, <1>6, <2>4 DEF RenamedDisk, NoEntry
  <2>5. QED
    BY <1>5, <2>1, <2>2, <2>3, <2>4
<1>9. ASSUME NEW id \in Ids PROVE RenamedNode(rename', disk', id, nodes[id])
  <2>1. id # x /\ id # y /\ LiveNode(nodes[id]) =>
          nodes[id].entry \in Slots /\ disk'[nodes[id].entry] = disk[nodes[id].entry]
    BY <1>2, <1>4
  <2>2. id = y => t \in Slots
    BY <1>2
  <2>3. QED
    BY <1>2, <1>4, <2>1, <2>2 DEF RenamedNode, Matches
<1>10. QED
  BY <1>1, <1>7, <1>8, <1>9 DEF LinkInv, Linked, OnePerEntry, Settled, Renaming

LEMMA FinishRenameStep == ASSUME PinInv, LinkInv, FinishRename PROVE LinkInv'
<1> DEFINE r == rename
<1>1. /\ rename # NoRename /\ rename' = NoRename /\ opened' = opened
      /\ r.source_id \in AllIds /\ r.target_id \in AllIds /\ disk \in [Slots -> Entry]
  BY DEF FinishRename, PinInv, OtherTypes
<1>2. RenamedDisk(r, disk) /\ \A id \in Ids : RenamedNode(r, disk, id, nodes[id])
                                              /\ LinkedNode(id, nodes[id], opened[id], moved)
  BY <1>1 DEF LinkInv, Renaming, Linked
<1>3. CASE Published
  <2>0. disk[r.dst] = r.entry
    BY <1>2, <1>3 DEF Published, RenamedDisk
  <2>1. /\ disk' = [disk EXCEPT ![r.src] = NoEntry]
        /\ nodes' = Rehome(nodes, r.source_id, r.target_id, r.dst)
        /\ moved' = (moved \/ Moves(nodes, r.source_id, r.target_id))
    BY <1>3 DEF FinishRename, SourceCleared
  <2>2. r.src \in Slots /\ r.dst \in Slots /\ r.src # r.dst /\ r.target # r.src
    BY <1>2 DEF RenamedDisk
  <2> HIDE DEF r
  <2>3. r.source_id \in Ids => LiveNode(nodes[r.source_id]) /\ r.source_id # r.target_id
    BY <1>2, <2>2 DEF RenamedNode
  <2>4. r.target_id \in Ids => opened[r.target_id] = 0
    BY <1>2 DEF RenamedNode, LinkedNode
  <2>5. r.source_id \in Ids => disk'[r.dst].file = nodes[r.source_id].file
                               /\ disk'[r.dst].head = nodes[r.source_id].head
    BY <1>1, <1>2, <2>0, <2>1, <2>2 DEF RenamedNode
  <2>6. ASSUME NEW id \in Ids, id # r.source_id, id # r.target_id, LiveNode(nodes[id])
        PROVE  Matches(disk', nodes[id]) /\ nodes[id].entry # r.dst
    <3>1. RenamedNode(r, disk, id, nodes[id]) /\ nodes[id].entry \in Slots
      BY <1>2, <2>6 DEF LinkedNode
    <3>2. QED
      BY <1>1, <2>1, <2>6, <3>1 DEF RenamedNode, Matches
  <2>7. \A id \in Ids : id # r.source_id /\ id # r.target_id /\ LiveNode(nodes[id]) =>
           Matches(disk', nodes[id]) /\ (r.source_id \in Ids => nodes[id].entry # r.dst)
    BY <2>6
  <2>8. r.source_id \in Ids => r.source_id # r.target_id /\ LiveNode(nodes[r.source_id])
    BY <2>3
  <2>9. PICK x \in AllIds, y \in AllIds, d \in Slots : x = r.source_id /\ y = r.target_id /\ d = r.dst
    BY <1>1, <2>2
  <2>10. nodes' = Rehome(nodes, x, y, d) /\ moved' = (moved \/ Moves(nodes, x, y))
    BY <2>1, <2>9
  <2>11. /\ x \in Ids => x # y /\ LiveNode(nodes[x])
         /\ y \in Ids => opened[y] = 0
         /\ x \in Ids => disk'[d].file = nodes[x].file /\ disk'[d].head = nodes[x].head
    BY <2>4, <2>5, <2>8, <2>9
  <2>12. \A id \in Ids : id # x /\ id # y /\ LiveNode(nodes[id]) =>
            Matches(disk', nodes[id]) /\ (x \in Ids => nodes[id].entry # d)
    BY <2>7, <2>9
  <2>13. QED
    BY <1>1, <2>10, <2>11, <2>12, RehomePlaces
<1>4. CASE ~Published
  <2>1. /\ \A e \in Slots : disk'[e] = IF e = r.target THEN r.saved
                                       ELSE IF e = r.dst THEN NoEntry ELSE disk[e]
        /\ UNCHANGED <<nodes, moved>>
    BY <1>4 DEF FinishRename, Undone
  <2>2. r.src \in Slots /\ r.src # r.dst /\ r.target # r.src /\ disk[r.src] = r.entry
    BY <1>2, <1>4 DEF RenamedDisk, Published
  <2> HIDE DEF r
  <2>3. ASSUME NEW id \in Ids, LiveNode(nodes[id]) PROVE Matches(disk', nodes[id])
    <3>1. RenamedNode(r, disk, id, nodes[id]) /\ nodes[id].entry \in Slots
      BY <1>2, <2>3 DEF LinkedNode
    <3>2. CASE id = r.source_id
      BY <2>1, <2>2, <3>1, <3>2 DEF RenamedNode, Matches
    <3>3. CASE id = r.target_id
      BY <2>1, <3>1, <3>3 DEF RenamedNode, Matches
    <3>4. CASE id # r.source_id /\ id # r.target_id
      BY <2>1, <2>3, <3>1, <3>4 DEF RenamedNode, Matches
    <3>5. QED
      BY <3>2, <3>3, <3>4
  <2>4. Settled'
    BY <2>1, <2>3 DEF Settled, SettledNode
  <2>5. QED
    BY <1>1, <2>1, <2>4 DEF LinkInv, Linked, OnePerEntry, Renaming
<1>5. QED
  BY <1>3, <1>4

\* What was cut can be cut again: what finish_rename has done so far leaves a
\* rename that is still to be finished the same way.
LEMMA FinishRenameDroppedStep == ASSUME PinInv, LinkInv, FinishRenameDropped PROVE LinkInv'
<1> DEFINE r == rename
<1>1. /\ r # NoRename /\ UNCHANGED <<nodes, moved, removed, opened>>
      /\ disk \in [Slots -> Entry]
      /\ r \in [src : Slots \cup {NoSlot}, dst : Slots \cup {NoSlot}, entry : Entry,
                target : Slots \cup {NoSlot}, saved : Entry,
                source_id : AllIds, target_id : AllIds, committed : BOOLEAN]
  BY DEF FinishRenameDropped, PinInv, OtherTypes
<1>2. RenamedDisk(r, disk) /\ \A id \in Ids : RenamedNode(r, disk, id, nodes[id])
                                              /\ LinkedNode(id, nodes[id], opened[id], moved)
  BY <1>1 DEF LinkInv, Renaming, Linked
<1>3. r.src \in Slots /\ r.dst \in Slots /\ r.dst # r.src /\ r.target # r.src
  BY <1>2 DEF RenamedDisk
<1>4. /\ rename'.src = r.src /\ rename'.dst = r.dst /\ rename'.entry = r.entry
      /\ rename'.target = r.target /\ rename'.saved = r.saved
      /\ rename'.source_id = r.source_id /\ rename'.target_id = r.target_id
      /\ rename'.committed = (r.committed \/ Published)
  <2>1. CASE Published
    BY <1>1, <2>1 DEF FinishRenameDropped
  <2>2. CASE ~Published
    BY <1>1, <2>2 DEF FinishRenameDropped
  <2>3. QED
    BY <2>1, <2>2
<1>5. rename' # NoRename
  BY <1>3, <1>4 DEF NoRename
<1>6. CASE Published
  <2>1. disk[r.dst] = r.entry /\ rename'.committed
    BY <1>2, <1>4, <1>6 DEF Published, RenamedDisk
  <2>2. \A e \in Slots : e # r.src => disk'[e] = disk[e]
    BY <1>1, <1>6 DEF FinishRenameDropped, SourceCleared
  <2>3. disk'[r.src] = disk[r.src] \/ disk'[r.src] = NoEntry
    BY <1>1, <1>3, <1>6 DEF FinishRenameDropped, SourceCleared
  <2> HIDE DEF r
  <2>4. RenamedDisk(rename', disk')
    BY <1>2, <1>3, <1>4, <2>1, <2>2, <2>3 DEF RenamedDisk, NoEntry
  <2>5. ASSUME NEW id \in Ids PROVE RenamedNode(rename', disk', id, nodes[id])
    BY <1>2, <1>3, <1>4, <2>2 DEF RenamedNode, LinkedNode, Matches
  <2>6. QED
    BY <1>1, <1>5, <2>4, <2>5 DEF LinkInv, Linked, OnePerEntry, Settled, Renaming
<1>7. CASE ~Published
  <2>1. ~rename'.committed /\ disk[r.src] = r.entry
    BY <1>2, <1>4, <1>7 DEF Published, RenamedDisk
  <2>2. \A e \in Slots : e # r.dst /\ e # r.target => disk'[e] = disk[e]
    BY <1>1, <1>7 DEF FinishRenameDropped, Undone
  <2>3. /\ r.target # r.dst => disk'[r.dst] = NoEntry
        /\ r.target = r.dst => disk'[r.dst] \in {NoEntry, r.saved}
        /\ r.target \in Slots /\ r.target # r.dst => disk'[r.target] \in {disk[r.target], r.saved}
    BY <1>1, <1>3, <1>7 DEF FinishRenameDropped, Undone
  <2> HIDE DEF r
  <2>4. RenamedDisk(rename', disk')
    BY <1>2, <1>3, <1>4, <2>1, <2>2, <2>3 DEF RenamedDisk, NoEntry
  <2>5. ASSUME NEW id \in Ids PROVE RenamedNode(rename', disk', id, nodes[id])
    BY <1>2, <1>3, <1>4, <2>2 DEF RenamedNode, LinkedNode, Matches
  <2>6. QED
    BY <1>1, <1>5, <2>4, <2>5 DEF LinkInv, Linked, OnePerEntry, Settled, Renaming
<1>8. QED
  BY <1>6, <1>7

\* Except for the node of a file that a rename has replaced, what flush_node
\* writes into an entry is what the entry has.
LEMMA FlushKeepsDisk ==
    ASSUME PinInv, LinkInv, NEW x \in Ids, nodes[x].dirty => ~Replaced(x)
    PROVE  Stored(nodes[x]) = disk
<1> DEFINE n == nodes[x]
<1>1. /\ disk \in [Slots -> Entry] /\ GoodNode(n)
      /\ LinkedNode(x, n, opened[x], moved)
  BY DEF PinInv, OtherTypes, TableInv, LinkInv, Linked, AllIds
<1>2. SUFFICES ASSUME n.dirty, Writable(n) PROVE disk[n.entry].head = n.head
  <2>1. ASSUME disk[n.entry].head = n.head PROVE [disk EXCEPT ![n.entry].head = n.head] = disk
    BY <1>1, <2>1 DEF Entry
  <2>2. QED
    BY <2>1 DEF Stored
<1>3. LiveNode(n) /\ n.entry \in Slots /\ disk[n.entry].file # NoFile
  BY <1>1, <1>2 DEF GoodNode, Absent, Node, Writable, Visible, LinkedNode, LiveNode
<1>4. CASE rename = NoRename
  BY <1>3, <1>4 DEF LinkInv, Settled, SettledNode, Matches
<1>5. CASE rename # NoRename
  <2>1. RenamedDisk(rename, disk) /\ RenamedNode(rename, disk, x, n)
    BY <1>5 DEF LinkInv, Renaming
  <2>2. x = rename.target_id /\ n.entry = rename.dst => disk[rename.dst] # rename.entry
    BY <1>2 DEF Replaced
  <2> HIDE DEF n
  <2>3. CASE x = rename.source_id
    BY <1>3, <2>1, <2>3 DEF RenamedDisk, RenamedNode
  <2>4. CASE x = rename.target_id
    BY <1>3, <2>1, <2>2, <2>4 DEF RenamedDisk, RenamedNode
  <2>5. CASE x # rename.source_id /\ x # rename.target_id
    BY <1>3, <2>1, <2>5 DEF RenamedNode, Matches
  <2>6. QED
    BY <2>3, <2>4, <2>5
<1>6. QED
  BY <1>4, <1>5

\* One node changes its pins or opens, or goes.
LEMMA OneStays ==
    ASSUME PinInv, LinkInv, NEW x \in AllIds, NEW n, nodes' = [nodes EXCEPT ![x] = n],
           UNCHANGED <<disk, rename, removed>>,
           moved' = moved \/ \A id \in Ids : ~LiveNode(nodes'[id]),
           \A id \in Ids : id # x => opened'[id] = opened[id],
           x \in Ids =>
             \/ /\ SamePlace(nodes[x], n) /\ (LiveNode(nodes[x]) => n.opens = opened'[x])
                /\ opened'[x] = 0 \/ opened[x] # 0
                   \/ (LiveNode(nodes[x]) /\ rename = NoRename /\ removed = NoRemoval)
             \/ /\ n = Absent /\ opened'[x] = 0
                /\ rename # NoRename => x # rename.source_id /\ x # rename.target_id
    PROVE  LinkInv'
<1>1. \A id \in AllIds : nodes'[id] = IF id = x THEN n ELSE nodes[id]
  BY DEF PinInv, TableInv
<1>2. ASSUME NEW id \in Ids PROVE Stays(id) \/ Goes(id)
  <2>1. CASE id = x
    BY <1>1, <2>1 DEF Stays, Goes, AllIds
  <2>2. CASE id # x
    BY <1>1, <2>2 DEF Stays, SamePlace, LinkInv, Linked, LinkedNode, AllIds
  <2>3. QED
    BY <2>1, <2>2
<1>3. QED
  BY <1>2, KeepPlaces

LEMMA LookupStep ==
    ASSUME PinInv, LinkInv, Windows = {}, NEW s \in Slots, Lookup(s) PROVE LinkInv'
<1>0. disk \in [Slots -> Entry] /\ nodes \in [AllIds -> Node] /\ Linked /\ OnePerEntry
      /\ UNCHANGED <<disk, moved, rename, removed, opened>>
  BY DEF PinInv, OtherTypes, TableInv, LinkInv, Lookup
<1>1. CASE IdAt(s) # Reserved
  <2> DEFINE x == IdAt(s)
             n == [nodes[x] EXCEPT !.pins = nodes[x].pins + 1]
  <2>1. x \in Ids /\ LiveNode(nodes[x]) /\ nodes[x] \in Node
    BY <1>0, <1>1, SlotNode DEF AllIds
  <2>2. nodes' = [nodes EXCEPT ![x] = n]
    BY <1>1 DEF Lookup, Pin
  <2> HIDE DEF x
  <2>3. SamePlace(nodes[x], n) /\ n.opens = nodes[x].opens
    BY <2>1 DEF Node, SamePlace, LiveNode
  <2>4. nodes[x].opens = opened[x]
    BY <1>0, <2>1 DEF Linked, LinkedNode
  <2>5. QED
    BY <1>0, <2>1, <2>2, <2>3, <2>4, OneStays DEF AllIds
<1>2. CASE IdAt(s) = Reserved
  <2>1. PICK x \in FreeIds(nodes, s) : nodes' = Insert(nodes, x, NewNode(s, disk[s]))
    BY <1>2 DEF Lookup, FreeId
  <2>2. x \in Ids /\ nodes[x].pins = 0 /\ x[1] = s
    BY DEF FreeIds
  <2>3. \A id \in Ids : LiveNode(nodes[id]) => nodes[id].entry # s
    BY <1>0, <1>2, SlotNode
  <2>4. disk' = [disk EXCEPT ![s] = disk[s]] /\ disk[s] \in Entry
    BY <1>0
  <2>5. disk[s].file \in Files
    BY <2>4 DEF Lookup, Visible, Entry
  <2>6. s # rename.src /\ s # rename.dst /\ s # rename.target
    BY DEF Lookup
  <2>7. QED
    BY <1>0, <2>1, <2>2, <2>3, <2>4, <2>5, <2>6, InsertPlace
<1>3. QED
  BY <1>1, <1>2

LEMMA CreateStep ==
    ASSUME PinInv, LinkInv, NEW s \in Slots, NEW tag \in Tags, NEW f \in Files,
           Create(s, tag, f) \/ CreateDropped(s, tag, f)
    PROVE  LinkInv'
<1> DEFINE e == [tag |-> tag, file |-> f, head |-> NoFile]
<1>0. disk \in [Slots -> Entry] /\ nodes \in [AllIds -> Node] /\ Linked
      /\ UNCHANGED <<moved, rename, removed, opened>>
      /\ rename = NoRename /\ removed = NoRemoval /\ ~Visible(s)
  BY DEF PinInv, OtherTypes, TableInv, LinkInv, Create, CreateDropped, Ready
<1>1. e \in Entry /\ e.file \in Files
  BY DEF Entry
<1>2. disk' = [disk EXCEPT ![s] = e] \/ disk' = disk
  BY DEF Create, CreateDropped
<1>3. \A id \in Ids : LiveNode(nodes[id]) => nodes[id].entry # s /\ nodes[id].entry \in Slots
  BY <1>0, ReadyNode DEF Linked, LinkedNode
<1>4. \A id \in Ids : LiveNode(nodes[id]) => disk'[nodes[id].entry] = disk[nodes[id].entry]
  BY <1>0, <1>2, <1>3
<1>5. CASE \E x \in FreeId(nodes, s, tag) :
              nodes' = Insert(nodes, x, NewNode(s, e)) /\ disk' = [disk EXCEPT ![s] = e]
  <2>1. PICK x \in FreeIds(nodes, s) :
            nodes' = Insert(nodes, x, NewNode(s, e)) /\ disk' = [disk EXCEPT ![s] = e]
    BY <1>5 DEF FreeId
  <2>2. x \in Ids /\ nodes[x].pins = 0 /\ x[1] = s
    BY DEF FreeIds
  <2> HIDE DEF e
  <2>3. QED
    BY <1>0, <1>1, <1>3, <2>1, <2>2, InsertPlace
<1>6. CASE \A id \in Ids : nodes'[id] = nodes[id]
  BY <1>0, <1>4, <1>6, DiskPlaces
<1>7. CASE nodes' = Insert(nodes, Reserved, NewNode(NoSlot, NoEntry))
  <2>1. \A id \in Ids : nodes'[id] = nodes[id]
    BY <1>0, <1>7 DEF Insert, AllIds
  <2>2. QED
    BY <1>6, <2>1
<1>8. QED
  BY <1>5, <1>6, <1>7 DEF Create, CreateDropped

LEMMA WriteStep ==
    ASSUME PinInv, LinkInv, NEW x \in Ids, Write(x) \/ Truncate(x) \/ WriteUnpinned(x)
    PROVE  LinkInv'
<1>0. disk \in [Slots -> Entry] /\ nodes \in [AllIds -> Node] /\ Linked /\ OnePerEntry
      /\ UNCHANGED <<moved, rename, removed, opened>>
      /\ rename = NoRename /\ removed = NoRemoval
  BY DEF PinInv, OtherTypes, TableInv, LinkInv, Write, Truncate, WriteUnpinned, Ready
<1>1. GoodNode(nodes[x]) /\ nodes[x].file \in Files \cup {NoFile} /\ x[1] \in Slots
  BY DEF PinInv, TableInv, Node, AllIds, Ids
<1>2. CASE Write(x) /\ nodes[x].head = NoFile
  BY <1>0, <1>1, <1>2, HeadPlaces DEF Write, Usable, LiveNode
<1>3. CASE Truncate(x)
  BY <1>0, <1>1, <1>3, HeadPlaces DEF Truncate, Usable, LiveNode
<1>4. CASE Write(x) /\ nodes[x].head # NoFile
  <2> DEFINE n == MarkDirtyNode(nodes[x])
  <2>1. nodes' = [nodes EXCEPT ![x] = n] /\ disk' = disk
    BY <1>4 DEF Write
  <2>2. SamePlace(nodes[x], n) /\ n.opens = nodes[x].opens
    BY <1>1, MarkDirtyPlace
  <2>3. LiveNode(nodes[x]) => nodes[x].opens = opened[x]
    BY <1>0 DEF Linked, LinkedNode
  <2> HIDE DEF n
  <2>4. QED
    BY <1>0, <2>1, <2>2, <2>3, OneStays DEF AllIds
<1>5. CASE WriteUnpinned(x)
  <2>1. \A id \in Ids : LiveNode(nodes[id]) => nodes[id].entry # x[1] /\ nodes[id].entry \in Slots
    BY <1>0, <1>1, <1>5, SlotNode DEF WriteUnpinned, Linked, LinkedNode
  <2>2. disk' = [disk EXCEPT ![x[1]].head = disk[x[1]].file] /\ nodes' = nodes
    BY <1>5 DEF WriteUnpinned
  <2>3. \A id \in Ids : LiveNode(nodes[id]) => disk'[nodes[id].entry] = disk[nodes[id].entry]
    BY <1>0, <2>1, <2>2
  <2>4. QED
    BY <1>0, <2>2, <2>3, DiskPlaces
<1>6. QED
  BY <1>2, <1>3, <1>4, <1>5

LEMMA OpenStep == ASSUME PinInv, LinkInv, Windows = {}, NEW x \in Ids, Open(x) PROVE LinkInv'
<1> DEFINE n == [nodes[x] EXCEPT !.opens = nodes[x].opens + 1]
<1>1. nodes' = [nodes EXCEPT ![x] = n] /\ opened' = [opened EXCEPT ![x] = opened[x] + 1]
      /\ UNCHANGED <<disk, moved, rename, removed>> /\ rename = NoRename /\ removed = NoRemoval
  BY DEF Open
<1>2. LiveNode(nodes[x]) /\ nodes[x] \in Node /\ opened \in [Ids -> Nat]
  BY DEF Open, Usable, LiveNode, PinInv, TableInv, OtherTypes, AllIds
<1>3. nodes[x].opens = opened[x]
  BY <1>2 DEF LinkInv, Linked, LinkedNode
<1>4. SamePlace(nodes[x], n) /\ n.opens = opened'[x]
  BY <1>1, <1>2, <1>3 DEF SamePlace, Node
<1>5. \A id \in Ids : id # x => opened'[id] = opened[id]
  BY <1>1, <1>2
<1> HIDE DEF n
<1>6. QED
  BY <1>1, <1>2, <1>4, <1>5, OneStays DEF AllIds

LEMMA CloseStep ==
    ASSUME PinInv, LinkInv, Windows = {}, NEW x \in Ids, Close(x) PROVE LinkInv'
<1> DEFINE k == IF nodes[x].opens = 0 THEN 0 ELSE nodes[x].opens - 1
           n == [nodes[x] EXCEPT !.opens = k]
<1>1. /\ nodes' = [nodes EXCEPT ![x] = FlushNode(n)] /\ opened' = [opened EXCEPT ![x] = opened[x] - 1]
      /\ opened[x] > 0 /\ UNCHANGED <<disk, moved, rename, removed>>
  BY FlushKeepsDisk DEF Close, CloseNode
<1>2. /\ GoodNode(nodes[x]) /\ CallerPins(nodes[x]) = refs[x] /\ refs[x] > 0
      /\ nodes[x] \in Node /\ opened \in [Ids -> Nat] /\ nodes[x].opens \in Nat
  BY <1>1 DEF PinInv, TableInv, OtherTypes, OpenHeld, AllIds, Node
<1>3. LiveNode(nodes[x]) /\ nodes[x].opens = opened[x] /\ opened[x] # 0
  BY <1>1, <1>2 DEF LinkInv, Linked, LinkedNode
<1>4. k = opened[x] - 1 /\ k \in Nat /\ opened'[x] = opened[x] - 1
  BY <1>1, <1>2, <1>3
<1> HIDE DEF k
<1>5. SamePlace(nodes[x], n) /\ n.opens = k
  BY <1>2, <1>4 DEF SamePlace, Node
<1>6. GoodNode(n) /\ CallerPins(n) = refs[x]
  BY <1>2, <1>3, <1>4, OpensKeepsPins DEF LiveNode
<1> HIDE DEF n
<1>7. SamePlace(n, FlushNode(n)) /\ FlushNode(n).opens = k
  BY <1>2, <1>5, <1>6, FlushPlace
<1>8. SamePlace(nodes[x], FlushNode(n))
  BY <1>5, <1>7 DEF SamePlace
<1>9. \A id \in Ids : id # x => opened'[id] = opened[id]
  BY <1>1, <1>2
<1>10. QED
  BY <1>1, <1>3, <1>4, <1>7, <1>8, <1>9, OneStays DEF AllIds

LEMMA FsyncStep ==
    ASSUME PinInv, LinkInv, Windows = {}, NEW x \in Ids, Fsync(x) PROVE LinkInv'
<1> DEFINE n == FlushNode(nodes[x])
<1>1. nodes' = [nodes EXCEPT ![x] = n] /\ UNCHANGED <<disk, moved, rename, removed, opened>>
      /\ refs[x] > 0
  BY FlushKeepsDisk DEF Fsync, Usable
<1>2. GoodNode(nodes[x]) /\ CallerPins(nodes[x]) = refs[x] /\ refs[x] \in Nat
  BY DEF PinInv, TableInv, AllIds
<1>3. SamePlace(nodes[x], n) /\ n.opens = nodes[x].opens
  BY <1>1, <1>2, FlushPlace
<1> HIDE DEF n
<1>4. QED
  BY <1>1, <1>3, OneStays DEF AllIds, LinkInv, Linked, LinkedNode

LEMMA SyncStep == ASSUME PinInv, LinkInv, NEW x \in Ids, Sync(x) PROVE LinkInv'
<1> DEFINE n == CleanNode(nodes[x])
<1>1. rename = NoRename /\ ~Replaced(x)
  BY DEF Sync, Replaced, NoRename
<1>2. nodes' = [nodes EXCEPT ![x] = n] /\ UNCHANGED <<disk, moved, rename, removed, opened>>
  BY <1>1, FlushKeepsDisk DEF Sync
<1>3. GoodNode(nodes[x]) /\ CallerPins(nodes[x]) = refs[x] /\ opened[x] \in Nat
      /\ (opened[x] > 0 => refs[x] > 0)
  BY DEF PinInv, TableInv, OtherTypes, OpenHeld, AllIds
<1>4. \/ SamePlace(nodes[x], n) /\ n.opens = nodes[x].opens
      \/ refs[x] = 0 /\ n = Absent
  BY <1>3, CleanPlace
<1>5. LiveNode(nodes[x]) => nodes[x].opens = opened[x]
  BY DEF LinkInv, Linked, LinkedNode
<1> HIDE DEF n
<1>6. \/ /\ SamePlace(nodes[x], n) /\ (LiveNode(nodes[x]) => n.opens = opened'[x])
         /\ opened'[x] = 0 \/ opened[x] # 0
      \/ n = Absent /\ opened'[x] = 0
  BY <1>2, <1>3, <1>4, <1>5
<1>7. QED
  BY <1>1, <1>2, <1>6, OneStays DEF AllIds

LEMMA ForgetStep ==
    ASSUME PinInv, LinkInv, Windows = {}, NEW x \in Ids, NEW k \in 1 .. MaxPins, Forget(x, k)
    PROVE  LinkInv'
<1>1. /\ GoodNode(nodes[x]) /\ CallerPins(nodes[x]) = refs[x] /\ refs[x] \in Nat
      /\ nodes[x] \in Node /\ nodes[x].pins \in Nat
      /\ k \in Nat /\ k >= 1 /\ k <= refs[x] /\ opened[x] \in Nat /\ moved \in BOOLEAN
  BY DEF PinInv, TableInv, OtherTypes, AllIds, Node, Forget
<1>2. UserPins(nodes[x]) = refs[x]
  BY <1>1 DEF UserPins, CallerPins
<1>3. (IF k < refs[x] THEN k ELSE refs[x]) = k
  BY <1>1
<1> DEFINE n == UnpinNode(nodes[x], k)
<1>4. /\ nodes' = [nodes EXCEPT ![x] = n] /\ UNCHANGED <<disk, rename, removed, opened>>
      /\ opened[x] > 0 => k < refs[x]
      /\ k < refs[x] \/ (x # rename.source_id /\ x # rename.target_id)
  BY <1>2, <1>3 DEF Forget, ForgetNode
<1>5. \/ SamePlace(nodes[x], n) /\ n.opens = nodes[x].opens
      \/ nodes[x].pins <= k /\ n = Absent
  BY <1>1, UnpinPlace
<1>6. nodes[x].pins >= refs[x]
  BY <1>1 DEF CallerPins
<1>7. LiveNode(nodes[x]) => nodes[x].opens = opened[x]
  BY DEF LinkInv, Linked, LinkedNode
<1>8. moved' = moved \/ \A id \in Ids : ~LiveNode(nodes'[id])
  <2>1. moved' = (moved /\ Present(nodes') # {})
    BY DEF Forget
  <2>2. CASE Present(nodes') = {}
    BY <2>2 DEF Present, LiveNode, AllIds
  <2>3. CASE Present(nodes') # {}
    BY <1>1, <2>1, <2>3
  <2>4. QED
    BY <2>2, <2>3
<1> HIDE DEF n
<1>9. \/ SamePlace(nodes[x], n) /\ (LiveNode(nodes[x]) => n.opens = opened'[x])
      \/ n = Absent /\ opened'[x] = 0 /\ x # rename.source_id /\ x # rename.target_id
  BY <1>1, <1>4, <1>5, <1>6, <1>7
<1>10. opened'[x] = 0 \/ opened[x] # 0
  BY <1>4
<1>11. QED
  BY <1>4, <1>8, <1>9, <1>10, OneStays DEF AllIds

\* Every operation, every cut and every step of recovery keeps the links.
LEMMA LinkInvStep == ASSUME Windows = {}, PinInv, LinkInv, [Next]_vars PROVE LinkInv'
<1>1. ASSUME NEW s \in Slots, Lookup(s) \/ Unlink(s) \/ UnlinkDropped(s) PROVE LinkInv'
  BY <1>1, LookupStep, UnlinkStep, UnlinkDroppedStep
<1>2. ASSUME NEW s \in Slots, NEW tag \in Tags, NEW f \in Files,
             Create(s, tag, f) \/ CreateDropped(s, tag, f)
      PROVE  LinkInv'
  BY <1>2, CreateStep
<1>3. ASSUME NEW s \in Slots, NEW d \in Slots, NEW t \in Slots \cup {NoSlot},
             Rename(s, d, t) \/ RenameDropped(s, d, t)
      PROVE  LinkInv'
  BY <1>3, RenameStep, RenameDroppedStep
<1>4. ASSUME NEW id \in Ids, Write(id) \/ Truncate(id) \/ WriteUnpinned(id) PROVE LinkInv'
  BY <1>4, WriteStep
<1>5. ASSUME NEW id \in Ids, Open(id) \/ Close(id) \/ Fsync(id) PROVE LinkInv'
  BY <1>5, OpenStep, CloseStep, FsyncStep
<1>6. ASSUME NEW id \in Ids, NEW n \in 1 .. MaxPins, Forget(id, n) PROVE LinkInv'
  BY <1>6, ForgetStep
<1>7. CASE (\E id \in Ids : Sync(id)) \/ FinishRename \/ FinishRenameDropped \/ FinishRemoval
  BY <1>7, SyncStep, FinishRenameStep, FinishRenameDroppedStep, FinishRemovalStep
<1>8. CASE DropReserved
  BY <1>8, OneStays DEF DropReserved, AllIds
<1>9. CASE UNCHANGED vars
  BY <1>9 DEF vars, LinkInv, Linked, OnePerEntry, Settled, Renaming
<1>10. QED
  BY <1>1, <1>2, <1>3, <1>4, <1>5, <1>6, <1>7, <1>8, <1>9 DEF Next

\* With none of the early steps, the links hold in every reachable state.
LEMMA LinksInvariant == ASSUME Windows = {} PROVE Spec => [](PinInv /\ LinkInv)
<1>1. PinInv /\ LinkInv /\ [Next]_vars => (PinInv /\ LinkInv)'
  BY PinInvStep, LinkInvStep
<1>2. QED
  BY <1>1, PinInvInit, LinkInvInit, PTL DEF Spec

\* Two live nodes never sit on one directory entry, whatever was renamed,
\* removed, looked up again or cut half way: pinned_at's short cut over the
\* ids of a slot misses no node (intern, pinned_at, FatFs::moved).
THEOREM OneNodeAtEachEntry == ASSUME Windows = {} PROVE Spec => []OneNodePerEntry
<1>1. LinkInv => OneNodePerEntry
  BY DEF LinkInv, OnePerEntry, OneNodePerEntry, Live, LiveNode
<1>2. QED
  BY <1>1, LinksInvariant, PTL

\* Once recovery has run, every live node sits on a visible entry of the file
\* it was made for, with that entry's first cluster (finish_rename,
\* finish_interrupted).
THEOREM NodesInStep == ASSUME Windows = {} PROVE Spec => []NodesMatchDisk
<1>1. LinkInv => NodesMatchDisk
  <2> SUFFICES ASSUME LinkInv, Ready, NEW id \in Ids, LiveNode(nodes[id])
               PROVE  nodes[id].entry \in Slots /\ Matches(disk, nodes[id])
    BY DEF NodesMatchDisk, Live, LiveNode, Matches
  <2>1. QED
    BY ReadyNode DEF Ready, LinkInv, Linked, LinkedNode
<1>2. QED
  BY <1>1, LinksInvariant, PTL

\* A file a caller has open is linked, and the table counts the caller's opens:
\* neither an unlink or a replacing rename nor the recovery of one that was cut
\* takes it away (is_open, finish_interrupted).
THEOREM OpenFilesStay == ASSUME Windows = {} PROVE Spec => []OpenIsLinked
<1>1. PinInv /\ LinkInv => OpenIsLinked
  <2> SUFFICES ASSUME PinInv, LinkInv, NEW id \in Ids, opened[id] > 0
               PROVE  nodes[id].opens = opened[id] /\ LiveNode(nodes[id])
    BY DEF OpenIsLinked, Live, LiveNode
  <2>1. LinkedNode(id, nodes[id], opened[id], moved) /\ opened[id] \in Nat
    BY DEF LinkInv, Linked, PinInv, OtherTypes
  <2>2. QED
    BY <2>1 DEF LinkedNode
<1>2. QED
  BY <1>1, LinksInvariant, PTL

-----------------------------------------------------------------------------
(* An id stays with its file, with or without the early steps. *)

\* Node m is what became of node n under an id that some caller still pins.
KeepsFile(n, m) == m.file = n.file /\ (n.unlinked => m.unlinked)

\* The operations of the table on a node that callers pin.
LEMMA NodeKeepsFile ==
    ASSUME NEW n, GoodNode(n), CallerPins(n) > 0
    PROVE  /\ KeepsFile(n, CleanNode(n)) /\ KeepsFile(n, FlushNode(n))
           /\ KeepsFile(n, MarkDirtyNode(n)) /\ KeepsFile(n, MarkUnlinkedNode(n))
           /\ \A s : KeepsFile(n, [n EXCEPT !.entry = s])
           /\ \A h : KeepsFile(n, [n EXCEPT !.head = h])
           /\ \A k : KeepsFile(n, [n EXCEPT !.opens = k])
           /\ \A k : KeepsFile(n, [n EXCEPT !.pins = k])
<1>1. KeepsFile(n, CleanNode(n))
  BY CleanPlace DEF SamePlace, KeepsFile
<1>2. KeepsFile(n, FlushNode(n))
  BY FlushPlace DEF SamePlace, KeepsFile
<1>3. KeepsFile(n, MarkDirtyNode(n))
  BY MarkDirtyPlace DEF SamePlace, KeepsFile
<1>4. KeepsFile(n, MarkUnlinkedNode(n))
  BY UnlinkPlace DEF KeepsFile
<1>5. QED
  BY <1>1, <1>2, <1>3, <1>4 DEF KeepsFile, GoodNode, Node

\* Only node x changes, and it keeps its file.
LEMMA OneKeepsFile ==
    ASSUME nodes \in [AllIds -> Node], NEW x \in AllIds, NEW m, nodes' = [nodes EXCEPT ![x] = m],
           NEW id \in Ids, id = x => KeepsFile(nodes[x], m)
    PROVE  KeepsFile(nodes[id], nodes'[id])
BY DEF KeepsFile, AllIds

\* finish_rename's update of the table keeps files, also of a node that is
\* both replaced and renamed.
LEMMA RehomeKeepsFile ==
    ASSUME nodes \in [AllIds -> Node], NEW x \in AllIds, NEW y \in AllIds, NEW d,
           NEW id \in Ids, GoodNode(nodes[id]), CallerPins(nodes[id]) > 0
    PROVE  KeepsFile(nodes[id], Rehome(nodes, x, y, d)[id])
<1> DEFINE gone == IF y = Reserved THEN nodes ELSE MarkUnlinked(nodes, y)
           m == MarkUnlinkedNode(nodes[id])
<1>1. gone[id] = (IF id = y THEN m ELSE nodes[id]) /\ DOMAIN gone = AllIds /\ id \in AllIds
  BY DEF MarkUnlinked, AllIds
<1>2. KeepsFile(nodes[id], m) /\ m \in Node /\ nodes[id] \in Node
  BY NodeKeepsFile, MarkUnlinkedLemma DEF GoodNode
<1>3. KeepsFile(nodes[id], gone[id]) /\ gone[id] \in Node
  BY <1>1, <1>2 DEF KeepsFile
<1>4. Rehome(nodes, x, y, d) = IF x = Reserved \/ gone[x].pins = 0 THEN gone
                               ELSE [gone EXCEPT ![x].entry = d]
  BY DEF Rehome
<1> HIDE DEF gone, m
<1>5. Rehome(nodes, x, y, d)[id] \in {gone[id], [gone[id] EXCEPT !.entry = d]}
  BY <1>1, <1>4
<1>6. KeepsFile(nodes[id], [gone[id] EXCEPT !.entry = d])
  BY <1>3 DEF KeepsFile, Node
<1>7. QED
  BY <1>3, <1>5, <1>6

LEMMA StepKeepsFile ==
    ASSUME PinInv, [Next]_vars, NEW id \in Ids, refs[id] > 0, refs'[id] > 0
    PROVE  KeepsFile(nodes[id], nodes'[id])
<1>0. /\ nodes \in [AllIds -> Node] /\ id \in AllIds
      /\ GoodNode(nodes[id]) /\ CallerPins(nodes[id]) = refs[id] /\ refs[id] \in Nat
  BY DEF PinInv, TableInv, AllIds
<1>1. nodes[id] \in Node /\ nodes[id].pins \in Nat /\ nodes[id].pins > 0 /\ CallerPins(nodes[id]) > 0
  BY <1>0 DEF GoodNode, CallerPins, Node
<1>2. CASE nodes' = nodes
  BY <1>2 DEF KeepsFile
<1>3. ASSUME NEW x \in Ids, nodes[x].pins = 0, NEW n, nodes' = Insert(nodes, x, n)
      PROVE  KeepsFile(nodes[id], nodes'[id])
  <2>1. nodes'[id] = nodes[id]
    BY <1>0, <1>1, <1>3 DEF Insert
  <2>2. QED
    BY <2>1 DEF KeepsFile
<1>4. ASSUME NEW s \in Slots, Lookup(s) PROVE KeepsFile(nodes[id], nodes'[id])
  <2>1. CASE IdAt(s) # Reserved
    <3>1. IdAt(s) \in AllIds /\ nodes' = [nodes EXCEPT ![IdAt(s)] =
              [nodes[IdAt(s)] EXCEPT !.pins = nodes[IdAt(s)].pins + 1]]
      BY <1>4, <2>1, IdAtType DEF Lookup, Pin
    <3>2. QED
      BY <1>0, <1>1, <3>1, NodeKeepsFile, OneKeepsFile, ZenonT(30)
  <2>2. CASE IdAt(s) = Reserved
    BY <1>3, <1>4, <2>2 DEF Lookup, FreeId, FreeIds
  <2>3. QED
    BY <2>1, <2>2
<1>5. ASSUME NEW s \in Slots, NEW tag \in Tags, NEW f \in Files, Create(s, tag, f)
      PROVE  KeepsFile(nodes[id], nodes'[id])
  BY <1>2, <1>3, <1>5 DEF Create, FreeId, FreeIds
<1>6. ASSUME nodes' = [nodes EXCEPT ![Reserved] = nodes'[Reserved]]
      PROVE  KeepsFile(nodes[id], nodes'[id])
  BY <1>0, <1>6, OneKeepsFile DEF AllIds
<1>7. ASSUME NEW s \in Slots, NEW tag \in Tags, NEW f \in Files, CreateDropped(s, tag, f)
      PROVE  KeepsFile(nodes[id], nodes'[id])
  BY <1>0, <1>6, <1>7 DEF CreateDropped, Insert, AllIds
<1>8. ASSUME NEW x \in Ids, Write(x) \/ Truncate(x) PROVE KeepsFile(nodes[id], nodes'[id])
  <2>1. ASSUME NEW h \in Files \cup {NoFile}
        PROVE  KeepsFile(nodes[id], CleanNode([nodes[id] EXCEPT !.head = h]))
    <3> DEFINE w == [nodes[id] EXCEPT !.head = h]
    <3>1. GoodNode(w) /\ CallerPins(w) > 0 /\ KeepsFile(nodes[id], w)
      BY <1>0, <1>1, HeadKeepsPins, NodeKeepsFile
    <3> HIDE DEF w
    <3>2. KeepsFile(w, CleanNode(w))
      BY <3>1, NodeKeepsFile
    <3>3. KeepsFile(nodes[id], CleanNode(w))
      BY <3>1, <3>2 DEF KeepsFile
    <3>4. QED
      BY <3>3 DEF w
  <2>2. KeepsFile(nodes[id], MarkDirtyNode(nodes[id])) /\ nodes[id].file \in Files \cup {NoFile}
    BY <1>0, <1>1, NodeKeepsFile DEF Node
  <2>3. PICK m : nodes' = [nodes EXCEPT ![x] = m] /\
          m \in {MarkDirtyNode(nodes[x]), CleanNode([nodes[x] EXCEPT !.head = nodes[x].file]),
                 CleanNode([nodes[x] EXCEPT !.head = NoFile])}
    BY <1>8 DEF Write, Truncate
  <2>4. id = x => KeepsFile(nodes[x], m)
    BY <2>1, <2>2, <2>3
  <2>5. QED
    BY <1>0, <2>3, <2>4, OneKeepsFile DEF AllIds
<1>9. ASSUME NEW x \in Ids, Open(x) \/ Close(x) \/ Fsync(x)
      PROVE  KeepsFile(nodes[id], nodes'[id])
  <2> DEFINE k == IF nodes[x].opens = 0 THEN 0 ELSE nodes[x].opens - 1
             w == [nodes[x] EXCEPT !.opens = k]
  <2>1. PICK m : nodes' = [nodes EXCEPT ![x] = m] /\
          m \in {[nodes[x] EXCEPT !.opens = nodes[x].opens + 1], FlushNode(w), FlushNode(nodes[x])}
    BY <1>9 DEF Open, Close, Fsync, CloseNode
  <2>2. id = x => KeepsFile(nodes[x], FlushNode(w))
    <3>1. SUFFICES ASSUME id = x PROVE KeepsFile(nodes[x], FlushNode(w))
      OBVIOUS
    <3>2. k \in Nat
      BY <1>1, <3>1 DEF Node
    <3> HIDE DEF k
    <3>3. GoodNode(w) /\ CallerPins(w) > 0 /\ KeepsFile(nodes[x], w)
      BY <1>0, <1>1, <3>1, <3>2, OpensKeepsPins, NodeKeepsFile
    <3> HIDE DEF w
    <3>4. QED
      BY <3>3, NodeKeepsFile DEF KeepsFile
  <2> HIDE DEF w
  <2>3. id = x => KeepsFile(nodes[x], m)
    BY <1>0, <1>1, <2>1, <2>2, NodeKeepsFile
  <2>4. QED
    BY <1>0, <2>1, <2>3, OneKeepsFile DEF AllIds
<1>10. ASSUME NEW x \in Ids, NEW k \in 1 .. MaxPins, Forget(x, k)
       PROVE  KeepsFile(nodes[id], nodes'[id])
  <2>1. nodes' = [nodes EXCEPT ![x] = ForgetNode(nodes[x], k)]
        /\ refs' = [refs EXCEPT ![x] = refs[x] - k] /\ k \in Nat /\ k <= refs[x]
        /\ refs \in [Ids -> Nat]
    BY <1>10 DEF Forget, PinInv, TableInv
  <2>2. id = x => KeepsFile(nodes[x], ForgetNode(nodes[x], k))
    <3> SUFFICES ASSUME id = x PROVE KeepsFile(nodes[id], ForgetNode(nodes[id], k))
      OBVIOUS
    <3>1. k < refs[id]
      BY <1>0, <2>1
    <3>2. UserPins(nodes[id]) = refs[id]
      BY <1>0 DEF UserPins, CallerPins
    <3>3. ForgetNode(nodes[id], k) = UnpinNode(nodes[id], k)
      BY <3>1, <3>2 DEF ForgetNode
    <3>4. k < nodes[id].pins
      BY <1>0, <1>1, <2>1, <3>1 DEF CallerPins
    <3>5. QED
      BY <1>0, <1>1, <2>1, <3>3, <3>4, UnpinPlace DEF SamePlace, KeepsFile
  <2>3. QED
    BY <1>0, <2>1, <2>2, OneKeepsFile DEF AllIds
<1>11. ASSUME NEW x \in AllIds, nodes' = MarkUnlinked(nodes, x)
       PROVE  KeepsFile(nodes[id], nodes'[id])
  BY <1>0, <1>1, <1>11, NodeKeepsFile, OneKeepsFile DEF MarkUnlinked
<1>12. ASSUME NEW x \in AllIds, NEW y \in AllIds, NEW d, nodes' = Rehome(nodes, x, y, d)
       PROVE  KeepsFile(nodes[id], nodes'[id])
  BY <1>0, <1>1, <1>12, RehomeKeepsFile
<1>13. ASSUME NEW s \in Slots, Unlink(s) PROVE KeepsFile(nodes[id], nodes'[id])
  BY <1>2, <1>11, <1>13, IdAtType DEF Unlink
<1>14. ASSUME NEW s \in Slots, NEW d \in Slots, NEW t \in Slots \cup {NoSlot}, Rename(s, d, t)
       PROVE  KeepsFile(nodes[id], nodes'[id])
  <2>1. IdAt(s) \in AllIds /\ TargetId(t) \in AllIds
    BY IdAtType DEF TargetId, AllIds
  <2>2. QED
    BY <1>12, <1>14, <2>1 DEF Rename
<1>15. CASE FinishRename
  <2>1. rename.source_id \in AllIds /\ rename.target_id \in AllIds
    BY DEF PinInv, OtherTypes
  <2>2. QED
    BY <1>2, <1>12, <1>15, <2>1 DEF FinishRename
<1>16. CASE FinishRemoval
  BY <1>2, <1>11, <1>16, IdAtType DEF FinishRemoval
<1>17. ASSUME NEW x \in Ids, Sync(x) PROVE KeepsFile(nodes[id], nodes'[id])
  BY <1>0, <1>1, <1>17, NodeKeepsFile, OneKeepsFile DEF Sync, AllIds
<1>18. CASE DropReserved
  BY <1>0, <1>6, <1>18 DEF DropReserved, AllIds
<1>19. CASE UNCHANGED vars
  BY <1>2, <1>19 DEF vars
<1>20. QED
  BY <1>2, <1>4, <1>5, <1>7, <1>8, <1>9, <1>10, <1>13, <1>14, <1>15, <1>16, <1>17, <1>18, <1>19
     DEF Next, UnlinkDropped, RenameDropped, FinishRenameDropped, WriteUnpinned

\* An id stays with the file it was handed out for until its last forget, and a
\* removed node stays removed, with all the early steps too: free_id never
\* gives out an id that callers pin, and no recovery revives one.
THEOREM IdsStayWithTheirFile == Spec => IdsKeepTheirFile
<1>1. PinInv /\ [Next]_vars =>
        [\A id \in Ids : refs[id] > 0 /\ refs'[id] > 0 =>
            /\ nodes'[id].file = nodes[id].file
            /\ nodes[id].unlinked => nodes'[id].unlinked]_vars
  BY StepKeepsFile DEF KeepsFile
<1>2. PinInv /\ [Next]_vars => PinInv'
  BY PinInvStep
<1>3. QED
  BY <1>1, <1>2, PinInvInit, PTL DEF Spec, IdsKeepTheirFile
=============================================================================
