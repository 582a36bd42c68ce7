-------------------------- MODULE BlockCacheProofs --------------------------
(***************************************************************************)
(* The block cache loses no write and is a block device again, for every   *)
(* number of blocks, capacity, run length and contents.                    *)
(*                                                                         *)
(* The order of the slots matters only in that a victim is a slot.  What   *)
(* carries the proofs is that no block has two slots, that what is clean   *)
(* equals the device, and what each phase of a request knows of the blocks *)
(* it has still to do: the blocks a read has fetched stay uncached and     *)
(* unchanged on the device until they are filled in, and a write past the  *)
(* cache meets no cached copy.                                             *)
(***************************************************************************)
EXTENDS BlockCache, WellFoundedInduction, TLAPS

USE SizesAssumption

-----------------------------------------------------------------------------
(* The least element of a set of naturals. *)

\* The naturals are well-founded under "<".
LEMMA LessWellFounded == IsWellFoundedOn({r \in Nat \X Nat : r[1] < r[2]}, Nat)
  BY NatLessThanWellFounded DEF OpToRel

\* A set of naturals that is not empty has a least element.
LEMMA LeastNatural ==
  ASSUME NEW S \in SUBSET Nat, S # {}
  PROVE  \E n \in S : \A m \in S : n <= m
<1> DEFINE Less == {r \in Nat \X Nat : r[1] < r[2]}
<1>1. PICK x \in S : \A y \in S : ~(<<y, x>> \in Less)
  BY LessWellFounded, WFMin
<1>2. ASSUME NEW y \in S PROVE x <= y
  <2>1. <<y, x>> \notin Less BY <1>1
  <2>2. <<y, x>> \in Nat \X Nat OBVIOUS
  <2>3. ~(<<y, x>>[1] < <<y, x>>[2]) BY <2>1, <2>2, Zenon
  <2> QED BY <2>3
<1> QED BY <1>2

\* FirstOf picks the least block of a set of blocks.
LEMMA FirstIsLeast ==
  ASSUME NEW S \in SUBSET Blocks, S # {}
  PROVE  FirstOf(S) \in S /\ \A c \in S : FirstOf(S) <= c
<1>1. S \in SUBSET Nat BY DEF Blocks
<1>2. \E b \in S : \A c \in S : b <= c BY <1>1, LeastNatural
<1> QED BY <1>2 DEF FirstOf

-----------------------------------------------------------------------------
(* The inductive invariant, over the state it is about. *)

Entry == [index : Blocks, data : Values] \cup {Empty}

\* No block has two slots.
OneSlot(e) ==
    \A s, t \in Slots : e[s].index \in Blocks /\ e[s].index = e[t].index => s = t

EntriesOK(e) == e \in [Slots -> Entry] /\ OneSlot(e)

\* CleanMatchesDevice of the entries e, the dirty blocks D and the device d.
Matches(e, D, d) ==
    /\ \A b \in D : Holds(e, b)
    /\ \A s \in Slots : e[s] # Empty /\ e[s].index \notin D => e[s].data = d[e[s].index]

OpType ==
    [kind : {"none", "read", "write", "flush"}, first : Nat, count : Nat,
     buf : Seq(Values), done : Nat, end : Nat,
     phase : {"idle", "next", "fill", "writeback", "direct"}]

\* A read or a write o is within the device.
Within(o) == o.count > 0 /\ o.first + o.count <= NumBlocks /\ o.done <= o.count

\* What each phase of a read has in hand.
ReadOK(o, e, d) ==
    \/ o.phase = "next" /\ Len(o.buf) = o.done
    \/ o.phase = "direct" /\ o.done = 0
    \/ /\ o.phase = "fill"
       /\ o.done < o.end /\ o.end <= o.count /\ Len(o.buf) = o.end
       /\ \A i \in o.done + 1 .. o.end :
             ~Holds(e, o.first + i - 1) /\ o.buf[i] = d[o.first + i - 1]

\* What each phase of a write has in hand.
WriteOK(o, e) ==
    /\ Len(o.buf) = o.count
    /\ \/ o.phase = "next"
       \/ o.phase = "writeback" /\ o.done = 0
       \/ /\ o.phase = "direct" /\ o.done = 0
          /\ \A b \in Range(o.first, o.count) : ~Holds(e, b)

OpOK(o, e, d) ==
    /\ o \in OpType
    /\ \/ o = NoOp
       \/ o.kind = "flush" /\ o.phase = "next"
       \/ o.kind = "read" /\ Within(o) /\ ReadOK(o, e, d)
       \/ o.kind = "write" /\ Within(o) /\ WriteOK(o, e)

\* RequestsAgree of the request o and the view v.
Agrees(o, v) ==
    o.kind \in {"read", "write"} =>
        \A i \in 1 .. o.done : o.buf[i] = v[o.first + i - 1]

\* Every value that a crash or a dropped cache can bring back is remembered.
Recorded(v, d, m, S) ==
    \A b \in Blocks : v[b] \in S[b] /\ d[b] \in S[b] /\ m[b] \in S[b]

CacheInv ==
    /\ EntriesOK(entries) /\ order \in Seq(Slots)
    /\ dirty \in SUBSET Blocks /\ written \in BOOLEAN
    /\ dev \in [Blocks -> Values] /\ medium \in [Blocks -> Values]
    /\ since \in [Blocks -> SUBSET Values]
    /\ Matches(entries, dirty, dev)
    /\ OpOK(op, entries, dev)
    /\ Agrees(op, View)
    /\ Recorded(View, dev, medium, since)

\* What NoLostWrites says of a step.
Kept ==
    \A b \in Blocks : View'[b] # View[b] =>
        \/ op.kind = "write" /\ b \in Range(op.first, op.count) /\ View'[b] = op.buf[b - op.first + 1]
        \/ op = NoOp /\ b \notin dirty /\ View'[b] = dev'[b]
        \/ order' = <<>> /\ View'[b] \in {dev[b], medium[b]}

-----------------------------------------------------------------------------
(* What the slots show. *)

\* A slot is empty or holds a block.
LEMMA SlotKinds ==
  ASSUME NEW e \in [Slots -> Entry], NEW s \in Slots
  PROVE  /\ e[s].index \in Blocks <=> e[s] # Empty
         /\ e[s] # Empty => e[s].data \in Values
         /\ e[s] = Empty => e[s].index \notin Blocks
  BY DEF Entry, Empty, Blocks

\* A cached block shows its slot's data, another one the device's.
LEMMA ViewHeld ==
  ASSUME NEW e, EntriesOK(e), NEW d, NEW s \in Slots, e[s].index \in Blocks
  PROVE  Holds(e, e[s].index) /\ ViewOf(e, d)[e[s].index] = e[s].data
<1> DEFINE t == CHOOSE t \in Slots : e[t].index = e[s].index
<1>1. t \in Slots /\ e[t].index = e[s].index OBVIOUS
<1>2. t = s BY <1>1 DEF EntriesOK, OneSlot
<1>3. Holds(e, e[s].index) BY DEF Holds
<1> QED BY <1>1, <1>2, <1>3 DEF ViewOf

LEMMA ViewFree ==
  ASSUME NEW e, NEW d, NEW b \in Blocks, ~Holds(e, b)
  PROVE  ViewOf(e, d)[b] = d[b]
  BY DEF ViewOf

LEMMA ViewType ==
  ASSUME NEW e, EntriesOK(e), NEW d \in [Blocks -> Values]
  PROVE  ViewOf(e, d) \in [Blocks -> Values]
<1>1. ASSUME NEW b \in Blocks PROVE ViewOf(e, d)[b] \in Values
  <2>1. CASE Holds(e, b)
    <3>1. PICK s \in Slots : e[s].index = b BY <2>1 DEF Holds
    <3>2. e[s].data \in Values BY <3>1, SlotKinds DEF EntriesOK
    <3> QED BY <3>1, <3>2, ViewHeld
  <2>2. CASE ~Holds(e, b) BY <2>2, ViewFree
  <2> QED BY <2>1, <2>2
<1>2. ViewOf(e, d) = [b \in Blocks |-> ViewOf(e, d)[b]] BY DEF ViewOf
<1> QED BY <1>1, <1>2

\* A clean block shows what the device has.
LEMMA ViewClean ==
  ASSUME NEW e, EntriesOK(e), NEW D, NEW d, Matches(e, D, d),
         NEW b \in Blocks, b \notin D
  PROVE  ViewOf(e, d)[b] = d[b]
<1>1. CASE Holds(e, b)
  <2>1. PICK s \in Slots : e[s].index = b BY <1>1 DEF Holds
  <2>2. e[s] # Empty BY <2>1, SlotKinds DEF EntriesOK
  <2> QED BY <2>1, <2>2, ViewHeld DEF Matches
<1>2. CASE ~Holds(e, b) BY <1>2, ViewFree
<1> QED BY <1>1, <1>2

\* Two entry tables, or two devices, that agree on each block have one view.
LEMMA ViewEqual ==
  ASSUME NEW e, NEW e2, NEW d, NEW d2,
         \A b \in Blocks : ViewOf(e2, d2)[b] = ViewOf(e, d)[b]
  PROVE  ViewOf(e2, d2) = ViewOf(e, d)
  BY DEF ViewOf

-----------------------------------------------------------------------------
(* What the steps on slots and device leave. *)

Placed(e, s, b, v) == [e EXCEPT ![s] = [index |-> b, data |-> v]]

CanPlace(e, D, d, s, b, v) ==
    /\ EntriesOK(e) /\ D \in SUBSET Blocks /\ Matches(e, D, d)
    /\ s \in Slots /\ b \in Blocks /\ v \in Values
    /\ Holds(e, b) => e[s].index = b
    /\ e[s].index = b \/ e[s].index \notin D

PlaceDone(e, D, d, f, b, v) ==
    /\ EntriesOK(f)
    /\ \A c \in Blocks : Holds(f, c) => c = b \/ Holds(e, c)
    /\ ViewOf(f, d)[b] = v
    /\ \A c \in Blocks \ {b} : ViewOf(f, d)[c] = ViewOf(e, d)[c]
    /\ Matches(f, D \cup {b}, d)
    /\ b \notin D /\ v = d[b] => Matches(f, D, d)

\* A block goes to its own slot, or to one whose block is clean: it shows the
\* new value, and no other block shows another.
LEMMA PlaceKeeps ==
  ASSUME NEW e, NEW D, NEW d, NEW s, NEW b, NEW v, CanPlace(e, D, d, s, b, v)
  PROVE  PlaceDone(e, D, d, Placed(e, s, b, v), b, v)
<1>0. /\ EntriesOK(e) /\ D \in SUBSET Blocks /\ Matches(e, D, d)
      /\ s \in Slots /\ b \in Blocks /\ v \in Values
      /\ Holds(e, b) => e[s].index = b
      /\ e[s].index = b \/ e[s].index \notin D
  BY DEF CanPlace
<1> USE <1>0
<1> DEFINE n == [index |-> b, data |-> v]
           f == Placed(e, s, b, v)
<1>1. n \in Entry /\ n.index = b /\ n.data = v /\ n # Empty BY DEF Entry, Empty, Blocks
<1>2. e \in [Slots -> Entry] BY DEF EntriesOK
<1>3. /\ f \in [Slots -> Entry] /\ f[s] = n
      /\ \A t \in Slots : t # s => f[t] = e[t]
  BY <1>1, <1>2 DEF Placed
<1>4. \A t \in Slots : t # s => e[t].index # b
  BY DEF EntriesOK, OneSlot, Holds
<1> HIDE DEF n, f
<1>5. EntriesOK(f)
  BY <1>1, <1>3, <1>4 DEF EntriesOK, OneSlot
<1>6. \A c \in Blocks : Holds(f, c) => c = b \/ Holds(e, c)
  BY <1>1, <1>3 DEF Holds
<1>7. ViewOf(f, d)[b] = v
  BY <1>1, <1>3, <1>5, ViewHeld
<1>8. ASSUME NEW c \in Blocks, c # b PROVE ViewOf(f, d)[c] = ViewOf(e, d)[c]
  <2>1. CASE Holds(f, c)
    <3>1. PICK t \in Slots : f[t].index = c BY <2>1 DEF Holds
    <3>2. t # s /\ f[t] = e[t] BY <3>1, <1>1, <1>3, <1>8
    <3>3. ViewOf(f, d)[c] = f[t].data BY <3>1, <1>5, ViewHeld
    <3>4. ViewOf(e, d)[c] = e[t].data BY <3>1, <3>2, ViewHeld
    <3> QED BY <3>2, <3>3, <3>4
  <2>2. CASE ~Holds(f, c) /\ Holds(e, c)
    <3>1. PICK t \in Slots : e[t].index = c BY <2>2 DEF Holds
    <3>2. t = s BY <3>1, <2>2, <1>3 DEF Holds
    <3>3. c \notin D BY <3>1, <3>2, <1>8
    <3>4. ViewOf(e, d)[c] = d[c] BY <3>3, ViewClean
    <3> QED BY <3>4, <2>2, ViewFree
  <2>3. CASE ~Holds(f, c) /\ ~Holds(e, c)
    BY <2>3, ViewFree
  <2> QED BY <2>1, <2>2, <2>3
<1>9. ASSUME NEW c \in D, c # b PROVE Holds(f, c)
  <2>1. PICK t \in Slots : e[t].index = c BY <1>9 DEF Matches, Holds
  <2>2. t # s BY <2>1, <1>9
  <2> QED BY <2>1, <2>2, <1>3 DEF Holds
<1>10. Holds(f, b) BY <1>1, <1>3 DEF Holds
<1>11. \A t \in Slots : t # s /\ f[t] # Empty /\ f[t].index \notin D => f[t].data = d[f[t].index]
  BY <1>3 DEF Matches
<1>12. Matches(f, D \cup {b}, d)
  BY <1>1, <1>3, <1>9, <1>10, <1>11 DEF Matches
<1>13. b \notin D /\ v = d[b] => Matches(f, D, d)
  BY <1>1, <1>3, <1>9, <1>11 DEF Matches
<1>14. PlaceDone(e, D, d, f, b, v)
  BY <1>5, <1>6, <1>7, <1>8, <1>12, <1>13 DEF PlaceDone
<1> QED BY <1>14 DEF f

CanStore(e, D, D2, d, d2) ==
    /\ EntriesOK(e) /\ D \in SUBSET Blocks /\ D2 \in SUBSET D /\ Matches(e, D, d)
    /\ \A b \in Blocks : d2[b] = d[b] \/ (Holds(e, b) /\ d2[b] = ViewOf(e, d)[b])
    /\ \A b \in D \ D2 : d2[b] = ViewOf(e, d)[b]

\* The device gets what cached blocks show: nothing shows another value, and
\* the blocks that got it may be taken for clean.
LEMMA StoreKeeps ==
  ASSUME NEW e, NEW D, NEW D2, NEW d, NEW d2, CanStore(e, D, D2, d, d2)
  PROVE  ViewOf(e, d2) = ViewOf(e, d) /\ Matches(e, D2, d2)
<1> USE DEF CanStore
<1>1. ASSUME NEW b \in Blocks PROVE ViewOf(e, d2)[b] = ViewOf(e, d)[b]
  <2>1. CASE Holds(e, b)
    <3>1. PICK s \in Slots : e[s].index = b BY <2>1 DEF Holds
    <3> QED BY <3>1, ViewHeld
  <2>2. CASE ~Holds(e, b) BY <2>2, ViewFree
  <2> QED BY <2>1, <2>2
<1>2. ViewOf(e, d2) = ViewOf(e, d) BY <1>1, ViewEqual
<1>3. ASSUME NEW s \in Slots, e[s] # Empty, e[s].index \notin D2
      PROVE  e[s].data = d2[e[s].index]
  <2>1. e[s].index \in Blocks BY <1>3, SlotKinds DEF EntriesOK
  <2>2. ViewOf(e, d)[e[s].index] = e[s].data BY <2>1, ViewHeld
  <2>3. CASE e[s].index \in D BY <2>2, <2>3, <1>3
  <2>4. CASE e[s].index \notin D BY <2>1, <2>2, <2>4, <1>3 DEF Matches
  <2> QED BY <2>3, <2>4
<1>4. \A b \in D2 : Holds(e, b) BY DEF Matches
<1> QED BY <1>2, <1>3, <1>4 DEF Matches

Emptied(e, S) == [s \in Slots |-> IF s \in S THEN Empty ELSE e[s]]

CanDrop(e, D, d, S) ==
    /\ EntriesOK(e) /\ D \in SUBSET Blocks /\ Matches(e, D, d)
    /\ \A s \in S : e[s].index \notin D

\* Slots with clean blocks are emptied: nothing shows another value.
LEMMA DropKeeps ==
  ASSUME NEW e, NEW D, NEW d, NEW S, CanDrop(e, D, d, S)
  PROVE  /\ EntriesOK(Emptied(e, S))
         /\ ViewOf(Emptied(e, S), d) = ViewOf(e, d)
         /\ Matches(Emptied(e, S), D, d)
         /\ \A c \in Blocks : Holds(Emptied(e, S), c) => Holds(e, c)
<1> USE DEF CanDrop
<1> DEFINE f == Emptied(e, S)
<1>1. e \in [Slots -> Entry] /\ Empty \in Entry BY DEF EntriesOK, Entry
<1>2. /\ f \in [Slots -> Entry]
      /\ \A s \in Slots : f[s] = (IF s \in S THEN Empty ELSE e[s])
  BY <1>1 DEF Emptied
<1> HIDE DEF f
<1>3. \A s \in Slots : f[s].index \in Blocks => s \notin S /\ f[s] = e[s]
  BY <1>2, SlotKinds
<1>4. EntriesOK(f) BY <1>2, <1>3 DEF EntriesOK, OneSlot
<1>5. \A c \in Blocks : Holds(f, c) => Holds(e, c) BY <1>3 DEF Holds
<1>6. ASSUME NEW c \in Blocks PROVE ViewOf(f, d)[c] = ViewOf(e, d)[c]
  <2>1. CASE Holds(f, c)
    <3>1. PICK s \in Slots : f[s].index = c BY <2>1 DEF Holds
    <3>2. f[s] = e[s] BY <3>1, <1>3
    <3>3. ViewOf(f, d)[c] = f[s].data BY <3>1, <1>4, ViewHeld
    <3>4. ViewOf(e, d)[c] = e[s].data BY <3>1, <3>2, ViewHeld
    <3> QED BY <3>2, <3>3, <3>4
  <2>2. CASE ~Holds(f, c) /\ Holds(e, c)
    <3>1. PICK s \in Slots : e[s].index = c BY <2>2 DEF Holds
    <3>2. s \in S BY <3>1, <2>2, <1>2 DEF Holds
    <3>3. c \notin D BY <3>1, <3>2
    <3>4. ViewOf(e, d)[c] = d[c] BY <3>3, ViewClean
    <3> QED BY <3>4, <2>2, ViewFree
  <2>3. CASE ~Holds(f, c) /\ ~Holds(e, c)
    BY <2>3, ViewFree
  <2> QED BY <2>1, <2>2, <2>3
<1>7. ASSUME NEW c \in D PROVE Holds(f, c)
  <2>1. PICK s \in Slots : e[s].index = c BY DEF Matches, Holds
  <2>2. s \notin S BY <2>1
  <2> QED BY <2>1, <2>2, <1>2 DEF Holds
<1>8. Matches(f, D, d) BY <1>2, <1>7 DEF Matches
<1> QED BY <1>4, <1>5, <1>6, <1>8, ViewEqual DEF f

CanChange(e, D, d, d2) ==
    /\ EntriesOK(e) /\ D \in SUBSET Blocks /\ Matches(e, D, d)
    /\ \A b \in Blocks : d2[b] = d[b] \/ b \in D \/ ~Holds(e, b)

\* The device changes under blocks that are dirty or not cached.
LEMMA DeviceKeeps ==
  ASSUME NEW e, NEW D, NEW d, NEW d2, CanChange(e, D, d, d2)
  PROVE  /\ Matches(e, D, d2)
         /\ \A b \in Blocks : ViewOf(e, d2)[b] = IF Holds(e, b) THEN ViewOf(e, d)[b] ELSE d2[b]
<1> USE DEF CanChange
<1>1. ASSUME NEW s \in Slots, e[s] # Empty, e[s].index \notin D
      PROVE  e[s].data = d2[e[s].index]
  <2>1. e[s].index \in Blocks BY <1>1, SlotKinds DEF EntriesOK
  <2>2. Holds(e, e[s].index) BY DEF Holds
  <2> QED BY <1>1, <2>1, <2>2 DEF Matches
<1>2. Matches(e, D, d2) BY <1>1 DEF Matches
<1> QED BY <1>2 DEF ViewOf

\* touch keeps the list one of slots.
LEMMA TouchedType ==
  ASSUME NEW list \in Seq(Slots), NEW s \in Slots
  PROVE  Touched(list, s) \in Seq(Slots)
<1>1. Unlinked(list, s) \in Seq(Slots)
  <2>1. CASE \E i \in 1 .. Len(list) : list[i] = s
    <3> DEFINE i == CHOOSE i \in 1 .. Len(list) : list[i] = s
    <3>1. i \in 1 .. Len(list) BY <2>1
    <3> HIDE DEF i
    <3>2. SubSeq(list, 1, i - 1) \in Seq(Slots) /\ SubSeq(list, i + 1, Len(list)) \in Seq(Slots)
      BY <3>1
    <3> QED BY <2>1, <3>2 DEF Unlinked, i
  <2>2. CASE ~\E i \in 1 .. Len(list) : list[i] = s
    BY <2>2 DEF Unlinked
  <2> QED BY <2>1, <2>2
<1> QED BY <1>1 DEF Touched

\* A block's victim is a slot, its own if it is cached.
LEMMA VictimIsSlot ==
  ASSUME EntriesOK(entries), order \in Seq(Slots), NEW b \in Blocks
  PROVE  Victim(b) \in Slots /\ (Holds(entries, b) => entries[Victim(b)].index = b)
<1>1. CASE Cached(b)
  <2>1. SlotOf(b) \in Slots /\ entries[SlotOf(b)].index = b
    BY <1>1 DEF Cached, Holds, SlotOf
  <2> QED BY <1>1, <2>1 DEF Victim
<1>2. CASE ~Cached(b)
  <2>1. Len(order) < Capacity => Len(order) + 1 \in Slots BY DEF Slots
  <2>2. ~(Len(order) < Capacity) => order[Len(order)] \in Slots
    <3>1. Len(order) \in Nat OBVIOUS
    <3>2. ~(Len(order) < Capacity) => Len(order) \in 1 .. Len(order) BY <3>1
    <3> QED BY <3>2
  <2>3. Victim(b) \in Slots BY <1>2, <2>1, <2>2 DEF Victim
  <2> QED BY <1>2, <2>3 DEF Cached
<1> QED BY <1>1, <1>2

-----------------------------------------------------------------------------
(* The steps of a request. *)

StoreStep == [Store!Next]_(Store!vars)

\* With no request in progress nothing is owed.
LEMMA NoRequest ==
  ASSUME NEW e, NEW d, NEW v
  PROVE  OpOK(NoOp, e, d) /\ Agrees(NoOp, v)
<1>1. NoOp \in OpType BY DEF NoOp, OpType
<1>2. NoOp.kind = "none" BY DEF NoOp
<1> QED BY <1>1, <1>2 DEF OpOK, Agrees

\* A step that changes neither what the cache shows nor what survives.
LEMMA QuietStep ==
  ASSUME View' = View, medium' = medium, since' = since
  PROVE  Kept /\ StoreStep
  BY DEF Kept, StoreStep, Store!vars

\* The invariant after a step that only changes the request.
LEMMA RequestStep ==
  ASSUME CacheInv, UNCHANGED <<cache, dev, medium, since>>,
         OpOK(op', entries, dev), Agrees(op', View)
  PROVE  CacheInv' /\ Kept /\ StoreStep
<1>1. /\ entries' = entries /\ order' = order /\ dirty' = dirty /\ written' = written
      /\ dev' = dev /\ medium' = medium /\ since' = since
  BY DEF cache
<1>2. View' = View BY <1>1 DEF View
<1>3. CacheInv' BY <1>1, <1>2 DEF CacheInv
<1> QED BY <1>1, <1>2, <1>3, QuietStep

\* What the invariant says of the view.
LEMMA Viewed ==
  ASSUME CacheInv
  PROVE  View \in [Blocks -> Values] /\ View = ViewOf(entries, dev)
  BY ViewType DEF CacheInv, View

LEMMA StartReadStep ==
  ASSUME CacheInv, NEW r \in Requests, StartRead(r[1], r[2])
  PROVE  CacheInv' /\ Kept /\ StoreStep
<1>1. /\ r[1] \in Blocks /\ r[1] \in Nat /\ r[2] \in 1 .. NumBlocks /\ r[2] \in Nat
      /\ r[1] + r[2] <= NumBlocks
  BY DEF Requests, Blocks
<1>2. PICK ph \in {"direct", "next"} :
        op' = [kind |-> "read", first |-> r[1], count |-> r[2], buf |-> <<>>,
               done |-> 0, end |-> 0, phase |-> ph]
  BY DEF StartRead, Request
<1>3. op' \in OpType BY <1>1, <1>2 DEF OpType
<1>4. OpOK(op', entries, dev) /\ Agrees(op', View)
  BY <1>1, <1>2, <1>3 DEF OpOK, Within, ReadOK, Agrees
<1> QED BY <1>4, RequestStep DEF StartRead

LEMMA StartWriteStep ==
  ASSUME CacheInv, NEW r \in Requests, NEW buf \in Buffers(r[1], r[2]), StartWrite(r[1], buf)
  PROVE  CacheInv' /\ Kept /\ StoreStep
<1>1. /\ r[1] \in Blocks /\ r[1] \in Nat /\ r[2] \in 1 .. NumBlocks /\ r[2] \in Nat
      /\ r[1] + r[2] <= NumBlocks
  BY DEF Requests, Blocks
<1>2. buf \in [1 .. r[2] -> Values] BY DEF Buffers
<1>3. buf \in Seq(Values) /\ Len(buf) = r[2] BY <1>1, <1>2
<1>4. PICK ph \in {"writeback", "next"} :
        op' = [kind |-> "write", first |-> r[1], count |-> r[2], buf |-> buf,
               done |-> 0, end |-> 0, phase |-> ph]
  BY <1>3 DEF StartWrite, Request
<1>5. op' \in OpType BY <1>1, <1>3, <1>4 DEF OpType
<1>6. OpOK(op', entries, dev) /\ Agrees(op', View)
  BY <1>1, <1>3, <1>4, <1>5 DEF OpOK, Within, WriteOK, Agrees
<1> QED BY <1>6, RequestStep DEF StartWrite

LEMMA StartFlushStep ==
  ASSUME CacheInv, StartFlush
  PROVE  CacheInv' /\ Kept /\ StoreStep
<1>1. op' = [kind |-> "flush", first |-> 0, count |-> 0, buf |-> <<>>,
             done |-> 0, end |-> 0, phase |-> "next"]
  BY DEF StartFlush, Request
<1>2. op' \in OpType BY <1>1 DEF OpType
<1>3. OpOK(op', entries, dev) /\ Agrees(op', View)
  BY <1>1, <1>2 DEF OpOK, Agrees
<1> QED BY <1>3, RequestStep DEF StartFlush

LEMMA ReturnStep ==
  ASSUME CacheInv, Return
  PROVE  CacheInv' /\ Kept /\ StoreStep
<1>1. op' = NoOp BY DEF Return
<1> QED BY <1>1, NoRequest, RequestStep DEF Return

\* The block a request is at is one of the device.
LEMMA AtIsBlock ==
  ASSUME CacheInv, op.kind \in {"read", "write"},
         op.done < op.count \/ op.phase = "fill"
  PROVE  At \in Blocks /\ op.done < op.count /\ Within(op) /\ op \in OpType
<1>1. op \in OpType /\ op # NoOp BY DEF CacheInv, OpOK, NoOp
<1>2. Within(op) /\ (op.phase = "fill" => op.done < op.end /\ op.end <= op.count)
  BY <1>1 DEF CacheInv, OpOK, ReadOK, WriteOK
<1> QED BY <1>1, <1>2 DEF At, Within, OpType, Blocks

\* The phases only one kind of request has.
LEMMA PhaseKinds ==
  ASSUME CacheInv
  PROVE  /\ op.phase = "fill" => op.kind = "read" /\ ReadOK(op, entries, dev) /\ Within(op)
         /\ op.phase = "writeback" => op.kind = "write" /\ WriteOK(op, entries) /\ Within(op)
         /\ op.kind = "read" => ReadOK(op, entries, dev) /\ Within(op)
         /\ op.kind = "write" => WriteOK(op, entries) /\ Within(op)
         /\ op \in OpType
  BY DEF CacheInv, OpOK, ReadOK, WriteOK, NoOp

LEMMA ReadHitStep ==
  ASSUME CacheInv, ReadHit
  PROVE  CacheInv' /\ Kept /\ StoreStep
<1>1. /\ At \in Blocks /\ op.done < op.count /\ Within(op) /\ op \in OpType
      /\ Len(op.buf) = op.done /\ op.kind = "read" /\ op.phase = "next"
  BY AtIsBlock, PhaseKinds DEF ReadHit, Reading, ReadOK
<1> DEFINE s == SlotOf(At)
           x == entries[s].data
<1>2. s \in Slots /\ entries[s].index = At
  BY DEF ReadHit, Cached, Holds, SlotOf
<1> HIDE DEF s
<1>3. View[At] = x BY <1>1, <1>2, ViewHeld DEF CacheInv, View
<1>4. x \in Values BY <1>1, <1>3, Viewed
<1>5. /\ op' = [op EXCEPT !.buf = Append(@, x), !.done = @ + 1]
      /\ order' = Touched(order, s)
  BY DEF ReadHit, s
<1> HIDE DEF x
<1>6. op.buf \in Seq(Values) /\ op.done \in Nat /\ op.first \in Nat /\ op.count \in Nat
  BY <1>1 DEF OpType
<1>7. /\ op' \in OpType /\ op'.kind = "read" /\ op'.phase = "next" /\ op'.done = op.done + 1
      /\ op'.first = op.first /\ op'.count = op.count /\ op'.buf = Append(op.buf, x)
  <2> DEFINE buf == Append(op.buf, x)
             n == op.done + 1
  <2>1. buf \in Seq(Values) /\ n \in Nat BY <1>4, <1>6
  <2>2. op' = [op EXCEPT !.buf = buf, !.done = n] BY <1>5
  <2> HIDE DEF buf, n
  <2>3. /\ op' \in OpType /\ op'.kind = op.kind /\ op'.phase = op.phase /\ op'.done = n
        /\ op'.first = op.first /\ op'.count = op.count /\ op'.buf = buf
    BY <1>1, <2>1, <2>2 DEF OpType
  <2> QED BY <1>1, <2>3 DEF buf, n
<1>8. OpOK(op', entries, dev)
  BY <1>1, <1>4, <1>6, <1>7 DEF OpOK, Within, ReadOK
<1>9. ASSUME NEW i \in 1 .. op'.done PROVE op'.buf[i] = View[op'.first + i - 1]
  <2>1. CASE i = op.done + 1
    BY <2>1, <1>1, <1>3, <1>6, <1>7, SMTT(20) DEF At
  <2>2. CASE i # op.done + 1
    <3>1. i \in 1 .. op.done BY <2>2, <1>6, <1>7
    <3>2. op'.buf[i] = op.buf[i] BY <3>1, <1>1, <1>4, <1>6, <1>7
    <3> QED BY <3>1, <3>2, <1>1, <1>7 DEF CacheInv, Agrees
  <2> QED BY <2>1, <2>2
<1>10. Agrees(op', View) BY <1>9 DEF Agrees
<1>11. order' \in Seq(Slots) BY <1>2, <1>5, TouchedType DEF CacheInv
<1>12. /\ entries' = entries /\ dirty' = dirty /\ written' = written
       /\ dev' = dev /\ medium' = medium /\ since' = since
  BY DEF ReadHit
<1>13. View' = View BY <1>12 DEF View
<1>14. CacheInv' BY <1>8, <1>10, <1>11, <1>12, <1>13 DEF CacheInv
<1> QED BY <1>12, <1>13, <1>14, QuietStep

\* The parts of a concatenation.
LEMMA Concatenated ==
  ASSUME NEW S, NEW s \in Seq(S), NEW t \in Seq(S)
  PROVE  /\ s \o t \in Seq(S) /\ Len(s \o t) = Len(s) + Len(t)
         /\ \A i \in 1 .. Len(s) : (s \o t)[i] = s[i]
         /\ \A i \in Len(s) + 1 .. Len(s) + Len(t) : (s \o t)[i] = t[i - Len(s)]
  OBVIOUS

\* The blocks a read fetches at once: the next one, and on to the first that
\* is cached.
LEMMA UncachedRun ==
  ASSUME CacheInv, Missing
  PROVE  /\ UncachedEnd \in op.done + 1 .. op.count
         /\ \A i \in op.done + 1 .. UncachedEnd : ~Cached(op.first + i - 1)
<1>1. /\ At \in Blocks /\ op.done < op.count /\ Within(op) /\ op \in OpType
  BY AtIsBlock DEF Missing, Reading
<1>2. op.done \in Nat /\ op.count \in Nat /\ op.first \in Nat BY <1>1 DEF OpType
<1> DEFINE S == {n \in op.done + 1 .. op.count : n = op.count \/ Cached(op.first + n)}
<1>3. S \in SUBSET Nat /\ op.count \in S BY <1>1, <1>2
<1>4. PICK n \in S : \A m \in S : n <= m BY <1>3, LeastNatural
<1>5. /\ n \in op.done + 1 .. op.count
      /\ \A i \in op.done + 1 .. n - 1 : ~Cached(op.first + i)
      /\ n < op.count => Cached(op.first + n)
  BY <1>2, <1>4
<1> DEFINE u == UncachedEnd
<1>6. /\ u \in op.done + 1 .. op.count
      /\ \A i \in op.done + 1 .. u - 1 : ~Cached(op.first + i)
  BY <1>5 DEF UncachedEnd
<1> HIDE DEF u
<1>7. ~Cached(At) BY DEF Missing
<1>8. ASSUME NEW i \in op.done + 1 .. u PROVE ~Cached(op.first + i - 1)
  <2>1. CASE i = op.done + 1 BY <2>1, <1>2, <1>7 DEF At
  <2>2. CASE i # op.done + 1
    <3>1. i - 1 \in op.done + 1 .. u - 1 BY <2>2, <1>2, <1>6
    <3>2. op.first + (i - 1) = op.first + i - 1 BY <1>2, <1>6
    <3> QED BY <3>1, <3>2, <1>6
  <2> QED BY <2>1, <2>2
<1> QED BY <1>6, <1>8 DEF u

LEMMA LoadStep ==
  ASSUME CacheInv, Load
  PROVE  CacheInv' /\ Kept /\ StoreStep
<1>1. /\ At \in Blocks /\ op.done < op.count /\ Within(op) /\ op \in OpType
      /\ Len(op.buf) = op.done /\ op.kind = "read"
  BY AtIsBlock, PhaseKinds DEF Load, Missing, Reading, ReadOK
<1>2. /\ op.buf \in Seq(Values) /\ op.done \in Nat /\ op.first \in Nat /\ op.count \in Nat
      /\ op.first + op.count <= NumBlocks
  BY <1>1 DEF OpType, Within
<1> DEFINE u == UncachedEnd
           new == [i \in 1 .. u - op.done |-> dev[At + i - 1]]
           buf == op.buf \o new
<1>3. u \in op.done + 1 .. op.count /\ \A i \in op.done + 1 .. u : ~Cached(op.first + i - 1)
  BY UncachedRun DEF Load
<1> HIDE DEF u
<1>4. u \in Nat /\ u - op.done \in Nat BY <1>2, <1>3
<1>5. \A i \in 1 .. u - op.done : dev[At + i - 1] \in Values /\ At + i - 1 = op.first + (op.done + i) - 1
  <2> SUFFICES ASSUME NEW i \in 1 .. u - op.done
               PROVE  dev[At + i - 1] \in Values /\ At + i - 1 = op.first + (op.done + i) - 1
    OBVIOUS
  <2>1. At + i - 1 = op.first + (op.done + i) - 1 BY <1>2, <1>4 DEF At
  <2>2. u <= op.count BY <1>2, <1>3
  <2>3. i \in Nat /\ 1 <= i /\ op.done + i <= u BY <1>2, <1>4
  <2>4. At + i - 1 \in Nat /\ At + i - 1 < NumBlocks
    <3>1. PICK a, c, dn \in Nat : a = op.first /\ dn = op.done /\ c = op.count BY <1>2
    <3>2. a + c <= NumBlocks /\ u <= c /\ dn + i <= u /\ u \in Nat BY <2>2, <2>3, <1>2, <1>4, <3>1
    <3>3. a + dn + i - 1 \in Nat /\ a + dn + i - 1 < NumBlocks BY <2>3, <3>2
    <3> QED BY <3>1, <3>3 DEF At
  <2>5. At + i - 1 \in Blocks BY <2>4 DEF Blocks
  <2> QED BY <2>1, <2>5 DEF CacheInv
<1>6. new \in Seq(Values) /\ Len(new) = u - op.done BY <1>4, <1>5
<1>7. \A i \in 1 .. u - op.done : new[i] = dev[op.first + (op.done + i) - 1] BY <1>5
<1> HIDE DEF new
<1>8. /\ buf \in Seq(Values) /\ Len(buf) = u
      /\ \A i \in 1 .. op.done : buf[i] = op.buf[i]
      /\ \A i \in op.done + 1 .. u : buf[i] = new[i - op.done]
  <2>1. /\ buf \in Seq(Values) /\ Len(buf) = Len(op.buf) + Len(new)
        /\ \A i \in 1 .. Len(op.buf) : buf[i] = op.buf[i]
        /\ \A i \in Len(op.buf) + 1 .. Len(op.buf) + Len(new) : buf[i] = new[i - Len(op.buf)]
    BY <1>2, <1>6, Concatenated, Zenon
  <2> HIDE DEF buf
  <2>2. op.done + Len(new) = u BY <1>2, <1>4, <1>6
  <2> QED BY <2>1, <2>2, <1>1
<1>9. ASSUME NEW i \in op.done + 1 .. u PROVE buf[i] = dev[op.first + i - 1]
  <2>1. i - op.done \in 1 .. u - op.done BY <1>2, <1>4
  <2>2. buf[i] = new[i - op.done] BY <1>8
  <2>3. op.done + (i - op.done) = i BY <1>2, <1>4
  <2> QED BY <2>1, <2>2, <2>3, <1>7
<1>10. \A i \in 1 .. op.done : buf[i] = op.buf[i] BY <1>8
<1>11. op' = [op EXCEPT !.buf = buf, !.end = u, !.phase = "fill"] BY DEF Load, u, new
<1> HIDE DEF buf
<1>12. /\ op' \in OpType /\ op'.kind = "read" /\ op'.phase = "fill" /\ op'.done = op.done
       /\ op'.first = op.first /\ op'.count = op.count /\ op'.buf = buf /\ op'.end = u
  BY <1>1, <1>4, <1>8, <1>11 DEF OpType
<1>13. OpOK(op', entries, dev)
  <2>1. ReadOK(op', entries, dev)
    <3>1. \A i \in op'.done + 1 .. op'.end :
             ~Holds(entries, op'.first + i - 1) /\ op'.buf[i] = dev[op'.first + i - 1]
      BY <1>3, <1>9, <1>12 DEF Cached
    <3>2. op'.done < op'.end /\ op'.end <= op'.count /\ Len(op'.buf) = op'.end
      BY <1>2, <1>3, <1>8, <1>12
    <3> QED BY <3>1, <3>2, <1>12 DEF ReadOK
  <2>2. Within(op') BY <1>1, <1>12 DEF Within
  <2> QED BY <2>1, <2>2, <1>12 DEF OpOK
<1>14. Agrees(op', View)
  BY <1>1, <1>10, <1>12 DEF Agrees, CacheInv
<1> QED BY <1>13, <1>14, RequestStep DEF Load

LEMMA FillStep ==
  ASSUME CacheInv, Fill
  PROVE  CacheInv' /\ Kept /\ StoreStep
<1>1. /\ At \in Blocks /\ op.done < op.count /\ Within(op) /\ op \in OpType
      /\ op.kind = "read" /\ op.phase = "fill"
      /\ op.done < op.end /\ op.end <= op.count /\ Len(op.buf) = op.end
      /\ \A i \in op.done + 1 .. op.end :
             ~Holds(entries, op.first + i - 1) /\ op.buf[i] = dev[op.first + i - 1]
  BY AtIsBlock, PhaseKinds DEF Fill, ReadOK
<1>2. /\ op.buf \in Seq(Values) /\ op.done \in Nat /\ op.first \in Nat /\ op.count \in Nat
      /\ op.end \in Nat /\ op.first + op.count <= NumBlocks
  BY <1>1 DEF OpType, Within
<1> DEFINE b == At
           s == Victim(At)
           v == op.buf[op.done + 1]
           e2 == Placed(entries, s, b, v)
<1>3. op.done + 1 \in op.done + 1 .. op.end /\ op.first + (op.done + 1) - 1 = b
  BY <1>1, <1>2 DEF At
<1>4. ~Holds(entries, b) /\ v = dev[b] BY <1>1, <1>3
<1>5. v \in Values BY <1>1, <1>4 DEF CacheInv
<1>6. b \notin dirty BY <1>4 DEF CacheInv, Matches
<1>7. s \in Slots BY <1>1, VictimIsSlot DEF CacheInv
<1>8. entries[s].index \notin dirty BY <1>4 DEF Fill, MustEvict, Cached
<1>9. entries' = e2 /\ order' = Touched(order, s)
  BY DEF Fill, Place, Placed
<1>10. /\ EntriesOK(e2)
       /\ \A c \in Blocks : Holds(e2, c) => c = b \/ Holds(entries, c)
       /\ ViewOf(e2, dev)[b] = v
       /\ \A c \in Blocks \ {b} : ViewOf(e2, dev)[c] = ViewOf(entries, dev)[c]
       /\ Matches(e2, dirty, dev)
  <2>1. EntriesOK(entries) /\ dirty \in SUBSET Blocks /\ Matches(entries, dirty, dev)
    BY DEF CacheInv
  <2>2. b \in Blocks BY <1>1
  <2> HIDE DEF b, s, v
  <2>3. CanPlace(entries, dirty, dev, s, b, v)
    BY <2>1, <2>2, <1>4, <1>5, <1>6, <1>7, <1>8 DEF CanPlace
  <2>4. PlaceDone(entries, dirty, dev, e2, b, v) BY <2>3, PlaceKeeps
  <2> HIDE DEF e2
  <2> QED BY <2>4, <1>4, <1>6 DEF PlaceDone
<1> DEFINE n == op.done + 1
           ph == IF n < op.end THEN "fill" ELSE "next"
<1>11. op' = [op EXCEPT !.done = n, !.phase = ph] BY DEF Fill
<1>12. n \in Nat /\ n = op.done + 1 /\ ((ph = "fill" /\ n < op.end) \/ (ph = "next" /\ n = op.end))
  <2>1. n \in Nat /\ n = op.done + 1 /\ n <= op.end BY <1>1, <1>2
  <2> HIDE DEF n
  <2>2. n < op.end => ph = "fill" OBVIOUS
  <2>3. ~(n < op.end) => ph = "next" OBVIOUS
  <2> HIDE DEF ph
  <2> QED BY <1>2, <2>1, <2>2, <2>3
<1>13. b = op.first + op.done BY DEF At
<1> HIDE DEF b, s, v, e2, n, ph
<1>14. ViewOf(entries, dev)[b] = dev[b] BY <1>1, <1>4, ViewFree DEF b
<1>15. ViewOf(e2, dev) = ViewOf(entries, dev) BY <1>4, <1>10, <1>14, ViewEqual
<1>16. /\ dirty' = dirty /\ written' = written /\ dev' = dev /\ medium' = medium /\ since' = since
  BY DEF Fill
<1>17. View' = View BY <1>9, <1>15, <1>16 DEF View
<1>18. /\ op' \in OpType /\ op'.kind = "read" /\ op'.phase = ph /\ op'.done = n
       /\ op'.first = op.first /\ op'.count = op.count /\ op'.buf = op.buf /\ op'.end = op.end
  BY <1>1, <1>11, <1>12 DEF OpType
<1>19. Within(op') BY <1>1, <1>2, <1>12, <1>18 DEF Within
<1>20. ReadOK(op', e2, dev)
  <2>1. CASE ph = "fill"
    <3>1. ASSUME NEW i \in n + 1 .. op.end
          PROVE  ~Holds(e2, op.first + i - 1) /\ op.buf[i] = dev[op.first + i - 1]
      <4>1. i \in op.done + 1 .. op.end BY <1>2, <1>12
      <4>2. op.first + i - 1 # b BY <1>2, <1>12, <1>13, <4>1, SMTT(20)
      <4>3. op.first + i - 1 \in Blocks BY <1>1, <1>2, <4>1 DEF Blocks
      <4> QED BY <1>1, <1>10, <4>1, <4>2, <4>3
    <3> QED BY <3>1, <2>1, <1>1, <1>12, <1>18 DEF ReadOK
  <2>2. CASE ph = "next" BY <2>2, <1>1, <1>12, <1>18 DEF ReadOK
  <2> QED BY <2>1, <2>2, <1>12
<1>21. OpOK(op', e2, dev) BY <1>18, <1>19, <1>20 DEF OpOK
<1>22. ASSUME NEW i \in 1 .. n PROVE op.buf[i] = View[op.first + i - 1]
  <2>1. CASE i = n
    <3>1. op.first + n - 1 = b BY <1>2, <1>12, <1>13
    <3>2. op.buf[n] = v BY <1>12 DEF v
    <3> QED BY <2>1, <3>1, <3>2, <1>4, <1>14 DEF View
  <2>2. CASE i # n
    <3>1. i \in 1 .. op.done BY <2>2, <1>2, <1>12
    <3> QED BY <3>1, <1>1 DEF CacheInv, Agrees
  <2> QED BY <2>1, <2>2
<1>23. Agrees(op', View) BY <1>18, <1>22 DEF Agrees
<1>24. order' \in Seq(Slots) BY <1>7, <1>9, TouchedType DEF CacheInv
<1>25. CacheInv'
  BY <1>9, <1>10, <1>16, <1>17, <1>21, <1>23, <1>24 DEF CacheInv
<1> QED BY <1>16, <1>17, <1>25, QuietStep

\* A step that changes what the cache shows and remembers it is a write of
\* the block store.
LEMMA RememberedStep ==
  ASSUME CacheInv, EntriesOK(entries'), dev' \in [Blocks -> Values], medium' = medium, Remember,
         \A b \in Blocks : dev'[b] \in since[b] \cup {View'[b]}
  PROVE  /\ since' \in [Blocks -> SUBSET Values]
         /\ (Recorded(View, dev, medium, since))'
         /\ StoreStep
<1>1. View' = ViewOf(entries', dev') BY DEF View
<1>2. View' \in [Blocks -> Values] BY <1>1, ViewType
<1>3. View \in [Blocks -> Values] BY Viewed
<1>4. since' = [b \in Blocks |-> since[b] \cup {View'[b]}] BY <1>1 DEF Remember
<1>5. since \in [Blocks -> SUBSET Values] /\ Recorded(View, dev, medium, since) BY DEF CacheInv
<1>6. since' \in [Blocks -> SUBSET Values] BY <1>2, <1>4, <1>5
<1>7. (Recorded(View, dev, medium, since))'
  BY <1>4, <1>5 DEF Recorded
<1>8. \A b \in Blocks : \E v \in Values :
         since'[b] = since[b] \cup {v} /\ View'[b] \in {View[b], v}
  BY <1>2, <1>4
<1>9. Store!Write BY <1>2, <1>6, <1>8 DEF Store!Write
<1> QED BY <1>6, <1>7, <1>9 DEF StoreStep, Store!Next

LEMMA PutStep ==
  ASSUME CacheInv, Put
  PROVE  CacheInv' /\ Kept /\ StoreStep
<1>1. /\ At \in Blocks /\ op.done < op.count /\ Within(op) /\ op \in OpType
      /\ op.kind = "write" /\ op.phase = "next" /\ Len(op.buf) = op.count
  BY AtIsBlock, PhaseKinds DEF Put, Writing, WriteOK
<1>2. /\ op.buf \in Seq(Values) /\ op.done \in Nat /\ op.first \in Nat /\ op.count \in Nat
  BY <1>1 DEF OpType
<1> DEFINE b == At
           s == Victim(At)
           v == op.buf[op.done + 1]
           e2 == Placed(entries, s, b, v)
           n == op.done + 1
<1>3. n \in 1 .. op.count /\ n \in Nat BY <1>1, <1>2
<1>4. v \in Values BY <1>1, <1>2, <1>3
<1>5. s \in Slots /\ (Holds(entries, b) => entries[s].index = b)
  BY <1>1, VictimIsSlot DEF CacheInv
<1>6. entries[s].index = b \/ entries[s].index \notin dirty
  BY <1>5 DEF Put, MustEvict, Cached
<1>7. /\ entries' = e2 /\ order' = Touched(order, s) /\ dirty' = dirty \cup {b}
      /\ op' = [op EXCEPT !.done = n]
      /\ written' = written /\ dev' = dev /\ medium' = medium /\ Remember
  BY DEF Put, Place, Placed
<1>8. b = op.first + op.done /\ b \in Blocks BY <1>1 DEF At
<1>9. n = op.done + 1 /\ v = op.buf[n] OBVIOUS
<1>10. EntriesOK(entries) /\ dirty \in SUBSET Blocks /\ Matches(entries, dirty, dev)
  BY DEF CacheInv
<1> HIDE DEF b, s, v, n
<1>11. CanPlace(entries, dirty, dev, s, b, v)
  BY <1>4, <1>5, <1>6, <1>8, <1>10 DEF CanPlace
<1>12. PlaceDone(entries, dirty, dev, e2, b, v) BY <1>11, PlaceKeeps
<1> HIDE DEF e2
<1>13. /\ EntriesOK(e2) /\ Matches(e2, dirty \cup {b}, dev)
       /\ ViewOf(e2, dev)[b] = v
       /\ \A c \in Blocks \ {b} : ViewOf(e2, dev)[c] = ViewOf(entries, dev)[c]
  BY <1>12 DEF PlaceDone
<1>14. View'[b] = v /\ \A c \in Blocks \ {b} : View'[c] = View[c]
  BY <1>7, <1>13 DEF View
<1>15. /\ op' \in OpType /\ op'.kind = "write" /\ op'.phase = "next" /\ op'.done = n
       /\ op'.first = op.first /\ op'.count = op.count /\ op'.buf = op.buf
  BY <1>1, <1>3, <1>7 DEF OpType
<1>16. OpOK(op', e2, dev)
  <2>1. Within(op') BY <1>1, <1>3, <1>15 DEF Within
  <2>2. WriteOK(op', e2) BY <1>1, <1>15 DEF WriteOK
  <2> QED BY <2>1, <2>2, <1>15 DEF OpOK
<1>17. ASSUME NEW i \in 1 .. n PROVE op.buf[i] = View'[op.first + i - 1]
  <2>1. CASE i = n
    <3>1. op.first + n - 1 = b BY <1>2, <1>8, <1>9
    <3> QED BY <2>1, <3>1, <1>9, <1>14
  <2>2. CASE i # n
    <3>1. i \in 1 .. op.done BY <2>2, <1>2, <1>9
    <3>2. op.first + i - 1 # b BY <3>1, <1>2, <1>8
    <3>3. op.first + i - 1 \in Blocks BY <3>1, <1>1, <1>2 DEF Within, Blocks
    <3>4. op.buf[i] = View[op.first + i - 1] BY <3>1, <1>1 DEF CacheInv, Agrees
    <3> QED BY <3>2, <3>3, <3>4, <1>14
  <2> QED BY <2>1, <2>2
<1>18. (Agrees(op, View))' BY <1>15, <1>17 DEF Agrees
<1>19. order' \in Seq(Slots) BY <1>5, <1>7, TouchedType DEF CacheInv
<1>20. /\ EntriesOK(entries') /\ dev' \in [Blocks -> Values]
       /\ \A c \in Blocks : dev'[c] \in since[c] \cup {View'[c]}
  BY <1>7, <1>13 DEF CacheInv, Recorded
<1>21. /\ since' \in [Blocks -> SUBSET Values]
       /\ (Recorded(View, dev, medium, since))' /\ StoreStep
  BY <1>7, <1>20, RememberedStep
<1>22. CacheInv'
  <2>1. dirty' \in SUBSET Blocks BY <1>7, <1>8, <1>10
  <2>2. Matches(entries, dirty, dev)' BY <1>7, <1>13
  <2>3. OpOK(op, entries, dev)' BY <1>7, <1>16
  <2>4. written' \in BOOLEAN /\ medium' \in [Blocks -> Values] BY <1>7 DEF CacheInv
  <2> QED BY <2>1, <2>2, <2>3, <2>4, <1>18, <1>19, <1>20, <1>21 DEF CacheInv
<1>23. ASSUME NEW c \in Blocks, View'[c] # View[c]
       PROVE  /\ op.kind = "write" /\ c \in Range(op.first, op.count)
              /\ View'[c] = op.buf[c - op.first + 1]
  <2>1. c = b BY <1>14, <1>23
  <2>2. c \in Range(op.first, op.count) BY <2>1, <1>1, <1>2, <1>8 DEF Range
  <2>3. c - op.first + 1 = n BY <2>1, <1>2, <1>8, <1>9
  <2> QED BY <2>1, <2>2, <2>3, <1>1, <1>9, <1>14
<1>24. Kept BY <1>23 DEF Kept
<1> QED BY <1>21, <1>22, <1>24

\* The invariant after a step that writes what cached blocks show to the
\* device, and may take them for clean.
LEMMA StoringStep ==
  ASSUME CacheInv, UNCHANGED <<entries, order, written, op, medium, since>>,
         CanStore(entries, dirty, dirty', dev, dev'),
         dev' \in [Blocks -> Values], OpOK(op, entries, dev')
  PROVE  CacheInv' /\ Kept /\ StoreStep
<1>1. PICK D2, d2 : D2 = dirty' /\ d2 = dev' OBVIOUS
<1>2. CanStore(entries, dirty, D2, dev, d2) BY <1>1
<1>3. ViewOf(entries, d2) = ViewOf(entries, dev) /\ Matches(entries, D2, d2)
  BY <1>2, StoreKeeps
<1>4. View' = View BY <1>1, <1>3 DEF View
<1>5. Matches(entries, dirty, dev)' BY <1>1, <1>3
<1>6. dirty' \in SUBSET Blocks BY DEF CanStore
<1>7. ASSUME NEW b \in Blocks PROVE dev'[b] \in since[b]
  BY DEF CanStore, CacheInv, Recorded, View
<1>8. Recorded(View, dev, medium, since)' BY <1>4, <1>7 DEF CacheInv, Recorded
<1>9. CacheInv' BY <1>4, <1>5, <1>6, <1>8 DEF CacheInv
<1> QED BY <1>4, <1>9, QuietStep

\* A victim that must be written is dirty and shows its slot's data.
LEMMA VictimShows ==
  ASSUME CacheInv, Evicting
  PROVE  LET e == entries[Victim(At)]
         IN  /\ e.index \in dirty /\ e.index \in Blocks /\ e.data \in Values
             /\ Holds(entries, e.index) /\ e.data = View[e.index]
<1>1. At \in Blocks /\ op.kind \in {"read", "write"}
  BY AtIsBlock, PhaseKinds DEF Evicting, Writing
<1> DEFINE s == Victim(At)
<1>2. s \in Slots BY <1>1, VictimIsSlot DEF CacheInv
<1>3. entries[s].index \in dirty BY DEF Evicting, MustEvict
<1>4. EntriesOK(entries) /\ dirty \in SUBSET Blocks BY DEF CacheInv
<1> HIDE DEF s
<1>5. entries[s].index \in Blocks BY <1>3, <1>4
<1>6. entries[s].data \in Values BY <1>2, <1>4, <1>5, SlotKinds DEF EntriesOK
<1>7. Holds(entries, entries[s].index) /\ View[entries[s].index] = entries[s].data
  BY <1>2, <1>4, <1>5, ViewHeld DEF View
<1> QED BY <1>3, <1>5, <1>6, <1>7 DEF s

\* What a request knows of the device concerns blocks that are not cached.
LEMMA PhaseUnderStore ==
  ASSUME CacheInv, NEW d2,
         \A b \in Blocks : d2[b] = dev[b] \/ Holds(entries, b)
  PROVE  OpOK(op, entries, d2)
<1>1. CASE op.kind = "read" /\ op.phase = "fill"
  <2>1. ReadOK(op, entries, dev) /\ Within(op) /\ op \in OpType BY <1>1, PhaseKinds
  <2>2. ASSUME NEW i \in op.done + 1 .. op.end
        PROVE  ~Holds(entries, op.first + i - 1) /\ op.buf[i] = d2[op.first + i - 1]
    <3>1. op.first + i - 1 \in Blocks
      BY <1>1, <2>1 DEF ReadOK, Within, OpType, Blocks
    <3> QED BY <1>1, <2>1, <3>1 DEF ReadOK
  <2>3. ReadOK(op, entries, d2) BY <1>1, <2>1, <2>2 DEF ReadOK
  <2> QED BY <1>1, <2>1, <2>3 DEF OpOK
<1>2. CASE ~(op.kind = "read" /\ op.phase = "fill")
  BY <1>2 DEF CacheInv, OpOK, ReadOK
<1> QED BY <1>1, <1>2

LEMMA EvictStep ==
  ASSUME CacheInv, Evict
  PROVE  CacheInv' /\ Kept /\ StoreStep
<1> DEFINE b == entries[Victim(At)].index
           v == entries[Victim(At)].data
<1>1. b \in dirty /\ b \in Blocks /\ v \in Values /\ Holds(entries, b) /\ v = View[b]
  BY VictimShows DEF Evict
<1>2. /\ dev' = [dev EXCEPT ![b] = v] /\ dirty' = dirty \ {b}
      /\ UNCHANGED <<entries, order, written, op, medium, since>>
  BY DEF Evict
<1> HIDE DEF b, v
<1>3. dev \in [Blocks -> Values] BY DEF CacheInv
<1>4. dev' \in [Blocks -> Values] BY <1>1, <1>2, <1>3
<1>5. \A c \in Blocks : dev'[c] = IF c = b THEN v ELSE dev[c] BY <1>2, <1>3
<1>6. CanStore(entries, dirty, dirty', dev, dev')
  BY <1>1, <1>2, <1>5 DEF CanStore, CacheInv, View
<1>7. OpOK(op, entries, dev')
  <2>1. PICK d2 : d2 = dev' OBVIOUS
  <2>2. \A c \in Blocks : d2[c] = dev[c] \/ Holds(entries, c) BY <2>1, <1>1, <1>5
  <2> QED BY <2>1, <2>2, PhaseUnderStore
<1> QED BY <1>2, <1>4, <1>6, <1>7, StoringStep

LEMMA EvictRefusedStep ==
  ASSUME CacheInv, EvictRefused
  PROVE  CacheInv' /\ Kept /\ StoreStep
<1>1. /\ At \in Blocks /\ op.done < op.count /\ Within(op) /\ op \in OpType
      /\ op.kind = "read" /\ op.phase = "fill"
      /\ op.done < op.end /\ op.end <= op.count /\ Len(op.buf) = op.end
      /\ \A i \in op.done + 1 .. op.end :
             ~Holds(entries, op.first + i - 1) /\ op.buf[i] = dev[op.first + i - 1]
  BY AtIsBlock, PhaseKinds DEF EvictRefused, ReadOK
<1>2. /\ op.buf \in Seq(Values) /\ op.done \in Nat /\ op.first \in Nat /\ op.count \in Nat
      /\ op.end \in Nat
  BY <1>1 DEF OpType
<1> DEFINE n == op.done + 1
           buf == SubSeq(op.buf, 1, n)
<1>3. n \in Nat /\ n = op.done + 1 /\ n \in 1 .. Len(op.buf) BY <1>1, <1>2
<1>4. op' = [op EXCEPT !.done = n, !.buf = buf, !.phase = "next"] BY DEF EvictRefused
<1> HIDE DEF n
<1>5. buf \in Seq(Values) /\ Len(buf) = n /\ \A i \in 1 .. n : buf[i] = op.buf[i]
  BY <1>2, <1>3
<1> HIDE DEF buf
<1>6. /\ op' \in OpType /\ op'.kind = "read" /\ op'.phase = "next" /\ op'.done = n
      /\ op'.first = op.first /\ op'.count = op.count /\ op'.buf = buf
  BY <1>1, <1>3, <1>4, <1>5 DEF OpType
<1>7. OpOK(op', entries, dev)
  <2>1. Within(op') BY <1>1, <1>2, <1>3, <1>6 DEF Within
  <2>2. ReadOK(op', entries, dev) BY <1>5, <1>6 DEF ReadOK
  <2> QED BY <2>1, <2>2, <1>6 DEF OpOK
<1>8. ASSUME NEW i \in 1 .. n PROVE buf[i] = View[op.first + i - 1]
  <2>1. CASE i = n
    <3>1. n \in op.done + 1 .. op.end BY <1>1, <1>2, <1>3
    <3>2. op.first + n - 1 = At BY <1>2, <1>3 DEF At
    <3>3. ~Holds(entries, At) /\ op.buf[n] = dev[At] BY <1>1, <3>1, <3>2
    <3>4. View[At] = dev[At] BY <1>1, <3>3, ViewFree DEF View
    <3> QED BY <2>1, <3>2, <3>3, <3>4, <1>5
  <2>2. CASE i # n
    <3>1. i \in 1 .. op.done BY <2>2, <1>2, <1>3
    <3> QED BY <3>1, <1>1, <1>5 DEF CacheInv, Agrees
  <2> QED BY <2>1, <2>2
<1>9. Agrees(op', View) BY <1>6, <1>8 DEF Agrees
<1> QED BY <1>7, <1>9, RequestStep DEF EvictRefused

-----------------------------------------------------------------------------
(* The requests past the cache. *)

LEMMA DirectReadStep ==
  ASSUME CacheInv, DirectRead
  PROVE  CacheInv' /\ Kept /\ StoreStep
<1>1. Within(op) /\ op \in OpType /\ op.kind = "read"
  BY PhaseKinds DEF DirectRead
<1>2. /\ op.first \in Nat /\ op.count \in Nat /\ op.first + op.count <= NumBlocks
  BY <1>1 DEF OpType, Within
<1>3. \A i \in 1 .. op.count : op.first + i - 1 \in Blocks BY <1>2 DEF Blocks
<1>4. ASSUME NEW b \in Blocks PROVE (IF b \in dirty THEN View[b] ELSE dev[b]) = View[b]
  <2>1. EntriesOK(entries) /\ Matches(entries, dirty, dev) BY DEF CacheInv
  <2>2. CASE b \notin dirty BY <2>1, <2>2, ViewClean DEF View
  <2> QED BY <2>2
<1> DEFINE buf == [i \in 1 .. op.count |-> View[op.first + i - 1]]
           n == op.count
<1>5. op' = [op EXCEPT !.buf = buf, !.done = n, !.phase = "next"]
  <2>1. [i \in 1 .. op.count |-> IF op.first + i - 1 \in dirty THEN View[op.first + i - 1]
                                 ELSE dev[op.first + i - 1]] = buf
    BY <1>3, <1>4
  <2> QED BY <2>1 DEF DirectRead
<1>6. \A i \in 1 .. op.count : View[op.first + i - 1] \in Values BY <1>3, Viewed
<1>7. buf \in Seq(Values) /\ Len(buf) = n /\ n \in Nat BY <1>2, <1>6
<1>8. \A i \in 1 .. n : buf[i] = View[op.first + i - 1] OBVIOUS
<1> HIDE DEF buf
<1>9. /\ op' \in OpType /\ op'.kind = "read" /\ op'.phase = "next" /\ op'.done = n
      /\ op'.first = op.first /\ op'.count = n /\ op'.buf = buf
  BY <1>1, <1>5, <1>7 DEF OpType
<1>10. OpOK(op', entries, dev)
  <2>1. Within(op') BY <1>1, <1>2, <1>9 DEF Within
  <2>2. ReadOK(op', entries, dev) BY <1>7, <1>9 DEF ReadOK
  <2> QED BY <2>1, <2>2, <1>9 DEF OpOK
<1>11. Agrees(op', View) BY <1>8, <1>9 DEF Agrees
<1> QED BY <1>10, <1>11, RequestStep DEF DirectRead

\* A dirty block's slot is its own and has what the block shows.
LEMMA DirtyShows ==
  ASSUME CacheInv, NEW b \in dirty
  PROVE  /\ b \in Blocks /\ Holds(entries, b) /\ SlotOf(b) \in Slots
         /\ entries[SlotOf(b)].index = b
         /\ entries[SlotOf(b)].data = View[b] /\ View[b] \in Values
<1>1. b \in Blocks /\ Holds(entries, b) BY DEF CacheInv, Matches
<1>2. SlotOf(b) \in Slots /\ entries[SlotOf(b)].index = b BY <1>1 DEF SlotOf, Holds
<1>3. EntriesOK(entries) BY DEF CacheInv
<1>4. View[b] = entries[SlotOf(b)].data BY <1>1, <1>2, <1>3, ViewHeld DEF View
<1> QED BY <1>1, <1>2, <1>4, Viewed

LEMMA WriteBackStep ==
  ASSUME CacheInv, WriteBack
  PROVE  CacheInv' /\ Kept /\ StoreStep
<1> DEFINE b == FirstOf(Covered)
           v == entries[SlotOf(b)].data
<1>1. Covered \in SUBSET Blocks /\ Covered # {} /\ Covered \subseteq dirty
  BY DEF WriteBack, WritingBack, Covered, CacheInv
<1>2. b \in dirty BY <1>1, FirstIsLeast
<1>3. /\ dev' = [dev EXCEPT ![b] = v] /\ dirty' = dirty \ {b}
      /\ UNCHANGED <<entries, order, written, op, medium, since>>
  BY DEF WriteBack
<1> HIDE DEF b
<1>4. b \in Blocks /\ v \in Values /\ Holds(entries, b) /\ v = View[b]
  BY <1>2, DirtyShows
<1> HIDE DEF v
<1>5. dev \in [Blocks -> Values] BY DEF CacheInv
<1>6. dev' \in [Blocks -> Values] BY <1>3, <1>4, <1>5
<1>7. \A c \in Blocks : dev'[c] = IF c = b THEN v ELSE dev[c] BY <1>3, <1>5
<1>8. CanStore(entries, dirty, dirty', dev, dev')
  BY <1>2, <1>3, <1>4, <1>7 DEF CanStore, CacheInv, View
<1>9. OpOK(op, entries, dev')
  <2>1. PICK d2 : d2 = dev' OBVIOUS
  <2>2. \A c \in Blocks : d2[c] = dev[c] \/ Holds(entries, c) BY <2>1, <1>4, <1>7
  <2> QED BY <2>1, <2>2, PhaseUnderStore
<1> QED BY <1>3, <1>6, <1>8, <1>9, StoringStep

\* forget keeps the list one of slots.
LEMMA DemoteType ==
  ASSUME order \in Seq(Slots), NEW S, Demote(S)
  PROVE  order' \in Seq(Slots)
<1>1. order' \in [1 .. Len(order) -> Slots] /\ Len(order) \in Nat BY DEF Demote
<1> QED BY <1>1

LEMMA InvalidateStep ==
  ASSUME CacheInv, Invalidate
  PROVE  CacheInv' /\ Kept /\ StoreStep
<1> DEFINE S == {s \in Slots : entries[s].index \in Range(op.first, op.count)}
           e2 == Emptied(entries, S)
<1>1. /\ op.kind = "write" /\ Within(op) /\ op \in OpType
      /\ op.phase = "writeback" /\ op.done = 0 /\ Len(op.buf) = op.count
  BY PhaseKinds DEF Invalidate, WriteOK
<1>2. /\ entries' = e2 /\ Demote(S) /\ op' = [op EXCEPT !.phase = "direct"]
      /\ dirty' = dirty /\ written' = written /\ dev' = dev /\ medium' = medium /\ since' = since
  BY DEF Invalidate, Emptied
<1>3. \A s \in S : entries[s].index \notin dirty
  BY DEF Invalidate, Covered, CacheInv
<1>4. CanDrop(entries, dirty, dev, S) BY <1>3 DEF CanDrop, CacheInv
<1>5. \A b \in Range(op.first, op.count) : ~Holds(e2, b)
  <2> SUFFICES ASSUME NEW b \in Range(op.first, op.count), NEW s \in Slots, e2[s].index = b
               PROVE  FALSE
    BY DEF Holds
  <2>1. b \in Blocks BY DEF Range
  <2>2. s \notin S BY <2>1 DEF Emptied, Empty, Blocks
  <2>3. e2[s] = entries[s] BY <2>2 DEF Emptied
  <2> QED BY <2>2, <2>3
<1> HIDE DEF S
<1>6. /\ EntriesOK(e2) /\ ViewOf(e2, dev) = ViewOf(entries, dev) /\ Matches(e2, dirty, dev)
  BY <1>4, DropKeeps
<1> HIDE DEF e2
<1>7. View' = View BY <1>2, <1>6 DEF View
<1>8. /\ op' \in OpType /\ op'.kind = "write" /\ op'.phase = "direct" /\ op'.done = 0
      /\ op'.first = op.first /\ op'.count = op.count /\ op'.buf = op.buf
  BY <1>1, <1>2 DEF OpType
<1>9. OpOK(op', e2, dev)
  <2>1. Within(op') BY <1>1, <1>8 DEF Within
  <2>2. WriteOK(op', e2) BY <1>1, <1>5, <1>8 DEF WriteOK
  <2> QED BY <2>1, <2>2, <1>8 DEF OpOK
<1>10. Agrees(op', View) BY <1>8 DEF Agrees
<1>11. order' \in Seq(Slots) BY <1>2, DemoteType DEF CacheInv
<1>12. CacheInv' BY <1>2, <1>6, <1>7, <1>9, <1>10, <1>11 DEF CacheInv
<1> QED BY <1>2, <1>7, <1>12, QuietStep

LEMMA DirectWriteStep ==
  ASSUME CacheInv, DirectWrite
  PROVE  CacheInv' /\ Kept /\ StoreStep
<1>1. /\ op.kind = "write" /\ Within(op) /\ op \in OpType
      /\ op.phase = "direct" /\ op.done = 0 /\ Len(op.buf) = op.count
      /\ \A b \in Range(op.first, op.count) : ~Holds(entries, b)
  BY PhaseKinds DEF DirectWrite, WriteOK
<1>2. /\ op.buf \in Seq(Values) /\ op.first \in Nat /\ op.count \in Nat
      /\ op.first + op.count <= NumBlocks
  BY <1>1 DEF OpType, Within
<1> DEFINE n == op.count
<1>3. /\ dev' = Overwritten(dev, op.first, op.buf) /\ written' = TRUE
      /\ op' = [op EXCEPT !.done = n, !.phase = "next"]
      /\ entries' = entries /\ Remember
      /\ order' = order /\ dirty' = dirty /\ medium' = medium
  BY DEF DirectWrite
<1>4. dev \in [Blocks -> Values] BY DEF CacheInv
<1>5. ASSUME NEW b \in Range(op.first, op.count)
      PROVE  b \in Blocks /\ b - op.first + 1 \in 1 .. op.count /\ op.buf[b - op.first + 1] \in Values
  <2>1. b \in Blocks /\ b \in Nat /\ op.first <= b /\ b < op.first + op.count BY DEF Range, Blocks
  <2>2. b - op.first + 1 \in 1 .. op.count BY <2>1, <1>2
  <2> QED BY <2>1, <2>2, <1>1, <1>2
<1>6. \A b \in Blocks : dev'[b] = IF b \in Range(op.first, op.count)
                                  THEN op.buf[b - op.first + 1] ELSE dev[b]
  BY <1>1, <1>3 DEF Overwritten
<1>7. dev' \in [Blocks -> Values]
  <2>1. \A b \in Blocks : dev'[b] \in Values BY <1>4, <1>5, <1>6
  <2>2. dev' = [b \in Blocks |-> dev'[b]] BY <1>3 DEF Overwritten
  <2> QED BY <2>1, <2>2
<1>8. PICK d2 : d2 = dev' OBVIOUS
<1>9. CanChange(entries, dirty, dev, d2)
  BY <1>1, <1>6, <1>8 DEF CanChange, CacheInv
<1>10. /\ Matches(entries, dirty, d2)
       /\ \A b \in Blocks : ViewOf(entries, d2)[b] =
             IF Holds(entries, b) THEN ViewOf(entries, dev)[b] ELSE d2[b]
  BY <1>9, DeviceKeeps
<1>11. \A b \in Blocks : View'[b] = IF b \in Range(op.first, op.count)
                                    THEN op.buf[b - op.first + 1] ELSE View[b]
  <2> SUFFICES ASSUME NEW b \in Blocks
               PROVE  View'[b] = IF b \in Range(op.first, op.count)
                                 THEN op.buf[b - op.first + 1] ELSE View[b]
    OBVIOUS
  <2>1. View'[b] = IF Holds(entries, b) THEN View[b] ELSE dev'[b]
    BY <1>3, <1>8, <1>10 DEF View
  <2>2. ~Holds(entries, b) => View[b] = dev[b] BY ViewFree DEF View
  <2> QED BY <2>1, <2>2, <1>1, <1>6
<1>12. /\ op' \in OpType /\ op'.kind = "write" /\ op'.phase = "next" /\ op'.done = n
       /\ op'.first = op.first /\ op'.count = n /\ op'.buf = op.buf
  BY <1>1, <1>2, <1>3 DEF OpType
<1>13. OpOK(op', entries, d2)
  <2>1. Within(op') BY <1>1, <1>2, <1>12 DEF Within
  <2>2. WriteOK(op', entries) BY <1>1, <1>12 DEF WriteOK
  <2> QED BY <2>1, <2>2, <1>12 DEF OpOK
<1>14. ASSUME NEW i \in 1 .. op.count PROVE op.buf[i] = View'[op.first + i - 1]
  <2>1. /\ op.first + i - 1 \in Range(op.first, op.count) /\ op.first + i - 1 \in Blocks
        /\ (op.first + i - 1) - op.first + 1 = i
    BY <1>2 DEF Range, Blocks
  <2> QED BY <2>1, <1>11
<1>15. Agrees(op, View)' BY <1>12, <1>14 DEF Agrees
<1>16. EntriesOK(entries') BY <1>3 DEF CacheInv
<1>17. \A b \in Blocks : dev'[b] \in since[b] \cup {View'[b]}
  BY <1>6, <1>11 DEF CacheInv, Recorded
<1>18. /\ since' \in [Blocks -> SUBSET Values]
       /\ (Recorded(View, dev, medium, since))' /\ StoreStep
  BY <1>3, <1>7, <1>16, <1>17, RememberedStep
<1>19. CacheInv'
  <2>1. Matches(entries, dirty, dev)' BY <1>3, <1>8, <1>10
  <2>2. OpOK(op, entries, dev)' BY <1>3, <1>8, <1>13
  <2>3. /\ order' \in Seq(Slots) /\ dirty' \in SUBSET Blocks /\ written' \in BOOLEAN
        /\ medium' \in [Blocks -> Values]
    BY <1>3 DEF CacheInv
  <2> QED BY <2>1, <2>2, <2>3, <1>7, <1>15, <1>16, <1>18 DEF CacheInv
<1>20. Kept BY <1>1, <1>11 DEF Kept
<1> QED BY <1>18, <1>19, <1>20

-----------------------------------------------------------------------------
(* flush. *)

\* A run starts with the first dirty block and has only dirty ones.
LEMMA RunIsDirty ==
  ASSUME CacheInv, dirty # {}
  PROVE  /\ Run.first \in Blocks
         /\ Len(Run.data) \in 1 .. MaxRun
         /\ \A b \in Range(Run.first, Len(Run.data)) :
               b \in dirty /\ Run.data[b - Run.first + 1] = View[b]
<1> DEFINE st == FirstOf(dirty)
           S == {n \in 1 .. MaxRun : n = MaxRun \/ st + n \notin dirty}
<1>1. dirty \in SUBSET Blocks BY DEF CacheInv
<1>2. st \in dirty /\ st \in Blocks BY <1>1, FirstIsLeast
<1>3. st \in Nat BY <1>2 DEF Blocks
<1> HIDE DEF st
<1>4. S \in SUBSET Nat /\ MaxRun \in S OBVIOUS
<1>5. PICK n \in S : \A m \in S : n <= m BY <1>4, LeastNatural
<1>6. /\ n \in 1 .. MaxRun /\ \A i \in 0 .. n - 1 : st + i \in dirty
      /\ n < MaxRun => st + n \notin dirty
  <2>1. ASSUME NEW i \in 1 .. n - 1 PROVE st + i \in dirty
    <3>1. i \notin S BY <1>5
    <3> QED BY <3>1, <1>5
  <2>2. st + 0 \in dirty BY <1>2, <1>3
  <2> QED BY <2>1, <2>2, <1>5
<1> DEFINE k == RunLength(st)
<1>7. k \in 1 .. MaxRun /\ \A i \in 0 .. k - 1 : st + i \in dirty
  BY <1>6 DEF RunLength
<1>8. /\ Run.first = st
      /\ Run.data = [i \in 1 .. k |-> View[st + i - 1]]
  BY DEF Run, st
<1> HIDE DEF k
<1>9. k \in Nat /\ Len(Run.data) = k BY <1>7, <1>8
<1>10. ASSUME NEW b \in Range(st, k) PROVE b \in dirty /\ Run.data[b - st + 1] = View[b]
  <2>1. b \in Nat /\ st <= b /\ b < st + k BY DEF Range, Blocks
  <2>2. b - st \in 0 .. k - 1 /\ st + (b - st) = b /\ b - st + 1 \in 1 .. k /\ st + (b - st + 1) - 1 = b
    BY <2>1, <1>3, <1>9
  <2> QED BY <2>2, <1>7, <1>8
<1> QED BY <1>2, <1>7, <1>8, <1>9, <1>10

LEMMA WriteRunStep ==
  ASSUME CacheInv, WriteRun
  PROVE  CacheInv' /\ Kept /\ StoreStep
<1> DEFINE first == Run.first
           data == Run.data
           R == Range(first, Len(data))
<1>1. \A b \in R : b \in dirty /\ data[b - first + 1] = View[b]
  BY RunIsDirty DEF WriteRun
<1>2. /\ dev' = Overwritten(dev, first, data) /\ dirty' = dirty \ R
      /\ UNCHANGED <<entries, order, written, op, medium, since>>
  BY DEF WriteRun
<1> HIDE DEF first, data
<1>3. dev' = [b \in Blocks |-> IF b \in R THEN data[b - first + 1] ELSE dev[b]]
  BY <1>2 DEF Overwritten
<1> HIDE DEF R
<1>4. \A b \in Blocks : dev'[b] = IF b \in R THEN View[b] ELSE dev[b]
  BY <1>1, <1>3
<1>5. \A b \in Blocks : dev'[b] \in Values BY <1>4, Viewed DEF CacheInv
<1>6. dev' \in [Blocks -> Values]
  <2>1. dev' = [b \in Blocks |-> dev'[b]] BY <1>3
  <2> QED BY <2>1, <1>5
<1>7. \A b \in R : b \in Blocks /\ Holds(entries, b) BY <1>1, DirtyShows
<1>8. CanStore(entries, dirty, dirty', dev, dev')
  <2>1. \A b \in dirty \ dirty' : b \in R /\ b \in Blocks BY <1>2, <1>7
  <2> QED BY <2>1, <1>2, <1>4, <1>7 DEF CanStore, CacheInv, View
<1>9. OpOK(op, entries, dev')
  <2>1. PICK d2 : d2 = dev' OBVIOUS
  <2>2. \A c \in Blocks : d2[c] = dev[c] \/ Holds(entries, c) BY <2>1, <1>4, <1>7
  <2> QED BY <2>1, <2>2, PhaseUnderStore
<1> QED BY <1>2, <1>6, <1>8, <1>9, StoringStep

LEMMA DeviceFlushStep ==
  ASSUME CacheInv, DeviceFlush
  PROVE  CacheInv' /\ Kept /\ StoreStep
<1>1. /\ dirty = {} /\ medium' = dev /\ since' = [b \in Blocks |-> {View[b]}] /\ op' = NoOp
      /\ entries' = entries /\ order' = order /\ dirty' = dirty /\ written' = written /\ dev' = dev
  BY DEF DeviceFlush, cache
<1>2. \A b \in Blocks : View[b] = dev[b]
  <2>1. EntriesOK(entries) /\ Matches(entries, dirty, dev) BY DEF CacheInv
  <2> QED BY <2>1, <1>1, ViewClean DEF View
<1>3. View \in [Blocks -> Values] /\ dev \in [Blocks -> Values] BY Viewed DEF CacheInv
<1>4. View = dev BY <1>2, <1>3
<1>5. View' = View BY <1>1 DEF View
<1>6. Recorded(View, dev, medium, since)' BY <1>1, <1>2, <1>5 DEF Recorded
<1>7. since' \in [Blocks -> SUBSET Values] BY <1>1, <1>3
<1>8. (OpOK(op, entries, dev) /\ Agrees(op, View))' BY <1>1, NoRequest
<1>9. CacheInv' BY <1>1, <1>3, <1>6, <1>7, <1>8 DEF CacheInv
<1>10. Store!Flush BY <1>1, <1>4, <1>5 DEF Store!Flush
<1>11. Kept BY <1>5 DEF Kept
<1> QED BY <1>9, <1>10, <1>11 DEF StoreStep, Store!Next

-----------------------------------------------------------------------------
(* Failures, and the cache given up. *)

\* A call in progress writes what dirty blocks show, or it is the direct
\* write of blocks that are not cached.
LEMMA FlightKinds ==
  ASSUME CacheInv
  PROVE  \/ \A w \in InFlight :
              w.index \in dirty /\ w.index \in Blocks /\ Holds(entries, w.index) /\ w.data = View[w.index]
         \/ /\ op.kind = "write" /\ op.phase = "direct"
            /\ InFlight = {[index |-> op.first + i - 1, data |-> op.buf[i]] : i \in 1 .. op.count}
<1> DEFINE Dirty(w) ==
      w.index \in dirty /\ w.index \in Blocks /\ Holds(entries, w.index) /\ w.data = View[w.index]
<1>1. CASE Evicting
  <2>1. InFlight = {entries[Victim(At)]} BY <1>1 DEF InFlight
  <2>2. Dirty(entries[Victim(At)]) BY <1>1, VictimShows
  <2> QED BY <2>1, <2>2
<1>2. CASE ~Evicting /\ WritingBack
  <2> DEFINE b == FirstOf(Covered)
  <2>1. InFlight = {entries[SlotOf(b)]} BY <1>2 DEF InFlight
  <2>2. Covered \in SUBSET Blocks /\ Covered # {} /\ Covered \subseteq dirty
    BY <1>2 DEF WritingBack, Covered, CacheInv
  <2>3. b \in dirty BY <2>2, FirstIsLeast
  <2> HIDE DEF b
  <2>4. Dirty(entries[SlotOf(b)]) BY <2>3, DirtyShows
  <2> QED BY <2>1, <2>4
<1>3. CASE ~Evicting /\ ~WritingBack /\ op.kind = "flush" /\ dirty # {}
  <2> DEFINE R == Range(Run.first, Len(Run.data))
  <2>1. InFlight = {entries[SlotOf(b)] : b \in R} BY <1>3 DEF InFlight
  <2>2. \A b \in R : b \in dirty BY <1>3, RunIsDirty
  <2> HIDE DEF R
  <2>3. \A b \in R : Dirty(entries[SlotOf(b)]) BY <2>2, DirtyShows
  <2> QED BY <2>1, <2>3
<1>4. CASE /\ ~Evicting /\ ~WritingBack /\ ~(op.kind = "flush" /\ dirty # {})
           /\ op.phase = "direct" /\ op.kind = "write"
  BY <1>4 DEF InFlight
<1>5. CASE /\ ~Evicting /\ ~WritingBack /\ ~(op.kind = "flush" /\ dirty # {})
           /\ ~(op.phase = "direct" /\ op.kind = "write")
  <2>1. InFlight = {} BY <1>5 DEF InFlight
  <2> QED BY <2>1
<1> QED BY <1>1, <1>2, <1>3, <1>4, <1>5

\* The invariant after a call was cut whose writes d2 are known.
LEMMA CutWith ==
  ASSUME CacheInv, op' = NoOp, entries' = entries, Remember,
         order' = order, dirty' = dirty, written' = written, medium' = medium,
         dev' \in [Blocks -> Values], Matches(entries, dirty, dev'),
         \A b \in Blocks :
            \/ View'[b] = View[b] /\ dev'[b] \in {dev[b], View[b]}
            \/ /\ op.kind = "write" /\ b \in Range(op.first, op.count)
               /\ View'[b] = op.buf[b - op.first + 1] /\ dev'[b] = View'[b]
  PROVE  CacheInv' /\ Kept /\ StoreStep
<1>1. EntriesOK(entries') BY DEF CacheInv
<1>2. \A b \in Blocks : dev'[b] \in since[b] \cup {View'[b]} BY DEF CacheInv, Recorded
<1>3. /\ since' \in [Blocks -> SUBSET Values]
      /\ (Recorded(View, dev, medium, since))' /\ StoreStep
  BY <1>1, <1>2, RememberedStep
<1>4. (OpOK(op, entries, dev) /\ Agrees(op, View))' BY NoRequest
<1>5. Matches(entries, dirty, dev)' OBVIOUS
<1>6. CacheInv' BY <1>1, <1>3, <1>4, <1>5 DEF CacheInv
<1>7. Kept BY DEF Kept
<1> QED BY <1>3, <1>6, <1>7

LEMMA CutStep ==
  ASSUME CacheInv, Cut
  PROVE  CacheInv' /\ Kept /\ StoreStep
<1>1. PICK W \in SUBSET InFlight :
        dev' = [b \in Blocks |-> IF \E w \in W : w.index = b
                                 THEN (CHOOSE w \in W : w.index = b).data ELSE dev[b]]
  BY DEF Cut
<1>2. /\ op' = NoOp /\ entries' = entries /\ Remember
      /\ order' = order /\ dirty' = dirty /\ written' = written /\ medium' = medium
  BY DEF Cut
<1>3. \A b \in Blocks : \/ dev'[b] = dev[b]
                        \/ \E w \in W : w.index = b /\ dev'[b] = w.data
  <2> SUFFICES ASSUME NEW b \in Blocks, \E w \in W : w.index = b
               PROVE  \E w \in W : w.index = b /\ dev'[b] = w.data
    BY <1>1
  <2> DEFINE w == CHOOSE w \in W : w.index = b
  <2>1. w \in W /\ w.index = b OBVIOUS
  <2>2. dev'[b] = w.data BY <1>1
  <2> QED BY <2>1, <2>2
<1>4. dev' = [b \in Blocks |-> dev'[b]] BY <1>1
<1>5. dev \in [Blocks -> Values] /\ View \in [Blocks -> Values] BY Viewed DEF CacheInv
<1>6. PICK d2 : d2 = dev' OBVIOUS
<1>7. CASE \A w \in InFlight :
             w.index \in dirty /\ w.index \in Blocks /\ Holds(entries, w.index) /\ w.data = View[w.index]
  <2>1. \A b \in Blocks : d2[b] = dev[b] \/ (Holds(entries, b) /\ d2[b] = View[b])
    BY <1>3, <1>6, <1>7
  <2>2. CanStore(entries, dirty, dirty, dev, d2) BY <2>1 DEF CanStore, CacheInv, View
  <2>3. ViewOf(entries, d2) = ViewOf(entries, dev) /\ Matches(entries, dirty, d2)
    BY <2>2, StoreKeeps
  <2>4. View' = View BY <2>3, <1>2, <1>6 DEF View
  <2>5. \A b \in Blocks : dev'[b] \in Values BY <2>1, <1>5, <1>6
  <2>6. dev' \in [Blocks -> Values] BY <2>5, <1>4
  <2>7. Matches(entries, dirty, dev') BY <2>3, <1>6
  <2>8. \A b \in Blocks : View'[b] = View[b] /\ dev'[b] \in {dev[b], View[b]}
    BY <2>1, <2>4, <1>6
  <2> QED BY <2>6, <2>7, <2>8, <1>2, CutWith
<1>8. CASE /\ op.kind = "write" /\ op.phase = "direct"
           /\ InFlight = {[index |-> op.first + i - 1, data |-> op.buf[i]] : i \in 1 .. op.count}
  <2>1. /\ Within(op) /\ op \in OpType /\ Len(op.buf) = op.count
        /\ \A b \in Range(op.first, op.count) : ~Holds(entries, b)
    BY <1>8, PhaseKinds DEF WriteOK
  <2>2. op.buf \in Seq(Values) /\ op.first \in Nat /\ op.count \in Nat BY <2>1 DEF OpType
  <2>3. ASSUME NEW b \in Blocks, dev'[b] # dev[b]
        PROVE  /\ b \in Range(op.first, op.count) /\ dev'[b] = op.buf[b - op.first + 1]
               /\ dev'[b] \in Values
    <3>1. PICK w \in W : w.index = b /\ dev'[b] = w.data BY <1>3, <2>3
    <3>2. PICK i \in 1 .. op.count : w = [index |-> op.first + i - 1, data |-> op.buf[i]]
      BY <1>8
    <3>3. b = op.first + i - 1 /\ dev'[b] = op.buf[i] BY <3>1, <3>2
    <3>4. b - op.first + 1 = i /\ op.first <= b /\ b < op.first + op.count BY <2>2, <3>3
    <3>5. op.buf[i] \in Values BY <2>1, <2>2
    <3> QED BY <3>3, <3>4, <3>5 DEF Range
  <2>4. \A b \in Blocks : dev'[b] \in Values BY <2>3, <1>5
  <2>5. dev' \in [Blocks -> Values] BY <2>4, <1>4
  <2>6. CanChange(entries, dirty, dev, d2)
    BY <2>1, <2>3, <1>6 DEF CanChange, CacheInv
  <2>7. /\ Matches(entries, dirty, d2)
        /\ \A b \in Blocks : ViewOf(entries, d2)[b] =
              IF Holds(entries, b) THEN ViewOf(entries, dev)[b] ELSE d2[b]
    BY <2>6, DeviceKeeps
  <2>8. Matches(entries, dirty, dev') BY <2>7, <1>6
  <2>9. ASSUME NEW b \in Blocks
        PROVE  \/ View'[b] = View[b] /\ dev'[b] \in {dev[b], View[b]}
               \/ /\ op.kind = "write" /\ b \in Range(op.first, op.count)
                  /\ View'[b] = op.buf[b - op.first + 1] /\ dev'[b] = View'[b]
    <3>1. View'[b] = IF Holds(entries, b) THEN View[b] ELSE dev'[b]
      BY <2>7, <1>2, <1>6 DEF View
    <3>2. ~Holds(entries, b) => View[b] = dev[b] BY ViewFree DEF View
    <3>3. CASE dev'[b] = dev[b] BY <3>1, <3>2, <3>3
    <3>4. CASE dev'[b] # dev[b] BY <3>1, <3>4, <2>1, <2>3, <1>8
    <3> QED BY <3>3, <3>4
  <2> QED BY <2>5, <2>8, <2>9, <1>2, CutWith
<1> QED BY <1>7, <1>8, FlightKinds

LEMMA GetMutStep ==
  ASSUME CacheInv, NEW b \in Blocks, NEW v \in Contents[b], GetMut(b, v)
  PROVE  CacheInv' /\ Kept /\ StoreStep
<1> DEFINE S == {s \in Slots : entries[s] # Empty /\ entries[s].index \notin dirty}
           e2 == Emptied(entries, S)
<1>1. /\ op = NoOp /\ op' = NoOp /\ entries' = e2 /\ Demote(S)
      /\ dev' = [dev EXCEPT ![b] = v] /\ since' = [since EXCEPT ![b] = @ \cup {v}]
      /\ dirty' = dirty /\ written' = written /\ medium' = medium
  BY DEF GetMut, Emptied
<1>2. v \in Values BY DEF Values
<1>3. CanDrop(entries, dirty, dev, S) BY DEF CanDrop, CacheInv
<1>4. \A c \in Blocks : Holds(e2, c) => c \in dirty
  <2> SUFFICES ASSUME NEW c \in Blocks, NEW s \in Slots, e2[s].index = c
               PROVE  c \in dirty
    BY DEF Holds
  <2>1. s \notin S BY DEF Emptied, Empty, Blocks
  <2>2. e2[s] = entries[s] BY <2>1 DEF Emptied
  <2>3. entries[s] # Empty BY <2>2 DEF Empty, Blocks
  <2> QED BY <2>1, <2>2, <2>3
<1> HIDE DEF S
<1>5. EntriesOK(e2) /\ ViewOf(e2, dev) = ViewOf(entries, dev) /\ Matches(e2, dirty, dev)
  BY <1>3, DropKeeps
<1> HIDE DEF e2
<1>6. dev \in [Blocks -> Values] /\ View \in [Blocks -> Values] /\ dirty \in SUBSET Blocks
  BY Viewed DEF CacheInv
<1>7. PICK d2 : d2 = dev' OBVIOUS
<1>8. \A c \in Blocks : d2[c] = IF c = b THEN v ELSE dev[c] BY <1>1, <1>6, <1>7
<1>9. CanChange(e2, dirty, dev, d2) BY <1>4, <1>5, <1>6, <1>8 DEF CanChange
<1>10. /\ Matches(e2, dirty, d2)
       /\ \A c \in Blocks : ViewOf(e2, d2)[c] = IF Holds(e2, c) THEN ViewOf(e2, dev)[c] ELSE d2[c]
  BY <1>9, DeviceKeeps
<1>11. ASSUME NEW c \in Blocks
       PROVE  /\ View'[c] = IF Holds(e2, c) THEN View[c] ELSE dev'[c]
              /\ c # b => View'[c] = View[c]
              /\ View'[c] # View[c] => c = b /\ c \notin dirty /\ View'[c] = dev'[c] /\ View'[c] = v
  <2>1. View'[c] = IF Holds(e2, c) THEN View[c] ELSE dev'[c]
    BY <1>1, <1>5, <1>7, <1>10 DEF View
  <2>2. ~Holds(e2, c) => View[c] = dev[c] BY <1>5, ViewFree DEF View
  <2>3. c \in dirty => Holds(e2, c) BY <1>5 DEF Matches
  <2> QED BY <2>1, <2>2, <2>3, <1>7, <1>8
<1>12. Kept BY <1>1, <1>11 DEF Kept
<1>13. since \in [Blocks -> SUBSET Values] /\ Recorded(View, dev, medium, since) BY DEF CacheInv
<1>14. \A c \in Blocks : since'[c] = IF c = b THEN since[c] \cup {v} ELSE since[c] BY <1>1, <1>13
<1>15. since' \in [Blocks -> SUBSET Values] BY <1>1, <1>2, <1>13
<1>16. Recorded(View, dev, medium, since)'
  <2> SUFFICES ASSUME NEW c \in Blocks
               PROVE  View'[c] \in since'[c] /\ dev'[c] \in since'[c] /\ medium'[c] \in since'[c]
    BY DEF Recorded
  <2>1. View[c] \in since[c] /\ dev[c] \in since[c] /\ medium[c] \in since[c] BY <1>13 DEF Recorded
  <2>2. since[c] \subseteq since'[c] BY <1>14
  <2>3. dev'[c] \in since'[c] BY <2>1, <2>2, <1>7, <1>8, <1>14
  <2>4. View'[c] \in since'[c] BY <2>1, <2>2, <2>3, <1>11
  <2> QED BY <2>1, <2>2, <2>3, <2>4, <1>1
<1>17. dev' \in [Blocks -> Values] BY <1>1, <1>2, <1>6
<1>18. order' \in Seq(Slots) BY <1>1, DemoteType DEF CacheInv
<1>19. CacheInv'
  <2>1. (OpOK(op, entries, dev) /\ Agrees(op, View))' BY <1>1, NoRequest
  <2>2. EntriesOK(entries') BY <1>1, <1>5
  <2>3. Matches(entries, dirty, dev)' BY <1>1, <1>7, <1>10
  <2>4. dirty' \in SUBSET Blocks /\ written' \in BOOLEAN /\ medium' \in [Blocks -> Values]
    BY <1>1 DEF CacheInv
  <2> QED BY <2>1, <2>2, <2>3, <2>4, <1>15, <1>16, <1>17, <1>18 DEF CacheInv
<1>20. Store!Write
  <2>1. View' \in [Blocks -> Values]
    <3>1. EntriesOK(entries') BY <1>1, <1>5
    <3>2. ViewOf(entries', dev') \in [Blocks -> Values] BY <3>1, <1>17, ViewType
    <3> QED BY <3>2 DEF View
  <2>2. ASSUME NEW c \in Blocks
        PROVE  \E x \in Values : since'[c] = since[c] \cup {x} /\ View'[c] \in {View[c], x}
    <3>1. CASE c = b BY <3>1, <1>2, <1>11, <1>14
    <3>2. CASE c # b
      <4>1. View[c] \in Values /\ View[c] \in since[c] BY <1>6, <1>13 DEF Recorded
      <4>2. since'[c] = since[c] \cup {View[c]} BY <4>1, <3>2, <1>14
      <4> QED BY <3>2, <4>1, <4>2, <1>11
    <3> QED BY <3>1, <3>2
  <2> QED BY <2>1, <2>2, <1>1, <1>15 DEF Store!Write
<1> QED BY <1>12, <1>19, <1>20 DEF StoreStep, Store!Next

\* An empty cache shows the device.
LEMMA EmptyShows ==
  ASSUME NEW e, NEW d \in [Blocks -> Values], e = [s \in Slots |-> Empty]
  PROVE  EntriesOK(e) /\ ViewOf(e, d) = d /\ Matches(e, {}, d)
<1>1. EntriesOK(e) BY DEF EntriesOK, OneSlot, Entry, Empty, Blocks
<1>2. \A b \in Blocks : ~Holds(e, b) BY DEF Holds, Empty, Blocks
<1>3. \A b \in Blocks : ViewOf(e, d)[b] = d[b] BY <1>2, ViewFree
<1>4. ViewOf(e, d) \in [Blocks -> Values] BY <1>1, ViewType
<1> QED BY <1>1, <1>3, <1>4 DEF Matches

\* A cache that starts again over a device with remembered values.
LEMMA NewCacheStep ==
  ASSUME CacheInv, NewCache, dev' \in {dev, medium}, medium' = medium, since' = since
  PROVE  CacheInv' /\ Kept /\ StoreStep
<1>1. dev' \in [Blocks -> Values] /\ \A b \in Blocks : dev'[b] \in since[b]
  BY DEF CacheInv, Recorded
<1>2. /\ entries' = [s \in Slots |-> Empty] /\ order' = <<>> /\ dirty' = {} /\ written' = FALSE
      /\ op' = NoOp
  BY DEF NewCache
<1>3. PICK e2, d2 : e2 = entries' /\ d2 = dev' OBVIOUS
<1>4. EntriesOK(e2) /\ ViewOf(e2, d2) = d2 /\ Matches(e2, {}, d2) BY <1>1, <1>2, <1>3, EmptyShows
<1>5. View' = dev' BY <1>3, <1>4 DEF View
<1>6. Recorded(View, dev, medium, since)' BY <1>1, <1>5 DEF CacheInv, Recorded
<1>7. (OpOK(op, entries, dev) /\ Agrees(op, View))' BY <1>2, NoRequest
<1>8. EntriesOK(entries') /\ Matches(entries, dirty, dev)' BY <1>2, <1>3, <1>4
<1>9. CacheInv'
  <2>1. order' \in Seq(Slots) BY <1>2
  <2>2. dirty' \in SUBSET Blocks BY <1>2
  <2>3. written' \in BOOLEAN BY <1>2, Zenon
  <2>4. medium' \in [Blocks -> Values] /\ since' \in [Blocks -> SUBSET Values] BY DEF CacheInv
  <2> QED BY <2>1, <2>2, <2>3, <2>4, <1>1, <1>6, <1>7, <1>8 DEF CacheInv
<1>10. Kept BY <1>2, <1>5 DEF Kept
<1>11. Store!Lose BY <1>1, <1>5 DEF Store!Lose
<1> QED BY <1>9, <1>10, <1>11 DEF StoreStep, Store!Next

LEMMA WritebackStep ==
  ASSUME CacheInv, NEW b \in Blocks, Writeback(b)
  PROVE  CacheInv' /\ Kept /\ StoreStep
<1>1. /\ medium' = [medium EXCEPT ![b] = dev[b]]
      /\ entries' = entries /\ order' = order /\ dirty' = dirty /\ written' = written
      /\ op' = op /\ dev' = dev /\ since' = since
  BY DEF Writeback, cache
<1>2. medium \in [Blocks -> Values] /\ dev \in [Blocks -> Values] BY DEF CacheInv
<1>3. medium' \in [Blocks -> Values] BY <1>1, <1>2
<1>4. \A c \in Blocks : medium'[c] \in since[c] BY <1>1, <1>2 DEF CacheInv, Recorded
<1>5. View' = View BY <1>1 DEF View
<1>6. Recorded(View, dev, medium, since)' BY <1>1, <1>4, <1>5 DEF CacheInv, Recorded
<1>7. CacheInv' BY <1>1, <1>3, <1>5, <1>6 DEF CacheInv
<1>8. Kept BY <1>5 DEF Kept
<1>9. Store!Settle BY <1>1, <1>3, <1>4, <1>5 DEF Store!Settle
<1> QED BY <1>7, <1>8, <1>9 DEF StoreStep, Store!Next

-----------------------------------------------------------------------------
(* The theorems. *)

LEMMA CacheInit == Init => CacheInv /\ Store!Init
<1> SUFFICES ASSUME Init PROVE CacheInv /\ Store!Init OBVIOUS
<1>1. /\ entries = [s \in Slots |-> Empty] /\ order = <<>> /\ dirty = {} /\ written = FALSE
      /\ op = NoOp /\ dev \in [Blocks -> Values]
      /\ medium = dev /\ since = [b \in Blocks |-> {dev[b]}]
  BY DEF Init
<1>2. EntriesOK(entries) /\ View = dev /\ Matches(entries, dirty, dev)
  BY <1>1, EmptyShows DEF View
<1>3. OpOK(op, entries, dev) /\ Agrees(op, View) BY <1>1, NoRequest
<1>4. Recorded(View, dev, medium, since) BY <1>1, <1>2 DEF Recorded
<1>5. since \in [Blocks -> SUBSET Values] BY <1>1
<1>6. CacheInv
  <2>1. order \in Seq(Slots) BY <1>1
  <2>2. dirty \in SUBSET Blocks BY <1>1
  <2>3. written \in BOOLEAN BY <1>1, Zenon
  <2> QED BY <2>1, <2>2, <2>3, <1>1, <1>2, <1>3, <1>4, <1>5 DEF CacheInv
<1>7. Store!Init BY <1>1, <1>2 DEF Store!Init
<1> QED BY <1>6, <1>7

LEMMA CacheNext == CacheInv /\ [Next]_vars => CacheInv' /\ Kept /\ StoreStep
<1> SUFFICES ASSUME CacheInv, [Next]_vars PROVE CacheInv' /\ Kept /\ StoreStep OBVIOUS
<1>1. CASE UNCHANGED vars
  <2>1. UNCHANGED <<cache, dev, medium, since>> /\ op' = op BY <1>1 DEF vars
  <2>2. OpOK(op', entries, dev) /\ Agrees(op', View) BY <2>1 DEF CacheInv
  <2> QED BY <2>1, <2>2, RequestStep
<1>2. ASSUME NEW r \in Requests, StartRead(r[1], r[2]) PROVE CacheInv' /\ Kept /\ StoreStep
  BY <1>2, StartReadStep
<1>3. ASSUME NEW r \in Requests, NEW buf \in Buffers(r[1], r[2]), StartWrite(r[1], buf)
      PROVE  CacheInv' /\ Kept /\ StoreStep
  BY <1>3, StartWriteStep
<1>4. CASE StartFlush BY <1>4, StartFlushStep
<1>5. CASE ReadHit BY <1>5, ReadHitStep
<1>6. CASE Load BY <1>6, LoadStep
<1>7. CASE Fill BY <1>7, FillStep
<1>8. CASE Put BY <1>8, PutStep
<1>9. CASE Evict BY <1>9, EvictStep
<1>10. CASE EvictRefused BY <1>10, EvictRefusedStep
<1>11. CASE DirectRead BY <1>11, DirectReadStep
<1>12. CASE WriteBack BY <1>12, WriteBackStep
<1>13. CASE Invalidate BY <1>13, InvalidateStep
<1>14. CASE DirectWrite BY <1>14, DirectWriteStep
<1>15. CASE WriteRun BY <1>15, WriteRunStep
<1>16. CASE DeviceFlush BY <1>16, DeviceFlushStep
<1>17. CASE Return BY <1>17, ReturnStep
<1>18. CASE Cut BY <1>18, CutStep
<1>19. ASSUME NEW b \in Blocks, Writeback(b) PROVE CacheInv' /\ Kept /\ StoreStep
  BY <1>19, WritebackStep
<1>20. ASSUME NEW b \in Blocks, NEW v \in Contents[b], GetMut(b, v)
       PROVE  CacheInv' /\ Kept /\ StoreStep
  BY <1>20, GetMutStep
<1>21. CASE Discard
  <2>1. NewCache /\ dev' \in {dev, medium} /\ medium' = medium /\ since' = since BY <1>21 DEF Discard
  <2> QED BY <2>1, NewCacheStep
<1>22. CASE PowerLoss
  <2>1. NewCache /\ dev' \in {dev, medium} /\ medium' = medium /\ since' = since BY <1>22 DEF PowerLoss
  <2> QED BY <2>1, NewCacheStep
<1> QED BY <1>1, <1>2, <1>3, <1>4, <1>5, <1>6, <1>7, <1>8, <1>9, <1>10, <1>11, <1>12, <1>13,
           <1>14, <1>15, <1>16, <1>17, <1>18, <1>19, <1>20, <1>21, <1>22 DEF Next

LEMMA CacheInvariant == Spec => []CacheInv
  BY CacheInit, CacheNext, PTL DEF Spec

\* What the invariant says in the words of the properties.
LEMMA CacheInvMeans == CacheInv => TypeOK /\ CleanMatchesDevice /\ RequestsAgree
<1> SUFFICES ASSUME CacheInv PROVE TypeOK /\ CleanMatchesDevice /\ RequestsAgree OBVIOUS
<1>1. op \in OpType BY PhaseKinds
<1>2. TypeOK BY <1>1 DEF CacheInv, EntriesOK, Entry, OpType, TypeOK
<1>3. CleanMatchesDevice BY DEF CacheInv, Matches, CleanMatchesDevice, Cached
<1>4. RequestsAgree BY DEF CacheInv, Agrees, RequestsAgree
<1> QED BY <1>2, <1>3, <1>4

\* The types, and that a cached block without unflushed writes equals the
\* device's, whichever of the writes that made it clean were cut
\* (CacheState::dirty, clean_range).
THEOREM CleanIsOnDevice == Spec => [](TypeOK /\ CleanMatchesDevice)
  BY CacheInvariant, CacheInvMeans, PTL

\* What a read has returned and a write has stored is what the cache shows,
\* across its evictions and refills (poll_read_blocks, poll_write_blocks).
THEOREM RequestsSeeTheCache == Spec => []RequestsAgree
  BY CacheInvariant, CacheInvMeans, PTL

\* No eviction, failed call or dropped future changes what the cache shows of
\* a block but to the value that a write in progress writes (Cache::slot,
\* poll_flush, cancel).
THEOREM WritesAreKept == Spec => NoLostWrites
<1>1. CacheInv /\ [Next]_vars => [Kept]_vars BY CacheNext
<1>2. Spec => [][Kept]_vars BY <1>1, CacheInvariant, PTL DEF Spec
<1> QED BY <1>2 DEF NoLostWrites, Kept

\* The cache over a device with a write cache is such a device again: a flush
\* that returned Ok reaches the medium, and a power loss later leaves each
\* block with a value it had since (poll_flush, cancel, into_inner).
THEOREM ImplementsBlockStore == Spec => StorePromise
<1>1. CacheInv /\ [Next]_vars => [Store!Next]_(Store!vars) BY CacheNext DEF StoreStep
<1>2. Init => Store!Init BY CacheInit
<1> QED BY <1>1, <1>2, CacheInvariant, PTL DEF Spec, StorePromise, Store!Spec
=============================================================================
