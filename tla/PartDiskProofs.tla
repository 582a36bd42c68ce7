---------------------------- MODULE PartDiskProofs ----------------------------
(***************************************************************************)
(* What PartDisk promises, for every size, alignment and limit of a table. *)
(* The parts of the proof are: what a device holds that only this library  *)
(* wrote (DiskOK) and what a table in memory is (TableOK); that reading    *)
(* such a device gives such a table, and a grown or cut device a shorter   *)
(* or a broken one; that each edit keeps a table legal; that a table which *)
(* was written is read back as it is; what each cut of a safe write shows. *)
(* The invariant IInv says of a write in progress that the first k blocks  *)
(* of the table are over some earlier device, which is what the properties *)
(* need and none of them says.                                             *)
(***************************************************************************)
EXTENDS PartDisk, FiniteSetTheorems, WellFoundedInduction, TLAPS

\* The naturals are well founded.
LEMMA LessWellFounded == IsWellFoundedOn({r \in Nat \X Nat : r[1] < r[2]}, Nat)
  BY NatLessThanWellFounded DEF OpToRel

\* A set of naturals has a least element: induction, for what follows, over
\* a set of counterexamples.
LEMMA LeastNatural ==
  ASSUME NEW S \in SUBSET Nat, S # {}
  PROVE  \E n \in S : \A m \in S : n <= m
<1> DEFINE Less == {r \in Nat \X Nat : r[1] < r[2]}
<1>1. PICK x \in S : \A y \in S : ~(<<y, x>> \in Less)
  BY LessWellFounded, WFMin, Zenon
<1>2. ASSUME NEW y \in S PROVE x <= y
  <2>1. <<y, x>> \notin Less BY <1>1
  <2>2. <<y, x>> \in Nat \X Nat OBVIOUS
  <2>3. ~(<<y, x>>[1] < <<y, x>>[2]) BY <2>1, <2>2, Zenon
  <2> QED BY <2>3
<1> QED BY <1>2

-----------------------------------------------------------------------------
(* What tables and blocks are. *)

\* The records of block 0 and the chain, the logical partitions, and extents.
EntryKinds == {"empty", "linux", "extended", "protective"}
EntryRec == [kind : EntryKinds, start : Int, len : Int]
LogicalRec == [ebr : Int, start : Int, len : Int]
Pairs == Int \X Int

\* The entries of a GPT lie in its usable blocks, and apart from each other.
Spread(es, first, last) ==
    /\ \A i \in DOMAIN es : es[i] # Unused =>
         es[i][2] > 0 /\ es[i][1] >= first /\ End(es[i]) - 1 <= last
    /\ \A i, k \in DOMAIN es : i # k /\ es[i] # Unused /\ es[k] # Unused =>
         End(es[i]) <= es[k][1] \/ End(es[k]) <= es[i][1]

\* The fields of a GPT, and a GPT that Gpt::check accepts.
GptRec ==
    [blocks : Int, first : Int, last : Int, backup : Int, primaryArray : Int,
     backupArray : Int, entries : Seq(Pairs), damaged : {"none", "primary", "backup"}]

GptOK(g) == g \in GptRec /\ g.first <= g.last + 1 /\ Spread(g.entries, g.first, g.last)

\* A header of a GPT, and one that read accepts.
HeaderRec ==
    [is : {"header"}, my : Nat, alternate : Nat, first : Int, last : Int, array : Nat,
     count : Nat, crc : Seq(Pairs)]

GoodHeader(h) == h \in HeaderRec /\ h.count = Len(h.crc) /\ Spread(h.crc, h.first, h.last)

\* The entries of block 0: of an MBR, or of a GPT or hybrid.
MbrEntries(es) ==
    /\ es \in [1 .. Slots -> EntryRec]
    /\ \A i \in 1 .. Slots : es[i].kind # "protective"
    /\ \A i, k \in 1 .. Slots : es[i].kind = "extended" /\ es[k].kind = "extended" => i = k
    /\ \A i \in 1 .. Slots : es[i].kind = "extended" => es[i].start > 0
\* The entries beside a GPT: one of them protective, none extended.
Protected(es) ==
    /\ es \in [1 .. Slots -> EntryRec]
    /\ \A i \in 1 .. Slots : es[i].kind \in {"empty", "linux", "protective"}
    /\ \E p \in 1 .. Slots : \A i \in 1 .. Slots : es[i].kind = "protective" <=> i = p
\* What block 0 holds: nothing of this library, or either of these records.
Boot(c) == c = Data \/ \E es : c = Record(es) /\ (MbrEntries(es) \/ Protected(es))

\* The other blocks: an extended boot record, or a part of a GPT copy.
EbrEntries(es) ==
    /\ es \in Seq(EntryRec) /\ Len(es) = 2
    /\ es[1].kind \in {"empty", "linux"} /\ es[2].kind \in {"empty", "extended"}
    /\ es[1].kind = "empty" => es[2].kind = "empty"
\* What a block other than 0 holds.
Inner(c) ==
    \/ c = Data
    \/ GoodHeader(c)
    \/ \E x : c = [is |-> "entry", entry |-> x]
    \/ \E es : c = Record(es) /\ EbrEntries(es)

\* The blocks of the largest device, and what only this library wrote to.
Lbas == 0 .. Largest - 1
DiskOK(d) ==
    /\ d = [b \in Lbas |-> d[b]]
    /\ Boot(d[0])
    /\ \A b \in Lbas : b # 0 => Inner(d[b])

\* The logical partitions of an MBR, in number.
Logicals(l) == l \in Seq(LogicalRec) /\ Len(l) <= MaxLogical

\* The records of an MBR can be found from the first to the last.
Linked(l, x) ==
    /\ l # <<>> => l[1].ebr = x.start
    /\ \A i, k \in 1 .. Len(l) : i < k => l[i].ebr < l[k].ebr
    /\ \A k \in 1 .. Len(l) : l[k].ebr >= x.start /\ l[k].ebr < x.start + x.len

\* An MBR that was made or read, also from a chain that a write left cut.
MbrOK(t) ==
    /\ t \in [kind : {"mbr"}, blocks : Int, entries : [1 .. Slots -> EntryRec],
              logical : Seq(LogicalRec)]
    /\ MbrEntries(t.entries) /\ Logicals(t.logical)
    /\ t.logical # <<>> => ExtendedSlots(t.entries) # {}
    /\ ExtendedSlots(t.entries) # {} =>
         /\ Extended(t.entries).len > 0
         /\ Linked(t.logical, Extended(t.entries))

\* Its partitions, and the records, are apart from each other.
LogicalsApart(l, x) ==
    /\ \A k \in 1 .. Len(l) :
         /\ l[k].len > 0 /\ l[k].start > x.start /\ l[k].start + l[k].len <= x.start + x.len
         /\ l[k].ebr < l[k].start
    /\ \A i, k \in 1 .. Len(l) : i < k => l[i].start + l[i].len <= l[k].ebr
\* An MBR whose partitions, logical ones included, are apart.
MbrApart(t) ==
    /\ \A i \in Occupied(t) : t.entries[i].len > 0
    /\ \A i, k \in Occupied(t) : i # k =>
         \/ t.entries[i].start + t.entries[i].len <= t.entries[k].start
         \/ t.entries[k].start + t.entries[k].len <= t.entries[i].start
    /\ ExtendedSlots(t.entries) # {} => LogicalsApart(t.logical, Extended(t.entries))

\* Any table that can be in memory.
TableOK(t) ==
    \/ t = NoTable
    \/ MbrOK(t)
    \/ t = [kind |-> "gpt", gpt |-> t.gpt] /\ GptOK(t.gpt)
    \/ /\ t = [kind |-> "hybrid", gpt |-> t.gpt, entries |-> t.entries]
       /\ GptOK(t.gpt) /\ Protected(t.entries)

-----------------------------------------------------------------------------
(* The walk along the extended boot records. *)

\* The walk's first state, ...
Begin(x) == [at |-> x.start, found |-> <<>>, state |-> "on"]
\* ... and the walk as a function of the number of rounds.
Body(d, n, x, g) ==
    [k \in 0 .. MaxLogical |-> IF k = 0 THEN Begin(x) ELSE Follow(d, n, x, g[k - 1])]
\* The function that WalkEbr defines.
Walk(d, n, x) == CHOOSE g : g = Body(d, n, x, g)

\* WalkEbr in the terms above.
LEMMA WalkEbrIsWalk == \A d, n, x : WalkEbr(d, n, x) = Walk(d, n, x)[MaxLogical]
  BY DEF WalkEbr, Walk, Body, Begin

\* Some function g on 0 .. m has the rounds of the walk.
Begun(d, n, x, m, g) ==
    /\ g = [k \in 0 .. m |-> g[k]]
    /\ g[0] = Begin(x)
    /\ \A k \in 1 .. m : g[k] = Follow(d, n, x, g[k - 1])

\* Such a function exists for every m.
LEMMA RoundsExist ==
  ASSUME NEW d, NEW n, NEW x, NEW m \in Nat
  PROVE  \E g : Begun(d, n, x, m, g)
<1> DEFINE S == {k \in Nat : ~\E g : Begun(d, n, x, k, g)}
<1> SUFFICES ASSUME S # {} PROVE FALSE
  OBVIOUS
<1>1. PICK k \in S : \A j \in S : k <= j
  BY LeastNatural, Zenon
<1>2. k # 0
  <2>1. Begun(d, n, x, 0, [j \in 0 .. 0 |-> Begin(x)])
    BY DEF Begun
  <2> QED BY <2>1
<1>3. k - 1 \in Nat /\ k - 1 \notin S
  BY <1>1, <1>2
<1>4. PICK g : Begun(d, n, x, k - 1, g)
  BY <1>3
<1> DEFINE h == [j \in 0 .. k |-> IF j = k THEN Follow(d, n, x, g[k - 1]) ELSE g[j]]
<1>5. Begun(d, n, x, k, h)
  <2>1. h[0] = Begin(x)
    BY <1>2, <1>4 DEF Begun
  <2>2. ASSUME NEW j \in 1 .. k PROVE h[j] = Follow(d, n, x, h[j - 1])
    <3>1. CASE j = k
      <4>1. h[k] = Follow(d, n, x, g[k - 1]) /\ h[k - 1] = g[k - 1] BY <1>2
      <4> QED BY <4>1, <3>1
    <3>2. CASE j # k
      <4>1. j \in 1 .. k - 1 /\ h[j] = g[j] /\ h[j - 1] = g[j - 1] BY <3>2
      <4>2. g[j] = Follow(d, n, x, g[j - 1]) BY <1>4, <4>1, Zenon DEF Begun
      <4> QED BY <4>1, <4>2
    <3> QED BY <3>1, <3>2
  <2>3. h = [j \in 0 .. k |-> h[j]]
    OBVIOUS
  <2> HIDE DEF h
  <2> QED BY <2>1, <2>2, <2>3, Zenon DEF Begun
<1> QED BY <1>5

\* What the assumption says of single constants.
LEMMA Constants ==
  /\ Sizes \subseteq Nat /\ \A n \in Sizes : n > 0 /\ n <= Largest
  /\ Largest \in Nat /\ Largest \in Sizes
  /\ Slots \in Nat /\ Slots >= 1 /\ MaxLogical \in Nat /\ MaxLogical >= 1
  /\ DefaultEntries \in Nat /\ DefaultEntries >= 1
<1>1. PICK m \in Sizes : \A k \in Sizes : k <= m BY DiskAssumption
<1>2. Largest \in Sizes /\ \A k \in Sizes : k <= Largest
  BY <1>1, Zenon DEF Largest
<1> QED BY <1>2, DiskAssumption

\* So the recursive definition of WalkEbr means what it says.
LEMMA WalkRounds ==
  ASSUME NEW d, NEW n, NEW x
  PROVE  /\ Walk(d, n, x)[0] = Begin(x)
         /\ \A k \in 1 .. MaxLogical : Walk(d, n, x)[k] = Follow(d, n, x, Walk(d, n, x)[k - 1])
<1>0. MaxLogical \in Nat BY Constants
<1>1. PICK g : Begun(d, n, x, MaxLogical, g)
  BY <1>0, RoundsExist
<1>2. g = Body(d, n, x, g)
  <2>1. \A k \in 0 .. MaxLogical :
          g[k] = IF k = 0 THEN Begin(x) ELSE Follow(d, n, x, g[k - 1])
    <3> TAKE k \in 0 .. MaxLogical
    <3>1. CASE k = 0 BY <1>1, <3>1 DEF Begun
    <3>2. CASE k # 0
      <4>1. k \in 1 .. MaxLogical BY <3>2, <1>0
      <4> QED BY <1>1, <3>2, <4>1 DEF Begun
    <3> QED BY <3>1, <3>2
  <2> QED BY <1>1, <2>1, Zenon DEF Begun, Body
<1>3. Walk(d, n, x) = Body(d, n, x, Walk(d, n, x))
  BY <1>2 DEF Walk
<1> DEFINE w == Walk(d, n, x)
<1>4. w = [k \in 0 .. MaxLogical |-> IF k = 0 THEN Begin(x) ELSE Follow(d, n, x, w[k - 1])]
  BY <1>3, Zenon DEF Body
<1> HIDE DEF w
<1>5. w[0] = Begin(x) /\ \A k \in 1 .. MaxLogical : w[k] = Follow(d, n, x, w[k - 1])
  BY <1>4, <1>0
<1> QED BY <1>5 DEF w

\* What a walk keeps: it goes forward from record to record, and has found what
\* those behind it list.
Walking(x, w, k) ==
    /\ w = [at |-> w.at, found |-> w.found, state |-> w.state]
    /\ w.at \in Int /\ w.found \in Seq(LogicalRec) /\ w.state \in {"on", "end", "broken"}
    /\ Len(w.found) <= k /\ w.at >= x.start
    /\ Linked(w.found, x)
    /\ w.state = "on" => /\ w.at = x.start <=> w.found = <<>>
                         /\ \A j \in 1 .. Len(w.found) : w.found[j].ebr < w.at
    /\ (w.state = "on" /\ w.at = x.start) \/ w.state = "broken" \/ x.len > 0

\* What a good disk has outside block 0, told apart by its tag.
LEMMA InnerIs ==
  ASSUME NEW d, DiskOK(d), NEW b \in Lbas, b # 0
  PROVE  /\ d[b].is = "record" => \E es : d[b] = Record(es) /\ EbrEntries(es)
         /\ d[b].is = "header" => GoodHeader(d[b])
<1>1. Inner(d[b]) BY DEF DiskOK
<1>2. CASE d[b] = Data BY <1>2 DEF Data
<1>3. CASE GoodHeader(d[b]) BY <1>3 DEF GoodHeader, HeaderRec
<1>4. CASE \E y : d[b] = [is |-> "entry", entry |-> y] BY <1>4
<1>5. CASE \E es : d[b] = Record(es) /\ EbrEntries(es) BY <1>5 DEF Record
<1> QED BY <1>1, <1>2, <1>3, <1>4, <1>5 DEF Inner

\* A partition is appended to those found.
LEMMA AppendLinked ==
  ASSUME NEW x \in EntryRec, NEW l \in Seq(LogicalRec), Linked(l, x),
         NEW e \in LogicalRec, l = <<>> <=> e.ebr = x.start,
         \A j \in 1 .. Len(l) : l[j].ebr < e.ebr,
         e.ebr >= x.start, e.ebr < x.start + x.len
  PROVE  /\ Append(l, e) \in Seq(LogicalRec) /\ Len(Append(l, e)) = Len(l) + 1
         /\ Linked(Append(l, e), x)
         /\ \A j \in 1 .. Len(l) + 1 : Append(l, e)[j].ebr <= e.ebr
<1> DEFINE a == Append(l, e)
<1>1. a \in Seq(LogicalRec) /\ Len(a) = Len(l) + 1 OBVIOUS
<1>n. a # <<>>
  <2>1. Len(a) # 0 BY <1>1
  <2>2. Len(<<>>) = 0 OBVIOUS
  <2> QED BY <2>1, <2>2, Zenon
<1>2. \A j \in 1 .. Len(l) : a[j] = l[j] OBVIOUS
<1>3. a[Len(l) + 1] = e OBVIOUS
<1>t. /\ e.ebr \in Int /\ x.start \in Int /\ x.len \in Int /\ Len(l) \in Nat
      /\ \A j \in 1 .. Len(l) : l[j].ebr \in Int
  <2>1. \A j \in 1 .. Len(l) : l[j] \in LogicalRec OBVIOUS
  <2> QED BY <2>1, SMTT(30) DEF LogicalRec, EntryRec
<1> HIDE DEF a
<1>4. a # <<>> /\ a[1].ebr = x.start
  <2>1. CASE l = <<>>
    <3>1. Len(l) = 0 /\ e.ebr = x.start BY <2>1
    <3>2. Len(a) = 1 /\ a[1] = e BY <3>1, <1>1, <1>3
    <3> QED BY <3>1, <3>2, <1>n
  <2>2. CASE l # <<>>
    <3>1. 1 \in 1 .. Len(l) BY <2>2
    <3> QED BY <3>1, <2>2, <1>1, <1>2 DEF Linked
  <2> QED BY <2>1, <2>2
<1>5. \A i, k \in 1 .. Len(a) : i < k => a[i].ebr < a[k].ebr
  <2> TAKE i, k \in 1 .. Len(a)
  <2> HAVE i < k
  <2>1. i \in 1 .. Len(l) /\ a[i] = l[i] BY <1>1, <1>2, <1>t
  <2>2. CASE k = Len(l) + 1 BY <2>1, <2>2, <1>3
  <2>3. CASE k # Len(l) + 1
    <3>1. k \in 1 .. Len(l)
      <4>1. k \in 1 .. Len(l) + 1 BY <1>1
      <4>2. Len(l) \in Nat BY <1>t
      <4> QED BY <4>1, <2>3, <4>2
    <3>2. a[k] = l[k] BY <3>1, <1>2
    <3> QED BY <2>1, <3>1, <3>2 DEF Linked
  <2> QED BY <2>2, <2>3
<1>6. ASSUME NEW j \in 1 .. Len(l) + 1
      PROVE a[j].ebr <= e.ebr /\ a[j].ebr >= x.start /\ a[j].ebr < x.start + x.len
  <2>2. CASE j = Len(l) + 1 BY <2>2, <1>3, <1>t
  <2>3. CASE j # Len(l) + 1
    <3>1. j \in 1 .. Len(l) /\ a[j] = l[j] BY <2>3, <1>2, <1>t
    <3> QED BY <3>1, <1>t DEF Linked
  <2> QED BY <2>2, <2>3
<1>7. Linked(a, x) BY <1>1, <1>4, <1>5, <1>6 DEF Linked
<1> QED BY <1>1, <1>6, <1>7 DEF a

\* A round keeps it.
LEMMA FollowKeeps ==
  ASSUME NEW d, DiskOK(d), NEW n \in Sizes, NEW x \in EntryRec, x.start > 0,
         NEW w, NEW k \in Nat, Walking(x, w, k)
  PROVE  Walking(x, Follow(d, n, x, w), k + 1)
<1> DEFINE v == Follow(d, n, x, w)
<1>t. x.start \in Int /\ x.len \in Int /\ n \in Nat /\ n <= Largest /\ Largest \in Nat
  BY Constants DEF EntryRec
<1>w. /\ w.at \in Int /\ w.found \in Seq(LogicalRec) /\ w.at >= x.start
      /\ Len(w.found) <= k /\ Linked(w.found, x)
  BY DEF Walking
<1>1. CASE w.state # "on"
  <2>1. v = w BY <1>1 DEF Follow
  <2> QED BY <2>1, <1>1, <1>w DEF Walking
<1>2. CASE w.state = "on" /\ (w.at >= x.start + x.len \/ w.at >= n)
  <2>1. v = [w EXCEPT !.state = "broken"] BY <1>2, <1>t, <1>w DEF Follow
  <2>2. v = [at |-> w.at, found |-> w.found, state |-> "broken"] BY <2>1 DEF Walking
  <2> QED BY <2>2, <1>w DEF Walking
<1>3. CASE w.state = "on" /\ w.at < x.start + x.len /\ w.at < n
  <2> DEFINE r == d[w.at]
             e == [ebr |-> w.at, start |-> w.at + r.entries[1].start, len |-> r.entries[1].len]
             found == IF r.entries[1].kind = "empty" THEN w.found ELSE Append(w.found, e)
  <2>0. x.len > 0 BY <1>3, <1>t, <1>w
  <2>1. w.at \in Lbas /\ w.at # 0 BY <1>3, <1>t, <1>w DEF Lbas
  <2>2. v = IF r.is # "record"
            THEN [w EXCEPT !.state = IF w.at = x.start THEN "end" ELSE "broken"]
            ELSE IF r.entries[1].kind = "extended" THEN [w EXCEPT !.state = "broken"]
            ELSE IF r.entries[2].kind # "extended" THEN [w EXCEPT !.state = "end", !.found = found]
            ELSE IF x.start + r.entries[2].start <= w.at THEN [w EXCEPT !.state = "broken"]
            ELSE [at |-> x.start + r.entries[2].start, found |-> found, state |-> "on"]
    BY <1>3, <1>t, <1>w DEF Follow
  <2>3. w = [at |-> w.at, found |-> w.found, state |-> "on"] BY <1>3 DEF Walking
  <2>4. CASE r.is # "record"
    <3>1. PICK s \in {"end", "broken"} : v = [w EXCEPT !.state = s] BY <2>2, <2>4
    <3>2. v = [at |-> w.at, found |-> w.found, state |-> s] BY <3>1, <2>3
    <3> QED BY <3>2, <1>w, <2>0 DEF Walking
  <2>5. CASE r.is = "record"
    <3>1. PICK es : r = Record(es) /\ EbrEntries(es) BY <2>5, <2>1, InnerIs
    <3>2. r.entries = es BY <3>1 DEF Record
    <3>3. /\ es[1] \in EntryRec /\ es[2] \in EntryRec /\ es[1].kind \in {"empty", "linux"}
          /\ es[1].kind = "empty" => es[2].kind # "extended"
      <4>1. es \in Seq(EntryRec) /\ Len(es) = 2 BY <3>1 DEF EbrEntries
      <4>2. es[1] \in EntryRec /\ es[2] \in EntryRec BY <4>1
      <4> QED BY <4>2, <3>1 DEF EbrEntries
    <3>4. e \in LogicalRec BY <3>2, <3>3, <1>w DEF EntryRec, LogicalRec
    <3>5. w.found = <<>> <=> w.at = x.start BY <1>3 DEF Walking
    <3>6. \A j \in 1 .. Len(w.found) : w.found[j].ebr < w.at BY <1>3 DEF Walking
    <3>7. e.ebr = w.at OBVIOUS
    <3> HIDE DEF e
    <3>8. /\ Append(w.found, e) \in Seq(LogicalRec) /\ Len(Append(w.found, e)) = Len(w.found) + 1
          /\ Linked(Append(w.found, e), x)
          /\ \A j \in 1 .. Len(w.found) + 1 : Append(w.found, e)[j].ebr <= w.at
      BY <3>4, <3>5, <3>6, <3>7, <1>w, <1>3, AppendLinked
    <3>9. CASE v = [w EXCEPT !.state = "broken"]
      <4>1. v = [at |-> w.at, found |-> w.found, state |-> "broken"] BY <3>9, <2>3
      <4> QED BY <4>1, <1>w DEF Walking
    <3>10. CASE es[2].kind # "extended" /\ v # [w EXCEPT !.state = "broken"]
      <4>1. v = [at |-> w.at, found |-> found, state |-> "end"]
        <5>1. v = [w EXCEPT !.state = "end", !.found = found] BY <3>2, <3>10, <2>2, <2>5
        <5> HIDE DEF found
        <5> QED BY <5>1, <2>3
      <4>2. found \in Seq(LogicalRec) /\ Len(found) <= k + 1 /\ Linked(found, x)
        <5>3. found = w.found \/ found = Append(w.found, e) OBVIOUS
        <5> HIDE DEF found
        <5>4. Len(w.found) \in Nat BY <1>w
        <5>1. CASE found = w.found BY <5>1, <1>w, <5>4
        <5>2. CASE found = Append(w.found, e) BY <5>2, <3>8, <1>w, <5>4
        <5> QED BY <5>1, <5>2, <5>3
      <4> HIDE DEF found
      <4> QED BY <4>1, <4>2, <1>w, <2>0 DEF Walking
    <3>11. CASE es[2].kind = "extended" /\ v # [w EXCEPT !.state = "broken"]
      <4>0. es[1].kind # "empty" /\ es[1].kind # "extended" BY <3>3, <3>11
      <4>1. /\ v = [at |-> x.start + es[2].start, found |-> found, state |-> "on"]
            /\ ~(x.start + es[2].start <= w.at)
        <5> HIDE DEF found
        <5> QED BY <3>2, <3>11, <2>2, <2>5, <4>0
      <4>2. found = Append(w.found, e) BY <4>0, <3>2
      <4> HIDE DEF found
      <4>3. es[2].start \in Int BY <3>3 DEF EntryRec
      <4> DEFINE at == x.start + es[2].start
      <4>4. at \in Int /\ at > w.at /\ at > x.start BY <4>1, <4>3, <1>t, <1>w
      <4>5. found # <<>> /\ found \in Seq(LogicalRec) /\ Len(found) <= k + 1 /\ Linked(found, x)
        BY <4>2, <3>8, <1>w
      <4>6. \A j \in 1 .. Len(found) : found[j].ebr < at
        <5> TAKE j \in 1 .. Len(found)
        <5>1. j \in 1 .. Len(w.found) + 1 BY <4>2, <3>8
        <5>2. found[j].ebr <= w.at BY <5>1, <4>2, <3>8
        <5>3. found[j].ebr \in Int
          <6>1. found[j] \in LogicalRec BY <4>5
          <6> QED BY <6>1 DEF LogicalRec
        <5> QED BY <5>2, <5>3, <4>4, <1>w
      <4>7. v = [at |-> at, found |-> found, state |-> "on"] BY <4>1
      <4> HIDE DEF at
      <4> QED BY <4>4, <4>5, <4>6, <4>7, <1>t, <2>0 DEF Walking
    <3> QED BY <3>9, <3>10, <3>11
  <2> QED BY <2>4, <2>5
<1> QED BY <1>1, <1>2, <1>3, <1>t, <1>w

\* What every round of a walk keeps.
LEMMA WalkKeeps ==
  ASSUME NEW d, DiskOK(d), NEW n \in Sizes, NEW x \in EntryRec, x.start > 0,
         NEW m \in 0 .. MaxLogical
  PROVE  Walking(x, Walk(d, n, x)[m], m)
<1> DEFINE w == Walk(d, n, x)
           S == {k \in 0 .. MaxLogical : ~Walking(x, w[k], k)}
<1> SUFFICES ASSUME S # {} PROVE FALSE
  OBVIOUS
<1>0. MaxLogical \in Nat BY Constants
<1>1. PICK k \in S : \A j \in S : k <= j
  <2>1. S \in SUBSET Nat BY <1>0
  <2> QED BY <2>1, LeastNatural, Zenon
<1>2. w[0] = Begin(x) /\ \A j \in 1 .. MaxLogical : w[j] = Follow(d, n, x, w[j - 1])
  BY WalkRounds
<1> HIDE DEF w
<1>3. CASE k = 0
  <2>1. Walking(x, Begin(x), 0) BY DEF Begin, Walking, Linked, EntryRec
  <2> QED BY <2>1, <1>1, <1>2, <1>3
<1>4. CASE k # 0
  <2>1. k \in 1 .. MaxLogical /\ k - 1 \in 0 .. MaxLogical /\ k - 1 \in Nat BY <1>0, <1>1, <1>4
  <2>2. k - 1 \notin S BY <1>1, <2>1
  <2>3. Walking(x, w[k - 1], k - 1) BY <2>1, <2>2
  <2>4. Walking(x, Follow(d, n, x, w[k - 1]), k - 1 + 1) BY <2>1, <2>3, FollowKeeps
  <2>5. w[k] = Follow(d, n, x, w[k - 1]) /\ k - 1 + 1 = k BY <1>2, <2>1
  <2>6. Walking(x, w[k], k) BY <2>4, <2>5
  <2> QED BY <2>6, <1>1
<1> QED BY <1>3, <1>4

\* The device's blocks from n on, after it was cut or grown to n blocks.
Trimmed(d, n) == [b \in Lbas |-> IF b < n THEN d[b] ELSE Data]
\* Nothing is stored behind the end of the device.
Beyond(d, n) == \A b \in Lbas : b >= n => d[b] = Data

\* A round on a device of another size goes as before, or ends the walk: broken,
\* or before anything was found.
LEMMA FollowTrimmed ==
  ASSUME NEW d, DiskOK(d), NEW n \in Sizes, NEW m \in Sizes, Beyond(d, n),
         NEW x \in EntryRec, x.start > 0, NEW w, NEW k \in Nat, Walking(x, w, k)
  PROVE  LET v == Follow(Trimmed(d, m), m, x, w)
         IN  v = Follow(d, n, x, w) \/ v.state = "broken" \/ (v.state = "end" /\ v.found = <<>>)
<1> DEFINE c == Trimmed(d, m)
           v == Follow(c, m, x, w)
<1>t. x.start \in Int /\ x.len \in Int /\ n \in Nat /\ m \in Nat /\ n <= Largest /\ m <= Largest
      /\ Largest \in Nat
  BY Constants DEF EntryRec
<1>w. w = [at |-> w.at, found |-> w.found, state |-> w.state] /\ w.at \in Int /\ w.at >= x.start
  BY DEF Walking
<1>1. CASE w.state # "on"
  BY <1>1 DEF Follow
<1>2. CASE w.state = "on" /\ (w.at >= x.start + x.len \/ w.at >= m)
  <2>1. v = [w EXCEPT !.state = "broken"] BY <1>2, <1>t, <1>w DEF Follow
  <2>2. v.state = "broken" BY <2>1, <1>w
  <2> QED BY <2>2
<1>3. CASE w.state = "on" /\ w.at < x.start + x.len /\ w.at < m
  <2>1. w.at \in Lbas /\ c[w.at] = d[w.at] BY <1>3, <1>t, <1>w DEF Lbas, Trimmed
  <2>2. CASE w.at < n
    BY <2>1, <2>2, <1>3, <1>t, <1>w DEF Follow
  <2>3. CASE w.at >= n
    <3>1. c[w.at].is # "record" BY <2>1, <2>3 DEF Beyond, Data
    <3>2. v = [w EXCEPT !.state = IF w.at = x.start THEN "end" ELSE "broken"]
      BY <3>1, <1>3, <1>t, <1>w DEF Follow
    <3>3. v.state = (IF w.at = x.start THEN "end" ELSE "broken") /\ v.found = w.found
      BY <3>2, <1>w
    <3>4. w.at = x.start => w.found = <<>> BY <1>3 DEF Walking
    <3> QED BY <3>3, <3>4
  <2> QED BY <2>2, <2>3, <1>t, <1>w
<1> QED BY <1>1, <1>2, <1>3, <1>t, <1>w

\* So does the whole walk.
LEMMA WalkTrimmed ==
  ASSUME NEW d, DiskOK(d), NEW n \in Sizes, NEW m \in Sizes, Beyond(d, n),
         NEW x \in EntryRec, x.start > 0
  PROVE  LET v == WalkEbr(Trimmed(d, m), m, x)
         IN  v = WalkEbr(d, n, x) \/ v.state = "broken" \/ (v.state = "end" /\ v.found = <<>>)
<1> DEFINE v == Walk(Trimmed(d, m), m, x)
           w == Walk(d, n, x)
           Fine(k) == v[k] = w[k] \/ v[k].state = "broken"
                        \/ (v[k].state = "end" /\ v[k].found = <<>>)
           S == {k \in 0 .. MaxLogical : ~Fine(k)}
<1>0. MaxLogical \in Nat BY Constants
<1>1. S = {}
  <2> SUFFICES ASSUME S # {} PROVE FALSE
    OBVIOUS
  <2>1. PICK k \in S : \A j \in S : k <= j
    <3>1. S \in SUBSET Nat BY <1>0
    <3> HIDE DEF S
    <3> QED BY <3>1, LeastNatural, Zenon
  <2>2. w[0] = Begin(x) /\ \A j \in 1 .. MaxLogical : w[j] = Follow(d, n, x, w[j - 1])
    BY WalkRounds
  <2>3. v[0] = Begin(x) /\ \A j \in 1 .. MaxLogical : v[j] = Follow(Trimmed(d, m), m, x, v[j - 1])
    BY WalkRounds
  <2>4. \A j \in 0 .. MaxLogical : Walking(x, w[j], j)
    BY WalkKeeps
  <2> HIDE DEF v, w
  <2>5. k # 0 BY <2>1, <2>2, <2>3
  <2>6. k \in 1 .. MaxLogical /\ k - 1 \in 0 .. MaxLogical /\ k - 1 \in Nat BY <1>0, <2>1, <2>5
  <2>7. Fine(k - 1) BY <2>1, <2>6
  <2>8. v[k] = Follow(Trimmed(d, m), m, x, v[k - 1]) /\ w[k] = Follow(d, n, x, w[k - 1])
    BY <2>2, <2>3, <2>6
  <2>9. CASE v[k - 1] = w[k - 1]
    <3>1. Walking(x, w[k - 1], k - 1) BY <2>4, <2>6
    <3>2. Fine(k) BY <3>1, <2>6, <2>8, <2>9, FollowTrimmed
    <3> QED BY <3>2, <2>1
  <2>10. CASE v[k - 1].state \in {"broken", "end"}
    <3>1. v[k] = v[k - 1] BY <2>8, <2>10 DEF Follow
    <3>2. CASE v[k - 1] = w[k - 1] BY <3>2, <2>9
    <3>3. CASE v[k - 1] # w[k - 1]
      <4>1. Fine(k) BY <3>1, <3>3, <2>7
      <4> QED BY <4>1, <2>1
    <3> QED BY <3>2, <3>3
  <2> QED BY <2>7, <2>9, <2>10
<1>2. Fine(MaxLogical) BY <1>0, <1>1
<1> QED BY <1>2, WalkEbrIsWalk

\* The records of a table are on the device, ...
Chained(d, n, l, x) ==
    IF l = <<>> THEN x.start < n /\ d[x.start] = Record(<<Empty, Empty>>)
    ELSE \A k \in 1 .. Len(l) :
            l[k].ebr < n /\ d[l[k].ebr] = EbrRecord(l, k, x.start).content

\* What was found, and the partition of the record at w.at.
More(d, w) ==
    Append(w.found, [ebr |-> w.at, start |-> w.at + d[w.at].entries[1].start,
                     len |-> d[w.at].entries[1].len])

\* A round at a record inside the extended partition: one that lists nothing, ...
LEMMA FollowEmpty ==
  ASSUME NEW d, NEW n \in Nat, NEW x, x.start \in Int, x.len \in Int,
         NEW w, w = [at |-> w.at, found |-> w.found, state |-> "on"], w.at \in Int,
         w.at < x.start + x.len, w.at < n, d[w.at].is = "record",
         d[w.at].entries[1].kind = "empty", d[w.at].entries[2].kind = "empty"
  PROVE  Follow(d, n, x, w) = [at |-> w.at, found |-> w.found, state |-> "end"]
<1> DEFINE v == Follow(d, n, x, w)
<1>1. v = [w EXCEPT !.state = "end", !.found = w.found]
  BY DEF Follow, More
<1> HIDE DEF v
<1>2. v = [at |-> w.at, found |-> w.found, state |-> "end"]
  BY <1>1
<1> QED BY <1>2 DEF v

\* ... the last one, ...
LEMMA FollowLast ==
  ASSUME NEW d, NEW n \in Nat, NEW x, x.start \in Int, x.len \in Int,
         NEW w, w = [at |-> w.at, found |-> w.found, state |-> "on"], w.at \in Int,
         w.at < x.start + x.len, w.at < n, d[w.at].is = "record",
         d[w.at].entries[1].kind = "linux", d[w.at].entries[2].kind = "empty"
  PROVE  Follow(d, n, x, w) = [at |-> w.at, found |-> More(d, w), state |-> "end"]
<1> DEFINE v == Follow(d, n, x, w)
<1>1. v = [w EXCEPT !.state = "end", !.found = More(d, w)]
  BY DEF Follow, More
<1> HIDE DEF v
<1>2. v = [at |-> w.at, found |-> More(d, w), state |-> "end"]
  BY <1>1
<1> QED BY <1>2 DEF v

\* ... and one with a link.
LEMMA FollowNext ==
  ASSUME NEW d, NEW n \in Nat, NEW x, x.start \in Int, x.len \in Int,
         NEW w, w = [at |-> w.at, found |-> w.found, state |-> "on"], w.at \in Int,
         w.at < x.start + x.len, w.at < n, d[w.at].is = "record",
         d[w.at].entries[1].kind = "linux", d[w.at].entries[2].kind = "extended",
         ~(x.start + d[w.at].entries[2].start <= w.at)
  PROVE  Follow(d, n, x, w) = [at |-> x.start + d[w.at].entries[2].start, found |-> More(d, w),
                                 state |-> "on"]
  BY DEF Follow, More

\* ... and the walk finds them, one a round.
LEMMA WalkFindsAll ==
  ASSUME NEW d, NEW n \in Nat, NEW x \in EntryRec, x.start > 0, x.len > 0,
         NEW l \in Seq(LogicalRec), Len(l) <= MaxLogical, Linked(l, x), Chained(d, n, l, x)
  PROVE  WalkEbr(d, n, x).state = "end" /\ WalkEbr(d, n, x).found = l
<1> DEFINE w == Walk(d, n, x)
           count == Len(l)
           At(k) == IF l = <<>> THEN x.start ELSE l[k].ebr
           Done == [at |-> At(count), found |-> l, state |-> "end"]
           Good(k) == w[k] = IF k > 0 /\ k >= count THEN Done
                             ELSE [at |-> At(k + 1), found |-> SubSeq(l, 1, k), state |-> "on"]
           S == {k \in 0 .. MaxLogical : ~Good(k)}
<1>0. MaxLogical \in Nat /\ MaxLogical >= 1 BY Constants
<1>t. count \in Nat /\ (l = <<>> <=> count = 0) OBVIOUS
<1>x. x.start \in Int /\ x.len \in Int BY DEF EntryRec
<1>e. /\ \A k \in 1 .. count : l[k] = [ebr |-> l[k].ebr, start |-> l[k].start, len |-> l[k].len]
      /\ \A k \in 1 .. count : l[k].ebr \in Int /\ l[k].start \in Int /\ l[k].len \in Int
  <2>1. \A k \in 1 .. count : l[k] \in LogicalRec OBVIOUS
  <2> QED BY <2>1 DEF LogicalRec
<1>i. \A k \in 1 .. count : l[k].ebr \in Int /\ l[k].start \in Int /\ l[k].len \in Int
  BY <1>e
<1>r. w[0] = Begin(x) /\ \A j \in 1 .. MaxLogical : w[j] = Follow(d, n, x, w[j - 1])
  BY WalkRounds
<1> HIDE DEF w
<1>1. Good(0)
  <2>1. SubSeq(l, 1, 0) = <<>> OBVIOUS
  <2>2. At(1) = x.start
    <3>1. l # <<>> => l[1].ebr = x.start BY DEF Linked
    <3> QED BY <3>1
  <2> QED BY <2>1, <2>2, <1>r DEF Begin
<1>2. ASSUME NEW k \in 1 .. MaxLogical, Good(k - 1), l = <<>> PROVE Good(k)
  <2>1. count = 0 /\ k > 0 /\ k >= count BY <1>2, <1>t, <1>0
  <2>2. w[k] = Follow(d, n, x, w[k - 1]) BY <1>r
  <2>3. CASE k = 1
    <3>1. w[0] = [at |-> x.start, found |-> <<>>, state |-> "on"] BY <1>r DEF Begin
    <3>2. d[x.start] = Record(<<Empty, Empty>>) /\ x.start < n BY <1>2 DEF Chained
    <3>3. /\ d[x.start].is = "record" /\ d[x.start].entries[1].kind = "empty"
          /\ d[x.start].entries[2].kind = "empty"
      BY <3>2 DEF Record, Empty, Entry
    <3>4. w[1] = [at |-> x.start, found |-> <<>>, state |-> "end"]
      <4>1. w[1] = Follow(d, n, x, w[0]) BY <2>2, <2>3
      <4>2. x.start < x.start + x.len BY <1>x
      <4> DEFINE v == w[0]
      <4>3. v.at = x.start /\ v.found = <<>> /\ v.state = "on" BY <3>1
      <4>4. v = [at |-> v.at, found |-> v.found, state |-> "on"] BY <3>1
      <4>5. w[1] = Follow(d, n, x, v) BY <4>1
      <4> HIDE DEF v
      <4>6. w[1] = [at |-> v.at, found |-> v.found, state |-> "end"]
        BY <4>2, <4>3, <4>4, <4>5, <3>2, <3>3, <1>x, FollowEmpty
      <4> QED BY <4>6, <4>3
    <3> QED BY <3>4, <2>1, <2>3, <1>2
  <2>4. CASE k # 1
    <3>1. k - 1 > 0 /\ k - 1 >= count BY <2>1, <2>4
    <3>2. w[k - 1] = Done BY <3>1, <1>2
    <3>3. w[k] = w[k - 1] BY <3>2, <2>2 DEF Follow
    <3> QED BY <3>2, <3>3, <2>1
  <2> QED BY <2>3, <2>4
<1>3. ASSUME NEW k \in 1 .. MaxLogical, Good(k - 1), l # <<>> PROVE Good(k)
  <2>2. w[k] = Follow(d, n, x, w[k - 1]) BY <1>r
  <2>0. k \in Nat /\ k > 0 /\ count > 0 BY <1>0, <1>t, <1>3
  <2>3. CASE k - 1 >= count
    <3>1. w[k - 1] = Done BY <1>3, <2>3, <2>0, <1>t
    <3>2. w[k] = w[k - 1] BY <3>1, <2>2 DEF Follow
    <3> QED BY <3>1, <3>2, <2>3, <2>0, <1>t
  <2>4. CASE k - 1 < count
    <3>0. k \in 1 .. count BY <2>4, <2>0, <1>t
    <3> DEFINE at == l[k].ebr
               r == d[at]
               e == [ebr |-> at, start |-> at + r.entries[1].start, len |-> r.entries[1].len]
    <3>1. w[k - 1] = [at |-> at, found |-> SubSeq(l, 1, k - 1), state |-> "on"]
      <4>1. ~(k - 1 > 0 /\ k - 1 >= count) BY <2>4
      <4>2. k - 1 + 1 = k BY <2>0
      <4> QED BY <4>1, <4>2, <1>3
    <3>2. r = EbrRecord(l, k, x.start).content /\ at < n BY <3>0, <1>3 DEF Chained
    <3>3. at < x.start + x.len /\ at >= x.start BY <3>0 DEF Linked
    <3>k. k = 1 => at = x.start BY <1>3 DEF Linked
    <3>4. r = Record(<<Entry("linux", l[k].start - at, l[k].len), Link(l, k, x.start)>>)
      BY <3>2, <3>k DEF EbrRecord, Block
    <3>5. /\ r.is = "record" /\ r.entries[1] = Entry("linux", l[k].start - at, l[k].len)
          /\ r.entries[2] = Link(l, k, x.start)
      BY <3>4 DEF Record
    <3>6. e = l[k]
      <4>1. r.entries[1].start = l[k].start - at /\ r.entries[1].len = l[k].len
        BY <3>5 DEF Entry
      <4>2. at + (l[k].start - at) = l[k].start BY <1>i, <3>0
      <4> QED BY <4>1, <4>2, <1>e, <3>0
    <3>7. Append(SubSeq(l, 1, k - 1), e) = SubSeq(l, 1, k)
      BY <3>6, <3>0, <1>t
    <3>8. r.entries[1].kind = "linux" BY <3>5 DEF Entry
    <3> DEFINE found == SubSeq(l, 1, k)
    <3>9. CASE k = count
      <4>1. r.entries[2].kind = "empty" BY <3>5, <3>9 DEF Link, Empty, Entry
      <4>2. w[k] = [at |-> at, found |-> Append(SubSeq(l, 1, k - 1), e), state |-> "end"]
        <5> HIDE DEF r
        <5>1. at \in Int BY <1>i, <3>0
        <5> HIDE DEF at
        <5> DEFINE v == w[k - 1]
        <5>3. v.at = at /\ v.found = SubSeq(l, 1, k - 1) BY <3>1
        <5>4. v = [at |-> v.at, found |-> v.found, state |-> "on"] BY <3>1
        <5>5. w[k] = Follow(d, n, x, v) BY <2>2
        <5> HIDE DEF v
        <5> USE DEF r
        <5>7. Append(v.found, e) = More(d, v) BY <5>3 DEF More
        <5>6. w[k] = [at |-> v.at, found |-> More(d, v), state |-> "end"]
          BY <5>1, <5>3, <5>4, <5>5, <4>1, <3>2, <3>3, <3>5, <3>8, <1>x, FollowLast
        <5> HIDE DEF e
        <5> QED BY <5>3, <5>6, <5>7
      <4>3. found = l BY <3>9
      <4>4. w[k] = [at |-> at, found |-> l, state |-> "end"] BY <4>2, <4>3, <3>7
      <4> QED BY <4>4, <3>9, <2>0, <1>3
    <3>10. CASE k # count
      <4>0. k + 1 \in 1 .. count /\ k < k + 1 BY <3>0, <3>10, <1>t
      <4>1. r.entries[2] = Entry("extended", l[k + 1].ebr - x.start,
                                 l[k + 1].start + l[k + 1].len - l[k + 1].ebr)
        BY <3>5, <3>10 DEF Link
      <4>2. r.entries[2].kind = "extended" /\ r.entries[2].start = l[k + 1].ebr - x.start
        BY <4>1 DEF Entry
      <4>3. l[k + 1].ebr > at BY <4>0, <3>0 DEF Linked
      <4>4. x.start + (l[k + 1].ebr - x.start) = l[k + 1].ebr
        <5>1. l[k + 1].ebr \in Int BY <4>0, <1>i
        <5> QED BY <5>1, <1>x
      <4>5. w[k] = [at |-> l[k + 1].ebr, found |-> Append(SubSeq(l, 1, k - 1), e), state |-> "on"]
        <5> HIDE DEF r
        <5>1. x.start + r.entries[2].start = l[k + 1].ebr BY <4>2, <4>4
        <5>2. l[k + 1].ebr \in Int /\ at \in Int BY <4>0, <3>0, <1>i
        <5>3. ~(l[k + 1].ebr <= at) BY <4>3, <5>2
        <5> HIDE DEF at
        <5>4. ~(x.start + r.entries[2].start <= at) BY <5>1, <5>3
        <5> DEFINE v == w[k - 1]
        <5>5. v.at = at /\ v.found = SubSeq(l, 1, k - 1) BY <3>1
        <5>6. v = [at |-> v.at, found |-> v.found, state |-> "on"] BY <3>1
        <5>7. w[k] = Follow(d, n, x, v) BY <2>2
        <5> HIDE DEF v
        <5> USE DEF r
        <5>9. Append(v.found, e) = More(d, v) BY <5>5 DEF More
        <5>8. w[k] = [at |-> x.start + r.entries[2].start, found |-> More(d, v), state |-> "on"]
          <6>1. /\ x.start \in Int /\ x.len \in Int /\ v.at \in Int
                /\ v.at < x.start + x.len /\ v.at < n
            <7> HIDE DEF r
            <7> QED BY <5>2, <5>5, <3>2, <3>3, <1>x
          <6>2. /\ d[v.at].is = "record" /\ d[v.at].entries[1].kind = "linux"
                /\ d[v.at].entries[2].kind = "extended"
                /\ d[v.at].entries[2].start = r.entries[2].start
            BY <5>5, <4>2, <3>2, <3>3, <3>5, <3>8
          <6>3. ~(x.start + d[v.at].entries[2].start <= v.at)
            BY <5>4, <5>5, <6>2
          <6>4. Follow(d, n, x, v) = [at |-> x.start + d[v.at].entries[2].start,
                                      found |-> More(d, v), state |-> "on"]
            <7> HIDE DEF r
            <7> QED BY <5>6, <6>1, <6>2, <6>3, FollowNext, Zenon
          <6> QED BY <5>7, <6>2, <6>4
        <5> HIDE DEF e, r
        <5> QED BY <5>1, <5>5, <5>8, <5>9
      <4>6. ~(k >= count) BY <4>0, <3>0, <1>t
      <4> QED BY <4>5, <4>6, <3>7, <1>3
    <3> QED BY <3>9, <3>10
  <2> QED BY <2>3, <2>4, <2>0, <1>t
<1>4. S = {}
  <2> SUFFICES ASSUME S # {} PROVE FALSE
    OBVIOUS
  <2>1. PICK k \in S : \A j \in S : k <= j
    <3>1. S \in SUBSET Nat BY <1>0
    <3> HIDE DEF S
    <3> QED BY <3>1, LeastNatural, Zenon
  <2> HIDE DEF Good
  <2>2. k \in 0 .. MaxLogical /\ ~Good(k) BY <2>1
  <2>3. k # 0 BY <2>2, <1>1
  <2>4. k \in 1 .. MaxLogical /\ k - 1 \in 0 .. MaxLogical /\ ~(k <= k - 1) BY <2>2, <2>3, <1>0
  <2>5. Good(k - 1) BY <2>1, <2>4
  <2> QED BY <2>2, <2>4, <2>5, <1>2, <1>3
<1>5. w[MaxLogical] = Done
  <2> HIDE DEF Good
  <2>1. MaxLogical \in 0 .. MaxLogical BY <1>0
  <2>2. Good(MaxLogical) BY <1>4, <2>1
  <2>3. MaxLogical > 0 /\ MaxLogical >= count BY <1>0, <1>t
  <2> USE DEF Good
  <2> QED BY <2>2, <2>3
<1> QED BY <1>5, WalkEbrIsWalk DEF w

-----------------------------------------------------------------------------
(* What a table is written as. *)

\* The slot of the extended partition.
LEMMA ExtendedIs ==
  ASSUME NEW es, MbrEntries(es), NEW i \in 1 .. Slots, es[i].kind = "extended"
  PROVE  ExtendedSlots(es) = {i} /\ Extended(es) = es[i]
<1>1. ExtendedSlots(es) = {i} BY DEF MbrEntries, ExtendedSlots
<1>2. (CHOOSE k \in ExtendedSlots(es) : TRUE) = i BY <1>1
<1> QED BY <1>1, <1>2 DEF Extended

\* Its entry.
LEMMA ExtendedEntry ==
  ASSUME NEW es, MbrEntries(es), ExtendedSlots(es) # {}
  PROVE  /\ Extended(es) \in EntryRec /\ Extended(es).start > 0
         /\ \E i \in 1 .. Slots : ExtendedSlots(es) = {i} /\ Extended(es) = es[i]
                                    /\ es[i].kind = "extended"
<1>1. PICK i \in 1 .. Slots : es[i].kind = "extended" BY DEF ExtendedSlots
<1>2. ExtendedSlots(es) = {i} /\ Extended(es) = es[i] BY <1>1, ExtendedIs
<1> QED BY <1>1, <1>2 DEF MbrEntries

\* The blocks that are written.
Contents ==
    {Data} \cup HeaderRec \cup [is : {"entry"}, entry : Pairs]
      \cup [is : {"record"}, entries : Seq(EntryRec) \cup [1 .. Slots -> EntryRec]]
\* A block that is to be written.
RunBlock == [lba : Int, content : Contents]

\* A sequence of blocks: each in its own place, block 0 the last.
Ordered(r) ==
    /\ r \in Seq(RunBlock) /\ Len(r) >= 1
    /\ \A i \in 1 .. Len(r) : r[i].lba \in Nat /\ (r[i].lba = 0 <=> i = Len(r))
    /\ \A i, k \in 1 .. Len(r) : r[i].lba = r[k].lba => i = k
    /\ \A i \in 1 .. Len(r) - 1 : Inner(r[i].content)
    /\ Boot(r[Len(r)].content)

\* A record for one partition and the next record.
LEMMA RecordOfTwo ==
  ASSUME NEW a \in EntryRec, NEW b \in EntryRec, a.kind \in {"empty", "linux"},
         b.kind \in {"empty", "extended"}, a.kind = "empty" => b.kind = "empty"
  PROVE  Record(<<a, b>>) \in Contents /\ Inner(Record(<<a, b>>))
<1>1. <<a, b>> \in Seq(EntryRec) /\ Len(<<a, b>>) = 2 /\ <<a, b>>[1] = a /\ <<a, b>>[2] = b
  OBVIOUS
<1>2. EbrEntries(<<a, b>>) BY <1>1 DEF EbrEntries
<1>3. Inner(Record(<<a, b>>)) BY <1>2 DEF Inner
<1>4. Record(<<a, b>>) \in Contents BY <1>1 DEF Record, Contents
<1> QED BY <1>3, <1>4

\* An entry of a record.
LEMMA EntryIs ==
  ASSUME NEW kind \in EntryKinds, NEW start \in Int, NEW len \in Int
  PROVE  Entry(kind, start, len) \in EntryRec /\ Entry(kind, start, len).kind = kind
  BY DEF Entry, EntryRec

\* The extended boot records of an MBR: how many, and the k-th one.
LEMMA EbrRun ==
  ASSUME NEW t, MbrOK(t)
  PROVE  LET r == EbrRecords(t)
             x == Extended(t.entries)
             l == t.logical
         IN  /\ r \in Seq(RunBlock)
             /\ ExtendedSlots(t.entries) = {} => r = <<>> /\ Len(r) = 0
             /\ ExtendedSlots(t.entries) # {} /\ l = <<>> =>
                  Len(r) = 1 /\ r[1] = Block(x.start, Record(<<Empty, Empty>>))
             /\ ExtendedSlots(t.entries) # {} /\ l # <<>> =>
                  Len(r) = Len(l) /\ \A k \in 1 .. Len(l) :
                      r[k].lba = l[k].ebr /\ r[k].content = EbrRecord(l, k, x.start).content
             /\ \A k \in 1 .. Len(r) : Inner(r[k].content)
<1> DEFINE r == EbrRecords(t)
           x == Extended(t.entries)
           l == t.logical
<1>e. Empty \in EntryRec /\ Empty.kind = "empty"
  BY EntryIs DEF Empty, EntryKinds
<1>1. CASE ExtendedSlots(t.entries) = {}
  <2>1. r = <<>> BY <1>1 DEF EbrRecords
  <2>2. Len(<<>>) = 0 /\ <<>> \in Seq(RunBlock) OBVIOUS
  <2> QED BY <2>1, <2>2, <1>1
<1>2. CASE ExtendedSlots(t.entries) # {}
  <2>0. x \in EntryRec /\ x.start \in Int
    <3>1. x \in EntryRec BY <1>2, ExtendedEntry DEF MbrOK
    <3> QED BY <3>1 DEF EntryRec
  <2>1. CASE l = <<>>
    <3> DEFINE c == Record(<<Empty, Empty>>)
    <3>1. r = <<Block(x.start, c)>> BY <1>2, <2>1 DEF EbrRecords
    <3>2. c \in Contents /\ Inner(c) BY <1>e, RecordOfTwo
    <3> HIDE DEF c
    <3>3. Block(x.start, c) \in RunBlock /\ Block(x.start, c).content = c
      BY <3>2, <2>0 DEF Block, RunBlock
    <3>4. r \in Seq(RunBlock) /\ Len(r) = 1 /\ r[1] = Block(x.start, c) BY <3>1, <3>3
    <3>5. \A k \in 1 .. Len(r) : Inner(r[k].content) BY <3>4, <3>3, <3>2
    <3> QED BY <3>4, <3>5, <1>2, <2>1 DEF c
  <2>2. CASE l # <<>>
    <3>1. l \in Seq(LogicalRec) /\ Linked(l, x) BY <1>2 DEF MbrOK
    <3>2. r = [k \in DOMAIN l |-> EbrRecord(l, k, x.start)] BY <1>2, <2>2 DEF EbrRecords
    <3>3. DOMAIN l = 1 .. Len(l) /\ Len(l) \in Nat BY <3>1
    <3>i. \A k \in 1 .. Len(l) : l[k].ebr \in Int /\ l[k].start \in Int /\ l[k].len \in Int
      <4>1. \A k \in 1 .. Len(l) : l[k] \in LogicalRec BY <3>1
      <4> QED BY <4>1 DEF LogicalRec
    <3>4. ASSUME NEW k \in 1 .. Len(l)
          PROVE  LET e == EbrRecord(l, k, x.start)
                 IN  e \in RunBlock /\ e.lba = l[k].ebr /\ Inner(e.content)
      <4> DEFINE ebr == IF k = 1 THEN x.start ELSE l[k].ebr
                 a == Entry("linux", l[k].start - ebr, l[k].len)
                 b == Link(l, k, x.start)
      <4>1. ebr = l[k].ebr BY <2>2, <3>1 DEF Linked
      <4>2. EbrRecord(l, k, x.start) = Block(ebr, Record(<<a, b>>)) BY DEF EbrRecord
      <4>3. ebr \in Int /\ l[k].start \in Int /\ l[k].len \in Int BY <4>1, <3>i
      <4>4. l[k].start - ebr \in Int
        <5> HIDE DEF ebr
        <5> QED BY <4>3
      <4>5. a \in EntryRec /\ a.kind = "linux" BY <4>3, <4>4, EntryIs, SMTT(30) DEF EntryKinds
      <4>6. b \in EntryRec /\ b.kind \in {"empty", "extended"}
        <5>1. CASE k = Len(l) BY <5>1, <1>e DEF Link
        <5>2. CASE k # Len(l)
          <6>1. k + 1 \in 1 .. Len(l) BY <5>2, <3>3
          <6>2. /\ l[k + 1].ebr - x.start \in Int
                /\ l[k + 1].start + l[k + 1].len - l[k + 1].ebr \in Int
            BY <6>1, <3>i, <2>0, SMTT(30)
          <6>3. b = Entry("extended", l[k + 1].ebr - x.start,
                          l[k + 1].start + l[k + 1].len - l[k + 1].ebr)
            BY <5>2 DEF Link
          <6> QED BY <6>2, <6>3, EntryIs DEF EntryKinds
        <5> QED BY <5>1, <5>2
      <4> HIDE DEF a, b, ebr
      <4>7. Record(<<a, b>>) \in Contents /\ Inner(Record(<<a, b>>))
        BY <4>5, <4>6, RecordOfTwo
      <4> QED BY <4>1, <4>2, <4>3, <4>7 DEF Block, RunBlock
    <3>5. \A k \in 1 .. Len(l) : r[k] = EbrRecord(l, k, x.start) BY <3>2, <3>3
    <3>6. r \in Seq(RunBlock) /\ Len(r) = Len(l)
      <4> HIDE DEF r
      <4>1. r = [k \in 1 .. Len(l) |-> EbrRecord(l, k, x.start)] BY <3>2, <3>3
      <4>2. \A k \in 1 .. Len(l) : EbrRecord(l, k, x.start) \in RunBlock BY <3>4
      <4> QED BY <4>1, <4>2, <3>3
    <3> HIDE DEF r
    <3>7. \A k \in 1 .. Len(r) : Inner(r[k].content) BY <3>4, <3>5, <3>6
    <3>8. \A k \in 1 .. Len(l) :
              r[k].lba = l[k].ebr /\ r[k].content = EbrRecord(l, k, x.start).content
      BY <3>4, <3>5
    <3> QED BY <3>6, <3>7, <3>8, <1>2, <2>2 DEF r
  <2> QED BY <2>1, <2>2
<1> QED BY <1>1, <1>2

\* An Append, index by index.
LEMMA AppendIs ==
  ASSUME NEW S, NEW s \in Seq(S), NEW e \in S
  PROVE  /\ Append(s, e) \in Seq(S) /\ Len(Append(s, e)) = Len(s) + 1
         /\ \A i \in 1 .. Len(s) : Append(s, e)[i] = s[i]
         /\ Append(s, e)[Len(s) + 1] = e
  OBVIOUS

\* The block 0 of an MBR.
LEMMA MbrBoot ==
  ASSUME NEW t, MbrOK(t)
  PROVE  /\ Block(0, Record(t.entries)) \in RunBlock /\ Boot(Record(t.entries))
         /\ Block(0, Record(t.entries)).lba = 0
         /\ Block(0, Record(t.entries)).content = Record(t.entries)
<1>1. t.entries \in [1 .. Slots -> EntryRec] /\ MbrEntries(t.entries) BY DEF MbrOK, MbrEntries
<1>2. Record(t.entries) \in Contents BY <1>1 DEF Record, Contents
<1>3. Boot(Record(t.entries)) BY <1>1 DEF Boot
<1> QED BY <1>2, <1>3 DEF Block, RunBlock

\* The blocks of an MBR are in their own places, block 0 the last.
LEMMA MbrOrdered ==
  ASSUME NEW t, MbrOK(t)
  PROVE  /\ Ordered(Runs(t))
         /\ Len(Runs(t)) = Len(EbrRecords(t)) + 1 /\ Len(EbrRecords(t)) \in Nat
         /\ \A i \in 1 .. Len(EbrRecords(t)) : Runs(t)[i] = EbrRecords(t)[i]
         /\ Runs(t)[Len(Runs(t))].content = Record(t.entries)
<1> DEFINE r == Runs(t)
           e == EbrRecords(t)
           x == Extended(t.entries)
           l == t.logical
           b == Block(0, Record(t.entries))
<1>1. r = Append(e, b) BY DEF MbrOK, Runs
<1>2. e \in Seq(RunBlock) /\ \A k \in 1 .. Len(e) : Inner(e[k].content) BY EbrRun
<1>3. b \in RunBlock /\ Boot(b.content) /\ b.lba = 0 /\ b.content = Record(t.entries)
  BY MbrBoot
<1>4. \A i \in 1 .. Len(e) : e[i].lba \in Nat /\ e[i].lba # 0
  <2>1. CASE ExtendedSlots(t.entries) = {}
    <3>1. Len(e) = 0 BY <2>1, EbrRun
    <3> QED BY <3>1
  <2>2. CASE ExtendedSlots(t.entries) # {}
    <3>1. x \in EntryRec /\ x.start > 0 BY <2>2, ExtendedEntry DEF MbrOK
    <3>2. x.start \in Int /\ x.start > 0 BY <3>1 DEF EntryRec
    <3>3. CASE l = <<>>
      <4>0. Len(e) = 1 /\ e[1] = Block(x.start, Record(<<Empty, Empty>>)) BY <2>2, <3>3, EbrRun
      <4>1. e[1].lba = x.start BY <4>0 DEF Block
      <4> HIDE DEF e
      <4> QED BY <4>0, <4>1, <3>2
    <3>4. CASE l # <<>>
      <4>1. Len(e) = Len(l) /\ \A k \in 1 .. Len(l) : e[k].lba = l[k].ebr
        BY <2>2, <3>4, EbrRun
      <4>2. Linked(l, x) /\ l \in Seq(LogicalRec) BY <2>2 DEF MbrOK
      <4>3. \A k \in 1 .. Len(l) : l[k].ebr \in Int /\ l[k].ebr >= x.start
        <5>1. \A k \in 1 .. Len(l) : l[k] \in LogicalRec BY <4>2
        <5> QED BY <5>1, <4>2 DEF LogicalRec, Linked
      <4> HIDE DEF e, l, x
      <4> QED BY <4>1, <4>3, <3>2
    <3> QED BY <3>3, <3>4
  <2> QED BY <2>1, <2>2
<1>5. \A i, k \in 1 .. Len(e) : e[i].lba = e[k].lba => i = k
  <2>1. CASE ExtendedSlots(t.entries) = {}
    <3>1. Len(e) = 0 BY <2>1, EbrRun
    <3> QED BY <3>1
  <2>2. CASE ExtendedSlots(t.entries) # {} /\ l = <<>>
    <3>1. Len(e) = 1 BY <2>2, EbrRun
    <3> QED BY <3>1
  <2>3. CASE ExtendedSlots(t.entries) # {} /\ l # <<>>
    <3>1. Len(e) = Len(l) /\ \A k \in 1 .. Len(l) : e[k].lba = l[k].ebr
      BY <2>3, EbrRun
    <3>2. Linked(l, x) /\ l \in Seq(LogicalRec) BY <2>3 DEF MbrOK
    <3>3. Len(l) \in Nat /\ \A k \in 1 .. Len(l) : l[k].ebr \in Int
      <4>1. \A k \in 1 .. Len(l) : l[k] \in LogicalRec BY <3>2
      <4> QED BY <4>1, <3>2 DEF LogicalRec
    <3>4. \A i, k \in 1 .. Len(l) : i < k => l[i].ebr < l[k].ebr BY <3>2 DEF Linked
    <3> HIDE DEF e, l, x
    <3> TAKE i, k \in 1 .. Len(e)
    <3> HAVE e[i].lba = e[k].lba
    <3>5. ~(i < k) /\ ~(k < i) BY <3>1, <3>3, <3>4
    <3>6. i \in Int /\ k \in Int BY <3>1, <3>3
    <3> QED BY <3>5, <3>6
  <2> QED BY <2>1, <2>2, <2>3
<1> HIDE DEF e, b, r
<1>6. Len(e) \in Nat BY <1>2
<1>7. /\ r \in Seq(RunBlock) /\ Len(r) = Len(e) + 1 /\ \A i \in 1 .. Len(e) : r[i] = e[i]
      /\ r[Len(e) + 1] = b
  BY <1>1, <1>2, <1>3, AppendIs
<1>8. \A i \in 1 .. Len(r) : r[i].lba \in Nat /\ (r[i].lba = 0 <=> i = Len(r))
  <2> TAKE i \in 1 .. Len(r)
  <2>1. CASE i = Len(r) BY <2>1, <1>3, <1>7
  <2>2. CASE i # Len(r)
    <3>1. i \in 1 .. Len(e) BY <2>2, <1>6, <1>7
    <3> QED BY <3>1, <2>2, <1>4, <1>7
  <2> QED BY <2>1, <2>2
<1>9. \A i, k \in 1 .. Len(r) : r[i].lba = r[k].lba => i = k
  <2> TAKE i, k \in 1 .. Len(r)
  <2> HAVE r[i].lba = r[k].lba
  <2>1. CASE i = Len(r) BY <2>1, <1>8
  <2>2. CASE k = Len(r) BY <2>2, <1>8
  <2>3. CASE i # Len(r) /\ k # Len(r)
    <3>1. i \in 1 .. Len(e) /\ k \in 1 .. Len(e) BY <2>3, <1>6, <1>7
    <3> QED BY <3>1, <1>5, <1>7
  <2> QED BY <2>1, <2>2, <2>3
<1>10. \A i \in 1 .. Len(r) - 1 : Inner(r[i].content)
  <2> TAKE i \in 1 .. Len(r) - 1
  <2>1. i \in 1 .. Len(e) BY <1>6, <1>7
  <2> QED BY <2>1, <1>2, <1>7
<1>11. Ordered(r) BY <1>3, <1>6, <1>7, <1>8, <1>9, <1>10 DEF Ordered
<1> QED BY <1>3, <1>6, <1>7, <1>11 DEF r, e

\* Four sequences in a row.
InRow(r, a, b, c, e) ==
    /\ Len(r) = Len(a) + Len(b) + Len(c) + Len(e)
    /\ \A i \in 1 .. Len(a) : r[i] = a[i]
    /\ \A i \in 1 .. Len(b) : r[Len(a) + i] = b[i]
    /\ \A i \in 1 .. Len(c) : r[Len(a) + Len(b) + i] = c[i]
    /\ \A i \in 1 .. Len(e) : r[Len(a) + Len(b) + Len(c) + i] = e[i]

\* Which they are when concatenated.
LEMMA FourParts ==
  ASSUME NEW S, NEW a \in Seq(S), NEW b \in Seq(S), NEW c \in Seq(S), NEW e \in Seq(S),
         NEW r, r = a \o b \o c \o e
  PROVE  r \in Seq(S) /\ InRow(r, a, b, c, e)
<1> DEFINE p == a \o b
           q == p \o c
<1>r. r = q \o e OBVIOUS
<1>0. Len(a) \in Nat /\ Len(b) \in Nat /\ Len(c) \in Nat /\ Len(e) \in Nat OBVIOUS
<1>1. /\ p \in Seq(S) /\ Len(p) = Len(a) + Len(b)
      /\ \A i \in 1 .. Len(a) : p[i] = a[i]
      /\ \A i \in 1 .. Len(b) : p[Len(a) + i] = b[i]
  OBVIOUS
<1> HIDE DEF p
<1>2. /\ q \in Seq(S) /\ Len(q) = Len(p) + Len(c)
      /\ \A i \in 1 .. Len(p) : q[i] = p[i]
      /\ \A i \in 1 .. Len(c) : q[Len(p) + i] = c[i]
  <2>1. p \in Seq(S) BY <1>1
  <2> QED BY <2>1
<1> HIDE DEF q
<1>3. /\ r \in Seq(S) /\ Len(r) = Len(q) + Len(e)
      /\ \A i \in 1 .. Len(q) : r[i] = q[i]
      /\ \A i \in 1 .. Len(e) : r[Len(q) + i] = e[i]
  <2>1. q \in Seq(S) BY <1>2
  <2> QED BY <2>1, <1>r
<1>4. Len(r) = Len(a) + Len(b) + Len(c) + Len(e) BY <1>0, <1>1, <1>2, <1>3
<1>5. ASSUME NEW i \in 1 .. Len(a) PROVE r[i] = a[i]
  <2>1. i \in 1 .. Len(p) /\ i \in 1 .. Len(q) BY <1>0, <1>1, <1>2
  <2> QED BY <2>1, <1>1, <1>2, <1>3
<1>6. ASSUME NEW i \in 1 .. Len(b) PROVE r[Len(a) + i] = b[i]
  <2>1. Len(a) + i \in 1 .. Len(p) /\ Len(a) + i \in 1 .. Len(q) BY <1>0, <1>1, <1>2
  <2> QED BY <2>1, <1>1, <1>2, <1>3
<1>7. ASSUME NEW i \in 1 .. Len(c) PROVE r[Len(a) + Len(b) + i] = c[i]
  <2>1. Len(p) + i \in 1 .. Len(q) BY <1>0, <1>1, <1>2
  <2>2. r[Len(p) + i] = c[i] BY <2>1, <1>2, <1>3
  <2> QED BY <2>2, <1>1
<1>8. ASSUME NEW i \in 1 .. Len(e) PROVE r[Len(a) + Len(b) + Len(c) + i] = e[i]
  <2>1. r[Len(q) + i] = e[i] BY <1>3
  <2>2. Len(q) = Len(a) + Len(b) + Len(c) BY <1>1, <1>2
  <2> QED BY <2>1, <2>2
<1> QED BY <1>3, <1>4, <1>5, <1>6, <1>7, <1>8 DEF InRow

\* The runs of a GPT: the backup array and header, the primary array and header.
LEMMA GptRun ==
  ASSUME NEW g, GptOK(g), NEW n \in Int, Fits(g, n)
  PROVE  LET r == GptRuns(g)
             c == Len(g.entries)
             Item(i) == [is |-> "entry", entry |-> g.entries[i]]
         IN  /\ r \in Seq(RunBlock) /\ Len(r) = 2 * c + 2 /\ c \in Nat
             /\ \A i \in 1 .. c : r[i] = Block(g.backupArray + i - 1, Item(i))
             /\ r[c + 1] = Block(g.backup, Header(g, g.backup, 1, g.backupArray))
             /\ \A i \in 1 .. c : r[c + 1 + i] = Block(g.primaryArray + i - 1, Item(i))
             /\ r[2 * c + 2] = Block(1, Header(g, 1, g.backup, g.primaryArray))
             /\ GoodHeader(Header(g, g.backup, 1, g.backupArray))
             /\ GoodHeader(Header(g, 1, g.backup, g.primaryArray))
<1> DEFINE r == GptRuns(g)
           es == g.entries
           c == Len(es)
           Item(i) == [is |-> "entry", entry |-> es[i]]
           a1 == ArrayRun(g, g.backupArray)
           h1 == Block(g.backup, Header(g, g.backup, 1, g.backupArray))
           a2 == ArrayRun(g, g.primaryArray)
           h2 == Block(1, Header(g, 1, g.backup, g.primaryArray))
<1>1. /\ g \in GptRec /\ g.first <= g.last + 1 /\ Spread(es, g.first, g.last)
      /\ es \in Seq(Pairs) /\ c \in Nat
  BY DEF GptOK, GptRec
<1>2. /\ g.backup \in Int /\ g.backupArray \in Int /\ g.primaryArray \in Int
      /\ g.first \in Int /\ g.last \in Int
  BY <1>1 DEF GptRec
<1>3. /\ g.primaryArray >= 2 /\ g.primaryArray + c <= g.first /\ g.backupArray > g.last
      /\ g.backupArray + c <= g.backup
  BY DEF Fits
<1>4. g.backup \in Nat /\ g.backupArray \in Nat /\ g.primaryArray \in Nat
  <2>1. c \in Nat /\ g.first <= g.last + 1 BY <1>1
  <2> HIDE DEF c
  <2> QED BY <2>1, <1>2, <1>3
<1>5. ASSUME NEW my \in Nat, NEW alternate \in Nat, NEW array \in Nat
      PROVE  /\ Header(g, my, alternate, array) \in HeaderRec
             /\ GoodHeader(Header(g, my, alternate, array))
  BY <1>1, <1>2 DEF Header, HeaderRec, GoodHeader
<1>6. ASSUME NEW lba \in Int
      PROVE  LET a == ArrayRun(g, lba)
             IN  /\ a \in Seq(RunBlock) /\ Len(a) = c
                 /\ \A i \in 1 .. c : a[i] = Block(lba + i - 1, Item(i))
  <2>1. ArrayRun(g, lba) = [i \in 1 .. c |-> Block(lba + i - 1, Item(i))]
    BY <1>1 DEF ArrayRun
  <2>2. \A i \in 1 .. c : Block(lba + i - 1, Item(i)) \in RunBlock
    <3> TAKE i \in 1 .. c
    <3>1. es[i] \in Pairs BY <1>1
    <3>2. Item(i) \in Contents BY <3>1 DEF Contents
    <3>3. lba + i - 1 \in Int BY <1>1
    <3> HIDE DEF Item
    <3> QED BY <3>2, <3>3 DEF Block, RunBlock
  <2> DEFINE f == [i \in 1 .. c |-> Block(lba + i - 1, Item(i))]
  <2> HIDE DEF Item, c
  <2>3. f \in Seq(RunBlock) /\ Len(f) = c BY <2>2, <1>1
  <2>4. \A i \in 1 .. c : f[i] = Block(lba + i - 1, Item(i)) OBVIOUS
  <2> HIDE DEF f
  <2>5. ArrayRun(g, lba) = f BY <2>1 DEF f
  <2> QED BY <2>3, <2>4, <2>5
<1>7. ASSUME NEW h \in RunBlock PROVE <<h>> \in Seq(RunBlock) /\ Len(<<h>>) = 1 /\ <<h>>[1] = h
  OBVIOUS
<1>8. h1 \in RunBlock /\ h2 \in RunBlock
  <2>1. \A h \in HeaderRec : h \in Contents BY DEF Contents
  <2> QED BY <2>1, <1>4, <1>5 DEF Block, RunBlock
<1>9. r = a1 \o <<h1>> \o a2 \o <<h2>> BY DEF GptRuns
<1>10. /\ a1 \in Seq(RunBlock) /\ Len(a1) = c /\ a2 \in Seq(RunBlock) /\ Len(a2) = c
       /\ \A i \in 1 .. c : a1[i] = Block(g.backupArray + i - 1, Item(i))
       /\ \A i \in 1 .. c : a2[i] = Block(g.primaryArray + i - 1, Item(i))
  BY <1>6, <1>2
<1>11. GoodHeader(Header(g, g.backup, 1, g.backupArray))
         /\ GoodHeader(Header(g, 1, g.backup, g.primaryArray))
  BY <1>4, <1>5
<1> HIDE DEF r, a1, a2, h1, h2, Item
<1>12. /\ r \in Seq(RunBlock) /\ Len(r) = Len(a1) + Len(<<h1>>) + Len(a2) + Len(<<h2>>)
       /\ \A i \in 1 .. Len(a1) : r[i] = a1[i]
       /\ \A i \in 1 .. Len(<<h1>>) : r[Len(a1) + i] = <<h1>>[i]
       /\ \A i \in 1 .. Len(a2) : r[Len(a1) + Len(<<h1>>) + i] = a2[i]
       /\ \A i \in 1 .. Len(<<h2>>) : r[Len(a1) + Len(<<h1>>) + Len(a2) + i] = <<h2>>[i]
  <2> DEFINE s1 == <<h1>>
             s2 == <<h2>>
  <2>1. s1 \in Seq(RunBlock) /\ s2 \in Seq(RunBlock) BY <1>7, <1>8
  <2>2. r = a1 \o s1 \o a2 \o s2 BY <1>9
  <2>3. a1 \in Seq(RunBlock) /\ a2 \in Seq(RunBlock) BY <1>10
  <2> HIDE DEF s1, s2
  <2>4. r \in Seq(RunBlock) /\ InRow(r, a1, s1, a2, s2)
    BY <2>1, <2>2, <2>3, FourParts, Zenon
  <2> QED BY <2>4 DEF s1, s2, InRow
<1>13. /\ Len(r) = 2 * c + 2 /\ r[c + 1] = h1 /\ r[2 * c + 2] = h2
  <2>1. Len(<<h1>>) = 1 /\ <<h1>>[1] = h1 /\ Len(<<h2>>) = 1 /\ <<h2>>[1] = h2 BY <1>7, <1>8
  <2>2. r[Len(a1) + 1] = h1 /\ r[Len(a1) + 1 + Len(a2) + 1] = h2
    BY <2>1, <1>12
  <2>3. Len(a1) + 1 = c + 1 /\ Len(a1) + 1 + Len(a2) + 1 = 2 * c + 2 BY <1>1, <1>10
  <2>4. Len(r) = c + 1 + c + 1 BY <2>1, <1>10, <1>12
  <2> QED BY <2>2, <2>3, <2>4, <1>1
<1>14. /\ \A i \in 1 .. c : r[i] = Block(g.backupArray + i - 1, Item(i))
       /\ \A i \in 1 .. c : r[c + 1 + i] = Block(g.primaryArray + i - 1, Item(i))
  <2>1. Len(<<h1>>) = 1 BY <1>7, <1>8
  <2> QED BY <2>1, <1>10, <1>12
<1> QED BY <1>1, <1>11, <1>12, <1>13, <1>14 DEF r, h1, h2, Item

\* Where the i-th block of a GPT or hybrid goes.
GptLba(g, i) ==
    LET c == Len(g.entries)
    IN  IF i <= c THEN g.backupArray + i - 1
        ELSE IF i = c + 1 THEN g.backup
        ELSE IF i <= 2 * c + 1 THEN g.primaryArray + i - c - 2
        ELSE IF i = 2 * c + 2 THEN 1 ELSE 0

\* No two of them in the same place.
LEMMA GptLbas ==
  ASSUME NEW g, GptOK(g), NEW n \in Int, Fits(g, n)
  PROVE  LET m == 2 * Len(g.entries) + 3
         IN  /\ \A i \in 1 .. m : GptLba(g, i) \in Nat /\ (GptLba(g, i) = 0 <=> i = m)
             /\ \A i, k \in 1 .. m : GptLba(g, i) = GptLba(g, k) => i = k
<1> DEFINE c == Len(g.entries)
           m == 2 * c + 3
           L(i) == GptLba(g, i)
<1>1. /\ g.backup \in Int /\ g.backupArray \in Int /\ g.primaryArray \in Int
      /\ g.first \in Int /\ g.last \in Int /\ c \in Nat /\ g.first <= g.last + 1
  BY DEF GptOK, GptRec
<1>2. /\ g.primaryArray >= 2 /\ g.primaryArray + c <= g.first /\ g.backupArray > g.last
      /\ g.backupArray + c <= g.backup
  BY DEF Fits
<1>3. \A i \in 1 .. m : L(i) = IF i <= c THEN g.backupArray + i - 1
                               ELSE IF i = c + 1 THEN g.backup
                               ELSE IF i <= 2 * c + 1 THEN g.primaryArray + i - c - 2
                               ELSE IF i = 2 * c + 2 THEN 1 ELSE 0
  BY DEF GptLba
<1> HIDE DEF c, L
<1>4. ASSUME NEW i \in 1 .. m
      PROVE  /\ L(i) \in Nat /\ (L(i) = 0 <=> i = m)
             /\ i <= c => L(i) >= g.backupArray /\ L(i) < g.backup
             /\ i > c + 1 /\ i <= 2 * c + 1 => L(i) >= 2 /\ L(i) < g.backupArray
  <2>1. i \in Int /\ i >= 1 /\ i <= 2 * c + 3 BY <1>1
  <2>2. CASE i <= c BY <2>1, <2>2, <1>1, <1>2, <1>3
  <2>3. CASE i = c + 1 BY <2>1, <2>3, <1>1, <1>2, <1>3
  <2>4. CASE i > c + 1 /\ i <= 2 * c + 1 BY <2>1, <2>4, <1>1, <1>2, <1>3
  <2>5. CASE i = 2 * c + 2 BY <2>1, <2>5, <1>1, <1>2, <1>3
  <2>6. CASE i = 2 * c + 3 BY <2>1, <2>6, <1>1, <1>2, <1>3
  <2> QED BY <2>1, <2>2, <2>3, <2>4, <2>5, <2>6, <1>1
<1>5. ASSUME NEW i \in 1 .. m, NEW k \in 1 .. m, L(i) = L(k) PROVE i = k
  <2>1. i \in Int /\ i >= 1 /\ i <= 2 * c + 3 /\ k \in Int /\ k >= 1 /\ k <= 2 * c + 3 BY <1>1
  <2>2. CASE i <= c BY <2>1, <2>2, <1>1, <1>2, <1>3, <1>4, <1>5
  <2>3. CASE i = c + 1 BY <2>1, <2>3, <1>1, <1>2, <1>3, <1>4, <1>5
  <2>4. CASE i > c + 1 /\ i <= 2 * c + 1 BY <2>1, <2>4, <1>1, <1>2, <1>3, <1>4, <1>5
  <2>5. CASE i = 2 * c + 2 BY <2>1, <2>5, <1>1, <1>2, <1>3, <1>4, <1>5
  <2>6. CASE i = 2 * c + 3 BY <2>1, <2>6, <1>1, <1>2, <1>3, <1>4, <1>5
  <2> QED BY <2>1, <2>2, <2>3, <2>4, <2>5, <2>6, <1>1
<1> QED BY <1>4, <1>5 DEF c, L

\* The first partition entries of a table with a GPT.
BootEntries(t) ==
    IF t.kind = "gpt"
    THEN [i \in 1 .. Slots |-> IF i = 1 THEN Entry("protective", 1, t.gpt.blocks - 1) ELSE Empty]
    ELSE t.entries

\* They are protected.
LEMMA GptBoot ==
  ASSUME NEW t, TableOK(t), IsGpt(t)
  PROVE  Protected(BootEntries(t))
<1>0. Slots \in Nat /\ Slots >= 1 BY Constants
<1>1. CASE t.kind = "gpt"
  <2>1. t = [kind |-> "gpt", gpt |-> t.gpt] /\ GptOK(t.gpt)
    BY <1>1 DEF TableOK, MbrOK, NoTable
  <2>2. t.gpt.blocks - 1 \in Int BY <2>1 DEF GptOK, GptRec
  <2> DEFINE a == Entry("protective", 1, t.gpt.blocks - 1)
             es == [i \in 1 .. Slots |-> IF i = 1 THEN a ELSE Empty]
  <2>3. a \in EntryRec /\ a.kind = "protective" /\ Empty \in EntryRec /\ Empty.kind = "empty"
    BY <2>2, EntryIs DEF EntryKinds, Empty
  <2> HIDE DEF a
  <2>4. BootEntries(t) = es BY <1>1 DEF BootEntries, a
  <2>5. es \in [1 .. Slots -> EntryRec] BY <2>3
  <2>6. Protected(es)
    <3>1. \A i \in 1 .. Slots : es[i] = IF i = 1 THEN a ELSE Empty OBVIOUS
    <3> HIDE DEF es
    <3>3. 1 \in 1 .. Slots /\ \A i \in 1 .. Slots : es[i].kind = "protective" <=> i = 1
      BY <3>1, <2>3, <1>0
    <3>4. \A i \in 1 .. Slots : es[i].kind \in {"empty", "linux", "protective"} BY <3>1, <2>3
    <3> QED BY <2>5, <3>3, <3>4, Zenon DEF Protected
  <2> QED BY <2>4, <2>6
<1>2. CASE t.kind = "hybrid"
  <2>1. Protected(t.entries)
    BY <1>2 DEF TableOK, MbrOK, NoTable
  <2> QED BY <2>1, <1>2 DEF BootEntries
<1> QED BY <1>1, <1>2 DEF IsGpt

\* The runs of a GPT or hybrid: the copies, then block 0.
LEMMA GptOrdered ==
  ASSUME NEW t, TableOK(t), IsGpt(t), NEW n \in Int, Fits(t.gpt, n)
  PROVE  LET g == t.gpt
             r == Runs(t)
             c == Len(g.entries)
             Item(i) == [is |-> "entry", entry |-> g.entries[i]]
         IN  /\ GptOK(g) /\ Ordered(r) /\ Len(r) = 2 * c + 3 /\ c \in Nat
             /\ \A i \in 1 .. 2 * c + 3 : r[i].lba = GptLba(g, i)
             /\ \A i \in 1 .. c : r[i].content = Item(i)
             /\ r[c + 1].content = Header(g, g.backup, 1, g.backupArray)
             /\ \A i \in 1 .. c : r[c + 1 + i].content = Item(i)
             /\ r[2 * c + 2].content = Header(g, 1, g.backup, g.primaryArray)
             /\ r[2 * c + 3].content = Record(BootEntries(t))
<1> DEFINE g == t.gpt
           r == Runs(t)
           q == GptRuns(g)
           c == Len(g.entries)
           Item(i) == [is |-> "entry", entry |-> g.entries[i]]
           b == Block(0, Record(BootEntries(t)))
           h1 == Header(g, g.backup, 1, g.backupArray)
           h2 == Header(g, 1, g.backup, g.primaryArray)
<1>1. GptOK(g) BY DEF TableOK, IsGpt, MbrOK, NoTable
<1>2. r = Append(q, b) BY DEF IsGpt, Runs, BootEntries
<1>3. /\ q \in Seq(RunBlock) /\ Len(q) = 2 * c + 2 /\ c \in Nat
      /\ \A i \in 1 .. c : q[i] = Block(g.backupArray + i - 1, Item(i))
      /\ q[c + 1] = Block(g.backup, h1)
      /\ \A i \in 1 .. c : q[c + 1 + i] = Block(g.primaryArray + i - 1, Item(i))
      /\ q[2 * c + 2] = Block(1, h2)
      /\ GoodHeader(h1) /\ GoodHeader(h2)
  BY <1>1, GptRun
<1>4. /\ b \in RunBlock /\ Boot(b.content) /\ b.lba = 0 /\ b.content = Record(BootEntries(t))
  <2> DEFINE es == BootEntries(t)
  <2>1. Protected(es) /\ es \in [1 .. Slots -> EntryRec] BY GptBoot DEF Protected
  <2> HIDE DEF es
  <2>2. Record(es) \in Contents BY <2>1 DEF Record, Contents
  <2>3. Boot(Record(es)) BY <2>1 DEF Boot
  <2> QED BY <2>2, <2>3 DEF Block, RunBlock, es
<1> HIDE DEF q, b, r
<1>5. /\ r \in Seq(RunBlock) /\ Len(r) = 2 * c + 3
      /\ \A i \in 1 .. 2 * c + 2 : r[i] = q[i]
      /\ r[2 * c + 3] = b
  <2>1. /\ r \in Seq(RunBlock) /\ Len(r) = Len(q) + 1 /\ \A i \in 1 .. Len(q) : r[i] = q[i]
        /\ r[Len(q) + 1] = b
    <3>1. q \in Seq(RunBlock) /\ b \in RunBlock BY <1>3, <1>4
    <3> QED BY <3>1, <1>2, AppendIs
  <2>2. 2 * c + 2 + 1 = 2 * c + 3 BY <1>3
  <2> QED BY <2>1, <2>2, <1>3
<1> HIDE DEF Item, h1, h2
<1>6. ASSUME NEW i \in 1 .. c
      PROVE  /\ r[i].content = Item(i) /\ r[i].lba = g.backupArray + i - 1
             /\ r[c + 1 + i].content = Item(i) /\ r[c + 1 + i].lba = g.primaryArray + i - 1
  <2>1. i \in 1 .. 2 * c + 2 /\ c + 1 + i \in 1 .. 2 * c + 2 BY <1>3
  <2>2. r[i] = Block(g.backupArray + i - 1, Item(i))
          /\ r[c + 1 + i] = Block(g.primaryArray + i - 1, Item(i))
    BY <2>1, <1>3, <1>5
  <2> QED BY <2>2 DEF Block
<1>7. /\ r[c + 1].content = h1 /\ r[c + 1].lba = g.backup
      /\ r[2 * c + 2].content = h2 /\ r[2 * c + 2].lba = 1
  <2>1. c + 1 \in 1 .. 2 * c + 2 /\ 2 * c + 2 \in 1 .. 2 * c + 2 BY <1>3
  <2>2. r[c + 1] = Block(g.backup, h1) /\ r[2 * c + 2] = Block(1, h2) BY <2>1, <1>3, <1>5
  <2> QED BY <2>2 DEF Block
<1>c. c \in Nat /\ Len(r) = 2 * c + 3 BY <1>3, <1>5
<1>0. r[2 * c + 3].lba = 0 BY <1>4, <1>5
<1>l. \A i : GptLba(g, i) = IF i <= c THEN g.backupArray + i - 1
                             ELSE IF i = c + 1 THEN g.backup
                             ELSE IF i <= 2 * c + 1 THEN g.primaryArray + i - c - 2
                             ELSE IF i = 2 * c + 2 THEN 1 ELSE 0
  BY DEF GptLba
<1>h. GoodHeader(h1) /\ GoodHeader(h2) BY <1>3
<1>d. \A i \in Int : i > c + 1 /\ i <= 2 * c + 1 => i - c - 1 \in 1 .. c /\ i = c + 1 + (i - c - 1)
  <2> HIDE DEF c
  <2> QED BY <1>c
<1> HIDE DEF c
<1>8. ASSUME NEW i \in 1 .. 2 * c + 3 PROVE r[i].lba = GptLba(g, i)
  <2>0. i \in Int /\ i >= 1 /\ i <= 2 * c + 3 BY <1>c
  <2>1. CASE i <= c
    <3>1. i \in 1 .. c BY <2>0, <2>1, <1>c
    <3> QED BY <3>1, <2>1, <1>6, <1>l
  <2>2. CASE i = c + 1 BY <2>2, <1>c, <1>7, <1>l
  <2>3. CASE i > c + 1 /\ i <= 2 * c + 1
    <3> DEFINE j == i - c - 1
    <3>1. j \in 1 .. c /\ i = c + 1 + j BY <2>0, <2>3, <1>d
    <3>2. r[i].lba = g.primaryArray + j - 1 BY <3>1, <1>6
    <3>3. g.primaryArray \in Int BY <1>1 DEF GptOK, GptRec
    <3>4. g.primaryArray + j - 1 = g.primaryArray + i - c - 2 BY <3>3, <2>0, <1>3
    <3>5. ~(i <= c) /\ i # c + 1 BY <2>0, <2>3, <1>c
    <3> QED BY <3>2, <3>4, <3>5, <2>3, <1>l
  <2>4. CASE i = 2 * c + 2
    <3>1. ~(i <= c) /\ i # c + 1 /\ ~(i <= 2 * c + 1) BY <2>4, <1>c
    <3> QED BY <3>1, <2>4, <1>7, <1>l
  <2>5. CASE i = 2 * c + 3
    <3>1. ~(i <= c) /\ i # c + 1 /\ ~(i <= 2 * c + 1) /\ i # 2 * c + 2 BY <2>5, <1>c
    <3> QED BY <3>1, <2>5, <1>0, <1>l
  <2> QED BY <2>0, <2>1, <2>2, <2>3, <2>4, <2>5, <1>c
<1>9. ASSUME NEW i \in 1 .. Len(r) - 1 PROVE Inner(r[i].content)
  <2>0. i \in Int /\ i >= 1 /\ i <= 2 * c + 2 BY <1>c
  <2>1. CASE i <= c
    <3>1. i \in 1 .. c BY <2>0, <2>1, <1>c
    <3> QED BY <3>1, <1>6 DEF Inner, Item
  <2>2. CASE i = c + 1 BY <2>2, <1>7, <1>h DEF Inner
  <2>3. CASE i > c + 1 /\ i <= 2 * c + 1
    <3> DEFINE j == i - c - 1
    <3>1. j \in 1 .. c /\ i = c + 1 + j BY <2>0, <2>3, <1>d
    <3>2. r[i].content = Item(j)
      <4> HIDE DEF j
      <4> QED BY <3>1, <1>6
    <3> QED BY <3>2 DEF Inner, Item
  <2>4. CASE i = 2 * c + 2 BY <2>4, <1>7, <1>h DEF Inner
  <2> QED BY <2>0, <2>1, <2>2, <2>3, <2>4, <1>c
<1>10. Ordered(r)
  <2>1. /\ \A i \in 1 .. 2 * c + 3 : GptLba(g, i) \in Nat /\ (GptLba(g, i) = 0 <=> i = 2 * c + 3)
        /\ \A i, k \in 1 .. 2 * c + 3 : GptLba(g, i) = GptLba(g, k) => i = k
    BY <1>1, GptLbas DEF c
  <2>2. /\ \A i \in 1 .. Len(r) : r[i].lba \in Nat /\ (r[i].lba = 0 <=> i = Len(r))
        /\ \A i, k \in 1 .. Len(r) : r[i].lba = r[k].lba => i = k
    <3> DEFINE m == 2 * c + 3
    <3>1. Len(r) = m BY <1>c
    <3>2. \A i \in 1 .. m : r[i].lba = GptLba(g, i) BY <1>8
    <3> HIDE DEF m, r, c
    <3>3. \A i \in 1 .. Len(r) : r[i].lba \in Nat /\ (r[i].lba = 0 <=> i = Len(r))
      BY <2>1, <3>1, <3>2 DEF m
    <3>4. \A i, k \in 1 .. Len(r) : r[i].lba = r[k].lba => i = k
      BY <2>1, <3>1, <3>2 DEF m
    <3> QED BY <3>3, <3>4
  <2>3. Len(r) >= 1 BY <1>c
  <2>4. Boot(r[Len(r)].content) BY <1>4, <1>5
  <2> QED BY <2>2, <2>3, <2>4, <1>5, <1>9 DEF Ordered
<1>11. r[2 * c + 3].content = Record(BootEntries(t)) BY <1>4, <1>5
<1> QED BY <1>1, <1>3, <1>5, <1>6, <1>7, <1>8, <1>10, <1>11, <1>c DEF r, Item, h1, h2, c

-----------------------------------------------------------------------------
(* Reading what was written. *)

\* The first k blocks of r are on the device.
OnDisk(d, n, r, k) == \A i \in 1 .. k : r[i].lba < n /\ d[r[i].lba] = r[i].content

\* The kinds of entries in block 0.
LEMMA BootKinds ==
  ASSUME NEW es
  PROVE  /\ Record(es).is = "record" /\ Record(es).entries = es
         /\ MbrEntries(es) => "protective" \notin Kinds(Record(es))
         /\ Protected(es) => /\ "protective" \in Kinds(Record(es))
                             /\ Kinds(Record(es)) = {"protective"}
                                  <=> \A i \in 1 .. Slots : es[i].kind # "linux"
<1>1. Record(es).is = "record" /\ Record(es).entries = es BY DEF Record
<1>2. ASSUME MbrEntries(es) PROVE "protective" \notin Kinds(Record(es))
  <2>1. DOMAIN es = 1 .. Slots BY <1>2 DEF MbrEntries
  <2> QED BY <2>1, <1>1, <1>2 DEF MbrEntries, Kinds
<1>3. ASSUME Protected(es)
      PROVE  /\ "protective" \in Kinds(Record(es))
             /\ Kinds(Record(es)) = {"protective"} <=> \A i \in 1 .. Slots : es[i].kind # "linux"
  <2>1. DOMAIN es = 1 .. Slots BY <1>3 DEF Protected
  <2>2. Kinds(Record(es)) = {es[i].kind : i \in 1 .. Slots} \ {"empty"}
    BY <2>1, <1>1 DEF Kinds
  <2>3. \A i \in 1 .. Slots : es[i].kind \in {"empty", "linux", "protective"}
    BY <1>3 DEF Protected
  <2>4. PICK p \in 1 .. Slots : es[p].kind = "protective" BY <1>3 DEF Protected
  <2>5. "protective" \in Kinds(Record(es)) BY <2>2, <2>4
  <2>6. ASSUME \A i \in 1 .. Slots : es[i].kind # "linux"
        PROVE  Kinds(Record(es)) = {"protective"}
    <3>1. \A k \in Kinds(Record(es)) : k = "protective" BY <2>2, <2>3, <2>6
    <3> QED BY <3>1, <2>5, Zenon
  <2>7. ASSUME NEW i \in 1 .. Slots, es[i].kind = "linux"
        PROVE  Kinds(Record(es)) # {"protective"}
    <3>1. "linux" \in Kinds(Record(es)) BY <2>2, <2>7
    <3> QED BY <3>1
  <2> QED BY <2>5, <2>6, <2>7
<1> QED BY <1>1, <1>2, <1>3

\* An MBR that is on the device is read as it was written.
LEMMA MbrReads ==
  ASSUME NEW t, MbrOK(t), NEW d, NEW n \in Nat,
         OnDisk(d, n, EbrRecords(t), Len(EbrRecords(t))), d[0] = Record(t.entries)
  PROVE  ReadFrom(d, n) = [t EXCEPT !.blocks = n]
<1> DEFINE es == t.entries
           x == Extended(es)
           l == t.logical
           e == EbrRecords(t)
           walk == IF ExtendedSlots(es) = {} THEN [found |-> <<>>, state |-> "end"]
                   ELSE WalkEbr(d, n, x)
<1>1. /\ t \in [kind : {"mbr"}, blocks : Int, entries : [1 .. Slots -> EntryRec],
               logical : Seq(LogicalRec)]
      /\ MbrEntries(es) /\ l \in Seq(LogicalRec) /\ Len(l) <= MaxLogical
      /\ l # <<>> => ExtendedSlots(es) # {}
  BY DEF MbrOK, Logicals
<1>2. walk.state = "end" /\ walk.found = l
  <2>1. CASE ExtendedSlots(es) = {}
    BY <2>1, <1>1
  <2>2. CASE ExtendedSlots(es) # {}
    <3>1. x \in EntryRec /\ x.start > 0 BY <2>2, <1>1, ExtendedEntry
    <3>2. x.len > 0 /\ Linked(l, x) BY <2>2 DEF MbrOK
    <3>3. Chained(d, n, l, x)
      <4>1. CASE l = <<>>
        <5>1. Len(e) = 1 /\ e[1] = Block(x.start, Record(<<Empty, Empty>>))
          BY <2>2, <4>1, EbrRun
        <5>2. e[1].lba < n /\ d[e[1].lba] = e[1].content BY <5>1 DEF OnDisk
        <5> QED BY <5>1, <5>2, <4>1 DEF Chained, Block
      <4>2. CASE l # <<>>
        <5>1. Len(e) = Len(l) /\ \A k \in 1 .. Len(l) :
                 e[k].lba = l[k].ebr /\ e[k].content = EbrRecord(l, k, x.start).content
          BY <2>2, <4>2, EbrRun
        <5>2. \A k \in 1 .. Len(l) : e[k].lba < n /\ d[e[k].lba] = e[k].content
          BY <5>1 DEF OnDisk
        <5>3. \A k \in 1 .. Len(l) :
                l[k].ebr < n /\ d[l[k].ebr] = EbrRecord(l, k, x.start).content
          BY <5>1, <5>2
        <5> QED BY <5>3, <4>2 DEF Chained
      <4> QED BY <4>1, <4>2
    <3>4. WalkEbr(d, n, x).state = "end" /\ WalkEbr(d, n, x).found = l
      BY <3>1, <3>2, <3>3, <1>1, WalkFindsAll
    <3> QED BY <3>4, <2>2
  <2> QED BY <2>1, <2>2
<1>3. d[0].is = "record" /\ d[0].entries = es /\ "protective" \notin Kinds(d[0])
  BY <1>1, BootKinds
<1> HIDE DEF walk
<1>4. ReadFrom(d, n) = [kind |-> "mbr", blocks |-> n, entries |-> es, logical |-> walk.found]
  BY <1>2, <1>3 DEF ReadFrom, walk
<1> QED BY <1>1, <1>2, <1>4

\* A copy of a GPT is on the device, its header at my.
CopyOn(d, g, my, alternate, array) ==
    /\ d[my] = Header(g, my, alternate, array)
    /\ \A i \in 1 .. Len(g.entries) :
         d[array + i - 1] = [is |-> "entry", entry |-> g.entries[i]]
\* The copy at the start of the device, and the backup.
PrimaryOn(d, g) == CopyOn(d, g, 1, g.backup, g.primaryArray)
BackupOn(d, g) == CopyOn(d, g, g.backup, 1, g.backupArray)

\* What the fields of a header are.
LEMMA HeaderIs ==
  ASSUME NEW g, NEW my, NEW alternate, NEW array
  PROVE  LET h == Header(g, my, alternate, array)
         IN  /\ h.is = "header" /\ h.my = my /\ h.alternate = alternate /\ h.first = g.first
             /\ h.last = g.last /\ h.array = array /\ h.count = Len(g.entries)
             /\ h.crc = g.entries
  BY DEF Header

\* Both copies are found valid.
LEMMA CopiesValid ==
  ASSUME NEW g, GptOK(g), NEW n \in Nat, Fits(g, n), NEW d
  PROVE  /\ PrimaryOn(d, g) => ValidCopy(d, n, 1)
         /\ BackupOn(d, g) => ValidCopy(d, n, g.backup)
         /\ g.backup # 1 /\ g.backup # 0
<1> DEFINE c == Len(g.entries)
<1>1. /\ g.backup \in Int /\ g.backupArray \in Int /\ g.primaryArray \in Int
      /\ g.first \in Int /\ g.last \in Int
  BY DEF GptOK, GptRec
<1>2. c \in Nat /\ g.first <= g.last + 1
  BY DEF GptOK, GptRec
<1>3. /\ g.primaryArray >= 2 /\ g.primaryArray + c <= g.first /\ g.backupArray > g.last
      /\ g.backupArray + c <= g.backup /\ g.backup < n
  BY DEF Fits
<1> HIDE DEF c
<1>4. /\ 1 # 0 /\ 1 < n /\ g.backup # 0 /\ g.backup # 1 /\ g.last < n
      /\ 1 \notin g.first .. g.last /\ g.backup \notin g.first .. g.last
      /\ g.primaryArray + c <= n /\ g.backupArray + c <= n /\ c + 2 <= g.first
  BY <1>1, <1>2, <1>3
<1>5. ASSUME PrimaryOn(d, g) PROVE ValidCopy(d, n, 1)
  <2> DEFINE h == d[1]
  <2>1. h = Header(g, 1, g.backup, g.primaryArray) BY <1>5 DEF PrimaryOn, CopyOn
  <2>2. /\ h.is = "header" /\ h.my = 1 /\ h.first = g.first /\ h.last = g.last
        /\ h.array = g.primaryArray /\ h.count = c /\ h.crc = g.entries
    BY <2>1, HeaderIs DEF c
  <2>3. \A i \in 1 .. c : d[g.primaryArray + i - 1] = [is |-> "entry", entry |-> g.entries[i]]
    BY <1>5 DEF PrimaryOn, CopyOn, c
  <2> HIDE DEF h
  <2>4. \A i \in 1 .. h.count : d[h.array + i - 1] = [is |-> "entry", entry |-> h.crc[i]]
    BY <2>2, <2>3
  <2>5. /\ 1 # 0 /\ 1 < n /\ h.is = "header" /\ h.my = 1
        /\ h.last < n /\ h.first <= h.last + 1 /\ 1 \notin h.first .. h.last
        /\ h.array >= 2 /\ h.array + h.count <= h.first /\ h.array + h.count <= n
    BY <2>2, <1>2, <1>3, <1>4
  <2> QED BY <2>4, <2>5 DEF ValidCopy, h
<1>6. ASSUME BackupOn(d, g) PROVE ValidCopy(d, n, g.backup)
  <2> DEFINE h == d[g.backup]
  <2>1. h = Header(g, g.backup, 1, g.backupArray) BY <1>6 DEF BackupOn, CopyOn
  <2>2. /\ h.is = "header" /\ h.my = g.backup /\ h.first = g.first /\ h.last = g.last
        /\ h.array = g.backupArray /\ h.count = c /\ h.crc = g.entries
    BY <2>1, HeaderIs DEF c
  <2>3. \A i \in 1 .. c : d[g.backupArray + i - 1] = [is |-> "entry", entry |-> g.entries[i]]
    BY <1>6 DEF BackupOn, CopyOn, c
  <2> HIDE DEF h
  <2>4. \A i \in 1 .. h.count : d[h.array + i - 1] = [is |-> "entry", entry |-> h.crc[i]]
    BY <2>2, <2>3
  <2>5. /\ g.backup # 0 /\ g.backup < n /\ h.is = "header" /\ h.my = g.backup /\ g.backup # 1
        /\ h.last < n /\ h.first <= h.last + 1 /\ g.backup \notin h.first .. h.last
        /\ h.array > h.last /\ h.array + h.count <= g.backup /\ h.count + 2 <= h.first
        /\ h.array + h.count <= n
    BY <2>2, <1>2, <1>3, <1>4
  <2> QED BY <2>4, <2>5 DEF ValidCopy, h
<1> QED BY <1>4, <1>5, <1>6

\* A GPT with both copies on the device is read as it was written.
LEMMA GptFound ==
  ASSUME NEW g, GptOK(g), NEW n \in Nat, Fits(g, n), NEW d, PrimaryOn(d, g), BackupOn(d, g)
  PROVE  FindGpt(d, n) = <<[g EXCEPT !.blocks = n, !.damaged = "none"]>>
<1> DEFINE c == Len(g.entries)
           p == d[1]
           b == d[g.backup]
<1>1. ValidCopy(d, n, 1) /\ ValidCopy(d, n, g.backup) BY CopiesValid
<1>2. /\ p.my = 1 /\ p.alternate = g.backup /\ p.first = g.first /\ p.last = g.last
      /\ p.array = g.primaryArray /\ p.count = c /\ p.crc = g.entries
  <2>1. p = Header(g, 1, g.backup, g.primaryArray) BY DEF PrimaryOn, CopyOn
  <2> QED BY <2>1, HeaderIs
<1>3. /\ b.my = g.backup /\ b.alternate = 1 /\ b.first = g.first /\ b.last = g.last
      /\ b.array = g.backupArray /\ b.count = c /\ b.crc = g.entries
  <2>1. b = Header(g, g.backup, 1, g.backupArray) BY DEF BackupOn, CopyOn
  <2> QED BY <2>1, HeaderIs
<1>4. /\ g.backup \in Int /\ g.backupArray \in Int /\ g.last \in Int /\ c \in Nat
      /\ g.backupArray > g.last /\ g.backupArray + c <= g.backup /\ g.backup < n
  BY DEF GptOK, GptRec, Fits
<1> HIDE DEF c
<1>5. g.backup > g.last /\ g.backup - c > g.last BY <1>4
<1> HIDE DEF p, b
<1>6. SameTable(p, b) BY <1>2, <1>3, <1>5 DEF SameTable
<1>7. FindGpt(d, n) = <<FromDisk(n, p, "primary", "none", b.array)>>
  <2>1. p.alternate = g.backup BY <1>2
  <2> QED BY <2>1, <1>1, <1>6 DEF FindGpt, p, b
<1>8. FromDisk(n, p, "primary", "none", b.array)
        = [blocks |-> n, first |-> g.first, last |-> g.last, backup |-> g.backup,
           primaryArray |-> g.primaryArray, backupArray |-> g.backupArray,
           entries |-> g.entries, damaged |-> "none"]
  <2>1. p.alternate < n /\ p.alternate - p.count > p.last BY <1>2, <1>4, <1>5
  <2> QED BY <2>1, <1>2, <1>3 DEF FromDisk
<1>9. g = [blocks |-> g.blocks, first |-> g.first, last |-> g.last, backup |-> g.backup,
           primaryArray |-> g.primaryArray, backupArray |-> g.backupArray,
           entries |-> g.entries, damaged |-> g.damaged]
  BY DEF GptOK, GptRec
<1> DEFINE v == [g EXCEPT !.blocks = n, !.damaged = "none"]
<1>10. v = [g EXCEPT !.blocks = n, !.damaged = "none"] OBVIOUS
<1> HIDE DEF v
<1>11. v = [blocks |-> n, first |-> g.first, last |-> g.last, backup |-> g.backup,
            primaryArray |-> g.primaryArray, backupArray |-> g.backupArray,
            entries |-> g.entries, damaged |-> "none"]
  BY <1>9, <1>10
<1> QED BY <1>7, <1>8, <1>10, <1>11

\* How much of a GPT must be written for its copies to be on the device.
LEMMA CopiesWritten ==
  ASSUME NEW t, TableOK(t), IsGpt(t), NEW n \in Int, Fits(t.gpt, n), NEW d,
         NEW k \in 1 .. Len(Runs(t)), OnDisk(d, n, Runs(t), k)
  PROVE  /\ k >= Len(t.gpt.entries) + 1 => BackupOn(d, t.gpt)
         /\ k >= 2 * Len(t.gpt.entries) + 2 => PrimaryOn(d, t.gpt)
<1> DEFINE g == t.gpt
           r == Runs(t)
           c == Len(g.entries)
           Item(i) == [is |-> "entry", entry |-> g.entries[i]]
<1>1. /\ GptOK(g) /\ Len(r) = 2 * c + 3 /\ c \in Nat
      /\ \A i \in 1 .. 2 * c + 3 : r[i].lba = GptLba(g, i)
      /\ \A i \in 1 .. c : r[i].content = Item(i)
      /\ r[c + 1].content = Header(g, g.backup, 1, g.backupArray)
      /\ \A i \in 1 .. c : r[c + 1 + i].content = Item(i)
      /\ r[2 * c + 2].content = Header(g, 1, g.backup, g.primaryArray)
  BY GptOrdered
<1>2. \A i \in 1 .. k : d[r[i].lba] = r[i].content BY DEF OnDisk
<1>3. g.primaryArray \in Int /\ g.backupArray \in Int BY <1>1 DEF GptOK, GptRec
<1>l. \A i : GptLba(g, i) = IF i <= c THEN g.backupArray + i - 1
                             ELSE IF i = c + 1 THEN g.backup
                             ELSE IF i <= 2 * c + 1 THEN g.primaryArray + i - c - 2
                             ELSE IF i = 2 * c + 2 THEN 1 ELSE 0
  BY DEF GptLba
<1>c. c \in Nat /\ k \in Int /\ k >= 1 /\ k <= 2 * c + 3 BY <1>1
<1> HIDE DEF c, r, Item
<1>4. ASSUME k >= c + 1 PROVE BackupOn(d, g)
  <2>1. d[g.backup] = Header(g, g.backup, 1, g.backupArray)
    <3>1. c + 1 \in 1 .. k /\ c + 1 \in 1 .. 2 * c + 3 BY <1>4, <1>c
    <3>2. r[c + 1].lba = g.backup
      <4>1. ~(c + 1 <= c) BY <1>c
      <4> QED BY <4>1, <3>1, <1>1, <1>l
    <3> QED BY <3>1, <3>2, <1>1, <1>2
  <2>2. ASSUME NEW i \in 1 .. c PROVE d[g.backupArray + i - 1] = Item(i)
    <3>1. i \in 1 .. k /\ i \in 1 .. 2 * c + 3 /\ i <= c BY <1>4, <1>c
    <3>2. r[i].lba = g.backupArray + i - 1 BY <3>1, <1>1, <1>l
    <3> QED BY <3>1, <3>2, <1>1, <1>2
  <2> QED BY <2>1, <2>2 DEF BackupOn, CopyOn, c, Item
<1>5. ASSUME k >= 2 * c + 2 PROVE PrimaryOn(d, g)
  <2>1. d[1] = Header(g, 1, g.backup, g.primaryArray)
    <3>1. 2 * c + 2 \in 1 .. k /\ 2 * c + 2 \in 1 .. 2 * c + 3 BY <1>5, <1>c
    <3>2. r[2 * c + 2].lba = 1
      <4>1. ~(2 * c + 2 <= c) /\ 2 * c + 2 # c + 1 /\ ~(2 * c + 2 <= 2 * c + 1) BY <1>c
      <4> QED BY <4>1, <3>1, <1>1, <1>l
    <3> QED BY <3>1, <3>2, <1>1, <1>2
  <2>2. ASSUME NEW i \in 1 .. c PROVE d[g.primaryArray + i - 1] = Item(i)
    <3> DEFINE j == c + 1 + i
    <3>a. i \in Int /\ 1 <= i /\ i <= c BY <1>c
    <3>b. j \in 1 .. k /\ j \in 1 .. 2 * c + 3 BY <3>a, <1>5, <1>c
    <3>c. ~(j <= c) /\ j # c + 1 /\ j <= 2 * c + 1 BY <3>a, <1>c
    <3>d. g.primaryArray + j - c - 2 = g.primaryArray + i - 1
      <4>1. \A a \in Int : a + j - c - 2 = a + i - 1 BY <3>a, <1>c
      <4> HIDE DEF j
      <4> QED BY <4>1, <1>3
    <3>1. /\ j \in 1 .. k /\ j \in 1 .. 2 * c + 3 /\ ~(j <= c) /\ j # c + 1 /\ j <= 2 * c + 1
          /\ g.primaryArray + j - c - 2 = g.primaryArray + i - 1
      BY <3>b, <3>c, <3>d
    <3>2. r[j].lba = g.primaryArray + j - c - 2 BY <3>1, <1>1, <1>l
    <3>3. r[j].content = Item(i) BY <1>1
    <3> QED BY <3>1, <3>2, <3>3, <1>2
  <2> QED BY <2>1, <2>2 DEF PrimaryOn, CopyOn, c, Item
<1> QED BY <1>4, <1>5 DEF c

\* Reading a device with a protective block 0.
LEMMA GptReads ==
  ASSUME NEW d, NEW n, NEW es, Protected(es), d[0] = Record(es)
  PROVE  ReadFrom(d, n) =
           IF FindGpt(d, n) = <<>> THEN Failed("corrupt")
           ELSE IF \A i \in 1 .. Slots : es[i].kind # "linux"
                THEN [kind |-> "gpt", gpt |-> FindGpt(d, n)[1]]
                ELSE [kind |-> "hybrid", gpt |-> FindGpt(d, n)[1], entries |-> es]
<1>1. /\ d[0].is = "record" /\ d[0].entries = es /\ "protective" \in Kinds(d[0])
      /\ Kinds(d[0]) = {"protective"} <=> \A i \in 1 .. Slots : es[i].kind # "linux"
  BY BootKinds
<1> DEFINE plain == \A i \in 1 .. Slots : es[i].kind # "linux"
           f == FindGpt(d, n)
<1>2. Kinds(d[0]) = {"protective"} <=> plain BY <1>1
<1> HIDE DEF plain, f
<1>3. ReadFrom(d, n) =
           IF f = <<>> THEN Failed("corrupt")
           ELSE IF plain THEN [kind |-> "gpt", gpt |-> f[1]]
                ELSE [kind |-> "hybrid", gpt |-> f[1], entries |-> es]
  BY <1>1, <1>2 DEF ReadFrom, f
<1> QED BY <1>3 DEF plain, f

-----------------------------------------------------------------------------
(* A table that was written is read back. *)

\* Writable on a device of n blocks.
WritableOn(n, t) ==
    CASE t.kind = "mbr" -> t.blocks <= n
      [] IsGpt(t) -> t.gpt.blocks <= n /\ Fits(t.gpt, n)
      [] OTHER -> FALSE

\* All of a table is on the device.
Written(d, n, t) == OnDisk(d, n, Runs(t), Len(Runs(t)))

\* What WriteRoundTrips asks of the device.
RoundTrips(d, n, t) ==
    CASE t.kind = "mbr" -> ReadFrom(d, n) = [t EXCEPT !.blocks = n]
      [] IsGpt(t) ->
            /\ ReadFrom(d, n).kind = IF t.kind = "hybrid" /\ Cardinality(Occupied(t)) > 1
                                     THEN "hybrid" ELSE "gpt"
            /\ ReadFrom(d, n).gpt = [t.gpt EXCEPT !.blocks = n, !.damaged = "none"]
            /\ ReadFrom(d, n).kind = "hybrid" => ReadFrom(d, n).entries = t.entries

\* The kinds of tables.
LEMMA TableKinds ==
  ASSUME NEW t, TableOK(t)
  PROVE  /\ t.kind \in {"none", "mbr", "gpt", "hybrid"}
         /\ t.kind = "none" <=> t = NoTable
         /\ t.kind = "mbr" <=> MbrOK(t)
         /\ t.kind = "gpt" => t = [kind |-> "gpt", gpt |-> t.gpt] /\ GptOK(t.gpt)
         /\ t.kind = "hybrid" => /\ t = [kind |-> "hybrid", gpt |-> t.gpt, entries |-> t.entries]
                                 /\ GptOK(t.gpt) /\ Protected(t.entries)
<1>1. CASE t = NoTable
  BY <1>1 DEF NoTable, MbrOK
<1>2. CASE MbrOK(t)
  <2>1. t.kind = "mbr" BY <1>2 DEF MbrOK
  <2> QED BY <2>1, <1>2 DEF NoTable
<1>3. CASE t = [kind |-> "gpt", gpt |-> t.gpt] /\ GptOK(t.gpt)
  <2>1. t.kind = "gpt" BY <1>3
  <2> QED BY <2>1, <1>3 DEF NoTable, MbrOK
<1>4. CASE /\ t = [kind |-> "hybrid", gpt |-> t.gpt, entries |-> t.entries]
           /\ GptOK(t.gpt) /\ Protected(t.entries)
  <2>1. t.kind = "hybrid" BY <1>4
  <2> QED BY <2>1, <1>4 DEF NoTable, MbrOK
<1> QED BY <1>1, <1>2, <1>3, <1>4 DEF TableOK

\* An MBR.
LEMMA MbrWritten ==
  ASSUME NEW t, MbrOK(t), NEW d, NEW n \in Nat, Written(d, n, t)
  PROVE  ReadFrom(d, n) = [t EXCEPT !.blocks = n]
<1> DEFINE r == Runs(t)
           e == EbrRecords(t)
<1>1. /\ Len(r) = Len(e) + 1 /\ Len(e) \in Nat
      /\ \A i \in 1 .. Len(e) : r[i] = e[i]
      /\ r[Len(r)].content = Record(t.entries) /\ r[Len(r)].lba = 0
  BY MbrOrdered DEF Ordered
<1>2. \A i \in 1 .. Len(r) : r[i].lba < n /\ d[r[i].lba] = r[i].content
  BY DEF Written, OnDisk
<1>3. OnDisk(d, n, e, Len(e))
  <2>1. \A i \in 1 .. Len(e) : i \in 1 .. Len(r) BY <1>1
  <2> QED BY <2>1, <1>1, <1>2 DEF OnDisk
<1>4. d[0] = Record(t.entries)
  <2>1. Len(r) \in 1 .. Len(r) BY <1>1
  <2> QED BY <2>1, <1>1, <1>2
<1> QED BY <1>3, <1>4, MbrReads

\* A hybrid MBR mirrors a partition if it has more than its protective entry.
LEMMA HybridKind ==
  ASSUME NEW t, Protected(t.entries)
  PROVE  Cardinality(Occupied(t)) > 1 <=> \E i \in 1 .. Slots : t.entries[i].kind = "linux"
<1> DEFINE O == Occupied(t)
<1>1. Slots \in Nat BY Constants
<1>2. IsFiniteSet(O) /\ Cardinality(O) \in Nat
  <2>1. IsFiniteSet(1 .. Slots) BY <1>1, FS_Interval
  <2>2. O \in SUBSET (1 .. Slots) BY DEF Occupied
  <2>3. IsFiniteSet(O) BY <2>1, <2>2, FS_Subset
  <2> QED BY <2>3, FS_CardinalityType
<1>3. PICK p \in 1 .. Slots :
        \A i \in 1 .. Slots : t.entries[i].kind = "protective" <=> i = p
  BY DEF Protected
<1>4. p \in O BY <1>3 DEF Occupied
<1>5. \A i \in 1 .. Slots : t.entries[i].kind \in {"empty", "linux", "protective"}
  BY DEF Protected
<1>6. ASSUME NEW i \in 1 .. Slots, t.entries[i].kind = "linux" PROVE Cardinality(O) > 1
  <2>1. i \in O /\ i # p BY <1>6, <1>3 DEF Occupied
  <2>2. IsFiniteSet({p}) /\ Cardinality({p}) = 1 BY FS_Singleton
  <2>3. Cardinality({p} \cup {i}) = 2
    <3>1. Cardinality({p} \cup {i}) = IF i \in {p} THEN Cardinality({p}) ELSE Cardinality({p}) + 1
      BY <2>2, FS_AddElement, Zenon
    <3>2. i \notin {p} BY <2>1
    <3> QED BY <3>1, <3>2, <2>2
  <2>4. {p} \cup {i} \in SUBSET O BY <2>1, <1>4
  <2>5. Cardinality({p} \cup {i}) <= Cardinality(O) BY <2>4, <1>2, FS_Subset
  <2> QED BY <2>3, <2>5, <1>2
<1>7. ASSUME \A i \in 1 .. Slots : t.entries[i].kind # "linux" PROVE ~(Cardinality(O) > 1)
  <2>1. O = {p} BY <1>7, <1>3, <1>4, <1>5 DEF Occupied
  <2>2. Cardinality(O) = 1 BY <2>1, FS_Singleton
  <2> QED BY <2>2
<1> QED BY <1>6, <1>7

\* A GPT or hybrid.
LEMMA GptWritten ==
  ASSUME NEW t, TableOK(t), IsGpt(t), NEW n \in Nat, Fits(t.gpt, n), NEW d, Written(d, n, t)
  PROVE  ReadFrom(d, n) =
           IF \A i \in 1 .. Slots : BootEntries(t)[i].kind # "linux"
           THEN [kind |-> "gpt", gpt |-> [t.gpt EXCEPT !.blocks = n, !.damaged = "none"]]
           ELSE [kind |-> "hybrid", gpt |-> [t.gpt EXCEPT !.blocks = n, !.damaged = "none"],
                 entries |-> BootEntries(t)]
<1> DEFINE g == t.gpt
           r == Runs(t)
           c == Len(g.entries)
           es == BootEntries(t)
           f == [g EXCEPT !.blocks = n, !.damaged = "none"]
<1>1. /\ GptOK(g) /\ Ordered(r) /\ Len(r) = 2 * c + 3 /\ c \in Nat
      /\ r[2 * c + 3].content = Record(es)
  BY GptOrdered
<1>2. r[Len(r)].lba = 0 BY <1>1 DEF Ordered
<1>3. OnDisk(d, n, r, Len(r)) BY DEF Written
<1>4. Len(r) \in 1 .. Len(r) /\ Len(r) >= c + 1 /\ Len(r) >= 2 * c + 2
  <2> HIDE DEF c, r
  <2> QED BY <1>1
<1>5. d[0] = Record(es)
  BY <1>1, <1>2, <1>3, <1>4 DEF OnDisk
<1>6. PrimaryOn(d, g) /\ BackupOn(d, g)
  BY <1>3, <1>4, CopiesWritten
<1>7. FindGpt(d, n) = <<f>> BY <1>6, <1>1, GptFound
<1>8. Protected(es) BY GptBoot
<1> HIDE DEF f, es
<1>9. FindGpt(d, n) # <<>> /\ FindGpt(d, n)[1] = f BY <1>7
<1>10. ReadFrom(d, n) =
           IF FindGpt(d, n) = <<>> THEN Failed("corrupt")
           ELSE IF \A i \in 1 .. Slots : es[i].kind # "linux"
                THEN [kind |-> "gpt", gpt |-> FindGpt(d, n)[1]]
                ELSE [kind |-> "hybrid", gpt |-> FindGpt(d, n)[1], entries |-> es]
  BY <1>8, <1>5, GptReads
<1>11. ReadFrom(d, n) = IF \A i \in 1 .. Slots : es[i].kind # "linux"
                THEN [kind |-> "gpt", gpt |-> f]
                ELSE [kind |-> "hybrid", gpt |-> f, entries |-> es]
  BY <1>9, <1>10
<1> QED BY <1>11 DEF f, es

\* What is shown of a GPT.
LEMMA GptParts ==
  ASSUME NEW t, IsGpt(t)
  PROVE  Parts(t) = {<<"gpt", i, t.gpt.entries[i]>> : i \in Used(t.gpt)}
<1>1. t.kind # "mbr" BY DEF IsGpt
<1> QED BY <1>1 DEF Parts

\* Any table.
LEMMA TableWritten ==
  ASSUME NEW t, TableOK(t), NEW n \in Nat, WritableOn(n, t), NEW d, Written(d, n, t)
  PROVE  RoundTrips(d, n, t) /\ Parts(ReadFrom(d, n)) = Parts(t)
<1> DEFINE R == ReadFrom(d, n)
<1>0. t.kind \in {"none", "mbr", "gpt", "hybrid"} BY TableKinds
<1>1. CASE t.kind = "mbr"
  <2>1. MbrOK(t) BY <1>1, TableKinds
  <2>2. R = [t EXCEPT !.blocks = n] BY <2>1, MbrWritten
  <2>3. /\ R.kind = t.kind /\ R.entries = t.entries /\ R.logical = t.logical
    BY <2>1, <2>2 DEF MbrOK
  <2>4. RoundTrips(d, n, t)
    <3> HIDE DEF R
    <3>1. RoundTrips(d, n, t) <=> R = [t EXCEPT !.blocks = n]
      BY <1>1 DEF RoundTrips, R, IsGpt
    <3> QED BY <3>1, <2>2
  <2> HIDE DEF R
  <2>5. Occupied(R) = Occupied(t) BY <2>3 DEF Occupied
  <2>6. Parts(R) = Parts(t) BY <2>3, <2>5, <1>1 DEF Parts, IsGpt
  <2> QED BY <2>4, <2>6 DEF R
<1>2. CASE t.kind \in {"gpt", "hybrid"}
  <2> DEFINE f == [t.gpt EXCEPT !.blocks = n, !.damaged = "none"]
             plain == \A i \in 1 .. Slots : BootEntries(t)[i].kind # "linux"
  <2>1. IsGpt(t) /\ Fits(t.gpt, n) BY <1>2 DEF IsGpt, WritableOn
  <2>2. GptOK(t.gpt) BY <1>2, TableKinds
  <2>3. R = IF plain THEN [kind |-> "gpt", gpt |-> f]
            ELSE [kind |-> "hybrid", gpt |-> f, entries |-> BootEntries(t)]
    BY <2>1, GptWritten
  <2>4. plain <=> ~(t.kind = "hybrid" /\ Cardinality(Occupied(t)) > 1)
    <3>1. CASE t.kind = "gpt"
      BY <3>1 DEF BootEntries, Entry, Empty
    <3>2. CASE t.kind = "hybrid"
      <4>1. BootEntries(t) = t.entries /\ Protected(t.entries)
        BY <3>2, TableKinds DEF BootEntries
      <4> QED BY <4>1, <3>2, HybridKind
    <3> QED BY <3>1, <3>2, <1>2
  <2>5. ~plain => BootEntries(t) = t.entries
    BY <2>4 DEF BootEntries
  <2>6. f.entries = t.gpt.entries
    <3>1. t.gpt \in GptRec BY <2>2 DEF GptOK
    <3> QED BY <3>1 DEF GptRec
  <2>7. Used(f) = Used(t.gpt) BY <2>6 DEF Used
  <2> HIDE DEF plain, R
  <2>8. RoundTrips(d, n, t)
    <3>1. R.kind = IF t.kind = "hybrid" /\ Cardinality(Occupied(t)) > 1 THEN "hybrid" ELSE "gpt"
      BY <2>3, <2>4
    <3>2. R.gpt = f BY <2>3
    <3>3. R.kind = "hybrid" => R.entries = t.entries BY <2>3, <2>5
    <3>4. IsGpt(t) /\ t.kind # "mbr" BY <1>2 DEF IsGpt
    <3> HIDE DEF f
    <3> QED BY <3>1, <3>2, <3>3, <3>4 DEF RoundTrips, R, f
  <2> HIDE DEF f
  <2>9. IsGpt(R) /\ R.gpt = f BY <2>3 DEF IsGpt
  <2>10. Parts(R) = Parts(t)
    BY <2>9, <2>6, <2>7, <2>1, GptParts
  <2> QED BY <2>8, <2>10 DEF R
<1>3. CASE t.kind = "none"
  BY <1>3 DEF WritableOn, IsGpt
<1> QED BY <1>0, <1>1, <1>2, <1>3

-----------------------------------------------------------------------------
(* What is read is a table. *)

\* A valid copy of a GPT has a good header.
LEMMA ValidHeader ==
  ASSUME NEW d, DiskOK(d), NEW n \in Sizes, NEW at \in Nat, ValidCopy(d, n, at)
  PROVE  /\ at \in Lbas /\ at # 0 /\ at < n
         /\ GoodHeader(d[at]) /\ d[at].first <= d[at].last + 1 /\ d[at].my = at
<1>1. at # 0 /\ at < n /\ d[at].is = "header" /\ d[at].first <= d[at].last + 1 /\ d[at].my = at
  BY DEF ValidCopy
<1>2. n \in Nat /\ n <= Largest /\ Largest \in Nat BY Constants
<1>3. at \in Lbas BY <1>1, <1>2 DEF Lbas
<1>4. GoodHeader(d[at]) BY <1>1, <1>3, InnerIs
<1> QED BY <1>1, <1>3, <1>4

\* What from_disk makes of it.
LEMMA FromDiskIs ==
  ASSUME NEW h, GoodHeader(h), h.first <= h.last + 1, NEW n \in Nat,
         NEW source \in {"primary", "backup"}, NEW damaged \in {"none", "primary", "backup"},
         NEW array \in Int
  PROVE  LET g == FromDisk(n, h, source, damaged, array)
         IN  /\ GptOK(g)
             /\ g.blocks = n /\ g.first = h.first /\ g.last = h.last /\ g.entries = h.crc
             /\ g.damaged = damaged
             /\ g.primaryArray = IF source = "primary" THEN h.array ELSE 2
             /\ g.backup = IF source = "backup" THEN h.my
                           ELSE IF h.alternate < n /\ h.alternate - h.count > h.last
                           THEN h.alternate ELSE n - 1
<1> DEFINE g == FromDisk(n, h, source, damaged, array)
           fits == h.alternate < n /\ h.alternate - h.count > h.last
           backup == IF source = "backup" THEN h.my
                     ELSE IF fits THEN h.alternate ELSE n - 1
           primary == IF source = "primary" THEN h.array ELSE 2
           other == IF source = "backup" THEN h.array
                    ELSE IF damaged = "none" THEN array ELSE backup - h.count
<1>1. /\ h.my \in Int /\ h.alternate \in Int /\ h.first \in Int /\ h.last \in Int
      /\ h.array \in Int /\ h.count \in Int /\ h.crc \in Seq(Pairs)
      /\ Spread(h.crc, h.first, h.last)
  BY DEF GoodHeader, HeaderRec
<1>2. backup \in Int BY <1>1
<1>3. primary \in Int /\ other \in Int
  <2> HIDE DEF backup
  <2> QED BY <1>1, <1>2
<1>4. g = [blocks |-> n, first |-> h.first, last |-> h.last, backup |-> backup,
           primaryArray |-> primary, backupArray |-> other,
           entries |-> h.crc, damaged |-> damaged]
  BY DEF FromDisk
<1> HIDE DEF backup, primary, other, g
<1>5. g \in GptRec BY <1>1, <1>2, <1>3, <1>4 DEF GptRec
<1>6. /\ g.blocks = n /\ g.first = h.first /\ g.last = h.last /\ g.entries = h.crc
      /\ g.damaged = damaged /\ g.primaryArray = primary /\ g.backup = backup
  BY <1>4
<1>7. GptOK(g) BY <1>1, <1>5, <1>6 DEF GptOK
<1> QED BY <1>6, <1>7 DEF g, backup, primary

\* The GPT that is found: the primary copy if it is valid, else the backup.
LEMMA FoundGpt ==
  ASSUME NEW d, DiskOK(d), NEW n \in Sizes
  PROVE  LET f == FindGpt(d, n)
             p == d[1]
             at == IF ValidCopy(d, n, 1) THEN p.alternate ELSE n - 1
         IN  /\ ValidCopy(d, n, 1) \/ ValidCopy(d, n, n - 1) <=> f # <<>>
             /\ f # <<>> => GptOK(f[1]) /\ f[1].blocks = n
             /\ ValidCopy(d, n, 1) =>
                  /\ f[1].entries = p.crc /\ f[1].first = p.first /\ f[1].last = p.last
                  /\ f[1].primaryArray = p.array
                  /\ f[1].backup = IF p.alternate < n /\ p.alternate - p.count > p.last
                                   THEN p.alternate ELSE n - 1
                  /\ f[1].damaged = IF ValidCopy(d, n, p.alternate) /\ SameTable(p, d[p.alternate])
                                    THEN "none" ELSE "backup"
             /\ ~ValidCopy(d, n, 1) /\ f # <<>> =>
                  f[1].entries = d[n - 1].crc /\ f[1].damaged = "primary"
<1> DEFINE p == d[1]
           at == IF ValidCopy(d, n, 1) THEN p.alternate ELSE n - 1
           b == d[at]
           same == ValidCopy(d, n, at) /\ SameTable(p, b)
           f == FindGpt(d, n)
<1>1. n \in Nat /\ n > 0 BY Constants
<1>2. CASE ValidCopy(d, n, 1)
  <2> DEFINE damaged == IF same THEN "none" ELSE "backup"
             array == IF same THEN b.array ELSE 0
             g == FromDisk(n, p, "primary", damaged, array)
  <2>1. GoodHeader(p) /\ p.first <= p.last + 1 BY <1>2, ValidHeader
  <2>2. at = p.alternate BY <1>2
  <2>3. at \in Nat BY <2>1, <2>2 DEF GoodHeader, HeaderRec
  <2>4. array \in Int
    <3> HIDE DEF at
    <3>1. CASE same
      <4>1. GoodHeader(b) BY <3>1, <2>3, ValidHeader
      <4>2. b.array \in Int BY <4>1 DEF GoodHeader, HeaderRec
      <4> QED BY <4>2, <3>1
    <3>2. CASE ~same
      BY <3>2
    <3> QED BY <3>1, <3>2
  <2>5. f = <<g>> BY <1>2 DEF FindGpt
  <2>6. same <=> ValidCopy(d, n, p.alternate) /\ SameTable(p, d[p.alternate]) BY <2>2
  <2> HIDE DEF array, f, same
  <2>7. damaged \in {"none", "primary", "backup"} OBVIOUS
  <2> HIDE DEF damaged
  <2> HIDE DEF p, at
  <2>c. "primary" \in {"primary", "backup"} OBVIOUS
  <2>8. /\ GptOK(g)
        /\ g.blocks = n /\ g.first = p.first /\ g.last = p.last /\ g.entries = p.crc
        /\ g.damaged = damaged
        /\ g.primaryArray = IF "primary" = "primary" THEN p.array ELSE 2
        /\ g.backup = IF "primary" = "backup" THEN p.my
                      ELSE IF p.alternate < n /\ p.alternate - p.count > p.last
                      THEN p.alternate ELSE n - 1
    BY ONLY <2>1, <2>4, <2>7, <2>c, <1>1, FromDiskIs DEF g
  <2> HIDE DEF g
  <2>9. f # <<>> /\ f[1] = g BY <2>5
  <2>10. damaged = IF same THEN "none" ELSE "backup" BY DEF damaged
  <2> QED BY <2>6, <2>8, <2>9, <2>10, <1>2 DEF f, p
<1>3. CASE ~ValidCopy(d, n, 1) /\ ValidCopy(d, n, n - 1)
  <2> DEFINE h == d[n - 1]
             g == FromDisk(n, h, "backup", "primary", h.array)
  <2>1. n - 1 \in Nat BY <1>1
  <2>2. GoodHeader(h) /\ h.first <= h.last + 1 BY <1>3, <2>1, ValidHeader
  <2>3. h.array \in Int BY <2>2 DEF GoodHeader, HeaderRec
  <2>4. f = <<g>> BY <1>3 DEF FindGpt
  <2> HIDE DEF f, h
  <2>5. GptOK(g) /\ g.blocks = n /\ g.entries = h.crc /\ g.damaged = "primary"
    BY <2>2, <2>3, <1>1, FromDiskIs
  <2> HIDE DEF g
  <2>6. f # <<>> /\ f[1] = g BY <2>4
  <2> QED BY <2>5, <2>6, <1>3 DEF f, h
<1>4. CASE ~ValidCopy(d, n, 1) /\ ~ValidCopy(d, n, n - 1)
  <2>1. f = <<>> BY <1>4 DEF FindGpt
  <2> QED BY <2>1, <1>4
<1> QED BY <1>2, <1>3, <1>4

\* Reading a device with an MBR in block 0.
LEMMA MbrRead ==
  ASSUME NEW d, NEW n, NEW es, MbrEntries(es), d[0] = Record(es)
  PROVE  ReadFrom(d, n) =
           IF ExtendedSlots(es) = {}
           THEN [kind |-> "mbr", blocks |-> n, entries |-> es, logical |-> <<>>]
           ELSE IF WalkEbr(d, n, Extended(es)).state # "end" THEN Failed("corrupt")
           ELSE [kind |-> "mbr", blocks |-> n, entries |-> es,
                 logical |-> WalkEbr(d, n, Extended(es)).found]
<1> DEFINE v == WalkEbr(d, n, Extended(es))
           walk == IF ExtendedSlots(es) = {} THEN [found |-> <<>>, state |-> "end"] ELSE v
<1>1. d[0].is = "record" /\ d[0].entries = es /\ "protective" \notin Kinds(d[0])
  BY BootKinds
<1> HIDE DEF v
<1>2. ReadFrom(d, n) = IF walk.state # "end" THEN Failed("corrupt")
                       ELSE [kind |-> "mbr", blocks |-> n, entries |-> es,
                             logical |-> walk.found]
  BY <1>1 DEF ReadFrom, v
<1>3. CASE ExtendedSlots(es) = {}
  BY <1>2, <1>3
<1>4. CASE ExtendedSlots(es) # {}
  BY <1>2, <1>4 DEF v
<1> QED BY <1>3, <1>4

\* What reading answers.
LEMMA ReadIsTable ==
  ASSUME NEW d, DiskOK(d), NEW n \in Sizes
  PROVE  LET R == ReadFrom(d, n)
         IN  /\ R = Failed("not_recognized") \/ R = Failed("corrupt")
                  \/ (TableOK(R) /\ R.kind \in {"mbr", "gpt", "hybrid"})
             /\ R.kind = "not_recognized" <=> d[0] = Data
             /\ IsGpt(R) => \E es : Protected(es) /\ d[0] = Record(es)
             /\ R.kind = "mbr" => MbrEntries(R.entries) /\ d[0] = Record(R.entries)
<1> DEFINE R == ReadFrom(d, n)
<1>0. n \in Nat /\ n > 0 BY Constants
<1>1. CASE d[0] = Data
  <2>1. d[0].is # "record" BY <1>1 DEF Data
  <2>2. R = Failed("not_recognized") BY <2>1 DEF ReadFrom
  <2> HIDE DEF R
  <2>3. R.kind = "not_recognized" BY <2>2 DEF Failed
  <2> QED BY <2>2, <2>3, <1>1 DEF IsGpt, R
<1>2. ASSUME NEW es, MbrEntries(es), d[0] = Record(es)
      PROVE  /\ R = Failed("corrupt") \/ (TableOK(R) /\ R.kind = "mbr" /\ R.entries = es)
  <2> DEFINE x == Extended(es)
             v == WalkEbr(d, n, x)
  <2>1. R = IF ExtendedSlots(es) = {}
           THEN [kind |-> "mbr", blocks |-> n, entries |-> es, logical |-> <<>>]
           ELSE IF v.state # "end" THEN Failed("corrupt")
           ELSE [kind |-> "mbr", blocks |-> n, entries |-> es, logical |-> v.found]
    BY <1>2, MbrRead
  <2>2. es \in [1 .. Slots -> EntryRec] BY <1>2 DEF MbrEntries
  <2> HIDE DEF R, v, x
  <2>3. CASE ExtendedSlots(es) = {}
    <3>1. R = [kind |-> "mbr", blocks |-> n, entries |-> es, logical |-> <<>>] BY <2>1, <2>3
    <3>2. Logicals(<<>>) BY Constants DEF Logicals
    <3>3. <<>> \in Seq(LogicalRec) OBVIOUS
    <3>4. R.kind = "mbr" /\ R.entries = es /\ R.logical = <<>> BY <3>1
    <3>5. R \in [kind : {"mbr"}, blocks : Int, entries : [1 .. Slots -> EntryRec],
                 logical : Seq(LogicalRec)]
      BY <3>1, <3>3, <2>2, <1>0
    <3>6. MbrOK(R) BY <3>2, <3>4, <3>5, <2>3, <1>2 DEF MbrOK
    <3> QED BY <3>4, <3>6 DEF TableOK
  <2>4. CASE ExtendedSlots(es) # {} /\ v.state # "end"
    BY <2>1, <2>4
  <2>5. CASE ExtendedSlots(es) # {} /\ v.state = "end"
    <3>1. R = [kind |-> "mbr", blocks |-> n, entries |-> es, logical |-> v.found] BY <2>1, <2>5
    <3>2. x \in EntryRec /\ x.start > 0 BY <2>5, <1>2, ExtendedEntry DEF x
    <3>3. Walking(x, v, MaxLogical)
      <4>1. MaxLogical \in 0 .. MaxLogical BY Constants
      <4> QED BY <4>1, <3>2, WalkKeeps, WalkEbrIsWalk DEF v
    <3>4. v.found \in Seq(LogicalRec) /\ Len(v.found) <= MaxLogical /\ Linked(v.found, x)
          /\ x.len > 0
      BY <3>3, <2>5 DEF Walking
    <3>5. R.kind = "mbr" /\ R.entries = es /\ R.logical = v.found BY <3>1
    <3>6. R \in [kind : {"mbr"}, blocks : Int, entries : [1 .. Slots -> EntryRec],
                 logical : Seq(LogicalRec)]
      BY <3>1, <3>4, <2>2, <1>0
    <3>7. MbrOK(R) BY <3>4, <3>5, <3>6, <2>5, <1>2 DEF MbrOK, Logicals, x
    <3> QED BY <3>5, <3>7 DEF TableOK
  <2> QED BY <2>3, <2>4, <2>5
<1>3. ASSUME NEW es, Protected(es), d[0] = Record(es)
      PROVE  /\ R = Failed("corrupt") \/ (TableOK(R) /\ R.kind \in {"gpt", "hybrid"})
  <2> DEFINE f == FindGpt(d, n)
             plain == \A i \in 1 .. Slots : es[i].kind # "linux"
  <2>1. R = IF f = <<>> THEN Failed("corrupt")
            ELSE IF plain THEN [kind |-> "gpt", gpt |-> f[1]]
                 ELSE [kind |-> "hybrid", gpt |-> f[1], entries |-> es]
    BY <1>3, GptReads
  <2>2. f # <<>> => GptOK(f[1]) BY FoundGpt
  <2> HIDE DEF R, f, plain
  <2>3. CASE f = <<>>
    BY <2>1, <2>3
  <2>4. CASE f # <<>> /\ plain
    <3>1. R = [kind |-> "gpt", gpt |-> f[1]] BY <2>1, <2>4
    <3> HIDE DEF R
    <3>2. R.kind = "gpt" /\ R.gpt = f[1] BY <3>1
    <3> QED BY <3>1, <3>2, <2>2, <2>4 DEF TableOK
  <2>5. CASE f # <<>> /\ ~plain
    <3>1. R = [kind |-> "hybrid", gpt |-> f[1], entries |-> es] BY <2>1, <2>5
    <3> HIDE DEF R
    <3>2. R.kind = "hybrid" /\ R.gpt = f[1] /\ R.entries = es BY <3>1
    <3> QED BY <3>1, <3>2, <2>2, <2>5, <1>3 DEF TableOK
  <2> QED BY <2>3, <2>4, <2>5
<1>4. d[0] = Data \/ \E es : d[0] = Record(es) /\ (MbrEntries(es) \/ Protected(es))
  BY DEF DiskOK, Boot
<1>5. \A es : Record(es) # Data
  <2>1. Data.is = "data" BY DEF Data
  <2>2. \A es : Record(es).is = "record" BY BootKinds
  <2> QED BY <2>1, <2>2
<1> HIDE DEF R
<1>6. Failed("corrupt").kind = "corrupt" BY DEF Failed
<1>7. CASE \E es : d[0] = Record(es) /\ MbrEntries(es)
  BY <1>2, <1>5, <1>6, <1>7 DEF IsGpt, R
<1>8. CASE \E es : d[0] = Record(es) /\ Protected(es)
  BY <1>3, <1>5, <1>6, <1>8 DEF IsGpt, R
<1> QED BY <1>1, <1>4, <1>7, <1>8 DEF R

-----------------------------------------------------------------------------
(* The checked edits of a GPT keep it a good one. *)

\* Other entries and another place.
LEMMA GptUpdated ==
  ASSUME NEW g, GptOK(g), NEW h, NEW es \in Seq(Pairs), NEW first \in Int, NEW last \in Int,
         NEW blocks \in Int, NEW backup \in Int, NEW array \in Int,
         h = [blocks |-> blocks, first |-> first, last |-> last, backup |-> backup,
              primaryArray |-> g.primaryArray, backupArray |-> array, entries |-> es,
              damaged |-> g.damaged],
         first <= last + 1, Spread(es, first, last)
  PROVE  GptOK(h)
<1>1. g.primaryArray \in Int /\ g.damaged \in {"none", "primary", "backup"}
  BY DEF GptOK, GptRec
<1>2. h \in GptRec BY <1>1 DEF GptRec
<1>3. h.entries = es /\ h.first = first /\ h.last = last OBVIOUS
<1> QED BY <1>2, <1>3 DEF GptOK

\* The fields of a GPT.
LEMMA GptFields ==
  ASSUME NEW g, GptOK(g)
  PROVE  /\ g = [blocks |-> g.blocks, first |-> g.first, last |-> g.last, backup |-> g.backup,
                 primaryArray |-> g.primaryArray, backupArray |-> g.backupArray,
                 entries |-> g.entries, damaged |-> g.damaged]
         /\ g.blocks \in Int /\ g.first \in Int /\ g.last \in Int /\ g.backup \in Int
         /\ g.primaryArray \in Int /\ g.backupArray \in Int /\ g.entries \in Seq(Pairs)
         /\ g.first <= g.last + 1 /\ Spread(g.entries, g.first, g.last)
  BY DEF GptOK, GptRec

\* Two extents apart.
Apart(a, b) == End(a) <= b[1] \/ End(b) <= a[1]

\* An entry that was checked, or removed.
LEMMA SetEntry ==
  ASSUME NEW g, GptOK(g), NEW i \in DOMAIN g.entries, NEW e \in Pairs,
         e = Unused \/ Check(g, i, e)
  PROVE  GptOK([g EXCEPT !.entries[i] = e])
<1> DEFINE es == [g.entries EXCEPT ![i] = e]
           h == [g EXCEPT !.entries[i] = e]
<1>1. /\ g = [blocks |-> g.blocks, first |-> g.first, last |-> g.last, backup |-> g.backup,
              primaryArray |-> g.primaryArray, backupArray |-> g.backupArray,
              entries |-> g.entries, damaged |-> g.damaged]
      /\ g.blocks \in Int /\ g.first \in Int /\ g.last \in Int /\ g.backup \in Int
      /\ g.primaryArray \in Int /\ g.backupArray \in Int /\ g.entries \in Seq(Pairs)
      /\ g.first <= g.last + 1 /\ Spread(g.entries, g.first, g.last)
  BY GptFields
<1>2. es \in Seq(Pairs) /\ DOMAIN es = DOMAIN g.entries BY <1>1
<1>3. es[i] = e /\ \A k \in DOMAIN es : k # i => es[k] = g.entries[k] BY <1>1
<1>4. \A k \in DOMAIN es : g.entries[k] \in Pairs BY <1>1, <1>2
<1>5. Spread(es, g.first, g.last)
  <2>1. ASSUME NEW k \in DOMAIN es, es[k] # Unused
        PROVE  es[k][2] > 0 /\ es[k][1] >= g.first /\ End(es[k]) - 1 <= g.last
    <3>1. CASE k = i
      BY <3>1, <2>1, <1>3 DEF Check
    <3>2. CASE k # i
      BY <3>2, <2>1, <1>1, <1>2, <1>3 DEF Spread
    <3> QED BY <3>1, <3>2
  <2>2. ASSUME NEW k \in DOMAIN es, k # i, es[k] # Unused, es[i] # Unused
        PROVE  Apart(e, g.entries[k])
    <3>1. k \in Used(g) \ {i} BY <2>2, <1>2, <1>3 DEF Used
    <3>2. ~(e[1] <= End(g.entries[k]) - 1 /\ g.entries[k][1] < End(e))
      BY <3>1, <2>2, <1>3 DEF Check
    <3>3. g.entries[k] \in Pairs BY <2>2, <1>4
    <3> HIDE DEF es
    <3> QED BY <3>2, <3>3 DEF Apart, End, Pairs
  <2>3. ASSUME NEW j \in DOMAIN es, NEW k \in DOMAIN es, j # k, es[j] # Unused, es[k] # Unused
        PROVE  End(es[j]) <= es[k][1] \/ End(es[k]) <= es[j][1]
    <3>1. CASE j = i
      <4>1. Apart(e, g.entries[k]) BY <3>1, <2>3, <2>2
      <4>2. es[j] = e /\ es[k] = g.entries[k] BY <3>1, <2>3, <1>3
      <4> QED BY <4>1, <4>2 DEF Apart
    <3>2. CASE k = i
      <4>1. Apart(e, g.entries[j]) BY <3>2, <2>3, <2>2
      <4>2. es[k] = e /\ es[j] = g.entries[j] BY <3>2, <2>3, <1>3
      <4> QED BY <4>1, <4>2 DEF Apart
    <3>3. CASE j # i /\ k # i
      <4>1. es[j] = g.entries[j] /\ es[k] = g.entries[k] BY <3>3, <1>3
      <4> QED BY <4>1, <2>3, <1>1, <1>2 DEF Spread
    <3> QED BY <3>1, <3>2, <3>3
  <2> QED BY <2>1, <2>3 DEF Spread
<1>6. h = [g EXCEPT !.entries = es] OBVIOUS
<1> HIDE DEF es, h
<1>7. h = [blocks |-> g.blocks, first |-> g.first, last |-> g.last, backup |-> g.backup,
           primaryArray |-> g.primaryArray, backupArray |-> g.backupArray,
           entries |-> es, damaged |-> g.damaged]
  BY <1>1, <1>6
<1>8. GptOK(h) BY <1>1, <1>2, <1>5, <1>7, GptUpdated
<1> QED BY <1>8 DEF h

\* Fewer or more entries.
LEMMA SetCount ==
  ASSUME NEW g, GptOK(g), NEW c \in Nat, NEW h,
         \A i \in Used(g) : i <= c,
         Usable(g, g.backup, c).last >= Usable(g, g.backup, c).first,
         CheckUsable(g, Usable(g, g.backup, c).first, Usable(g, g.backup, c).last),
         h = [g EXCEPT !.entries = [i \in 1 .. c |->
                          IF i \in DOMAIN g.entries THEN g.entries[i] ELSE Unused],
                       !.first = Usable(g, g.backup, c).first,
                       !.last = Usable(g, g.backup, c).last,
                       !.backupArray = Usable(g, g.backup, c).last + 1]
  PROVE  GptOK(h)
<1> DEFINE es == [i \in 1 .. c |-> IF i \in DOMAIN g.entries THEN g.entries[i] ELSE Unused]
           first == g.primaryArray + c
           last == g.backup - c - 1
<1>1. /\ g = [blocks |-> g.blocks, first |-> g.first, last |-> g.last, backup |-> g.backup,
              primaryArray |-> g.primaryArray, backupArray |-> g.backupArray,
              entries |-> g.entries, damaged |-> g.damaged]
      /\ g.blocks \in Int /\ g.first \in Int /\ g.last \in Int /\ g.backup \in Int
      /\ g.primaryArray \in Int /\ g.backupArray \in Int /\ g.entries \in Seq(Pairs)
      /\ g.first <= g.last + 1 /\ Spread(g.entries, g.first, g.last)
  BY GptFields
<1>2. first \in Int /\ last \in Int /\ last >= first /\ first <= last + 1
      /\ CheckUsable(g, first, last)
  <2>1. Usable(g, g.backup, c) = [first |-> first, last |-> last] BY DEF Usable
  <2>2. Usable(g, g.backup, c).first = first /\ Usable(g, g.backup, c).last = last BY <2>1
  <2>3. first \in Int /\ last \in Int BY <1>1
  <2> HIDE DEF first, last
  <2> QED BY <2>2, <2>3
<1>3. Unused \in Pairs BY DEF Unused, Pairs
<1>4. es \in Seq(Pairs) /\ DOMAIN es = 1 .. c
  <2>1. \A i \in DOMAIN g.entries : g.entries[i] \in Pairs BY <1>1
  <2>2. es \in [1 .. c -> Pairs] BY <2>1, <1>3
  <2> QED BY <2>2
<1>5. \A i \in 1 .. c : es[i] # Unused =>
        i \in Used(g) /\ i \in DOMAIN g.entries /\ es[i] = g.entries[i] /\ es[i] \in Pairs
  <2>1. \A i \in DOMAIN g.entries : g.entries[i] \in Pairs BY <1>1
  <2> QED BY <2>1 DEF Used
<1>6. Spread(es, first, last)
  <2> HIDE DEF es, first, last
  <2>1. ASSUME NEW k \in DOMAIN es, es[k] # Unused
        PROVE  es[k][2] > 0 /\ es[k][1] >= first /\ End(es[k]) - 1 <= last
    <3>1. k \in Used(g) /\ k \in DOMAIN g.entries /\ es[k] = g.entries[k] BY <2>1, <1>4, <1>5
    <3>2. g.entries[k][2] > 0 BY <2>1, <3>1, <1>1 DEF Spread
    <3>3. g.entries[k][1] >= first /\ End(g.entries[k]) - 1 <= last
      BY <3>1, <1>2 DEF CheckUsable
    <3> QED BY <3>1, <3>2, <3>3
  <2>2. ASSUME NEW j \in DOMAIN es, NEW k \in DOMAIN es, j # k, es[j] # Unused, es[k] # Unused
        PROVE  End(es[j]) <= es[k][1] \/ End(es[k]) <= es[j][1]
    <3>1. j \in DOMAIN g.entries /\ es[j] = g.entries[j] BY <2>2, <1>4, <1>5
    <3>2. k \in DOMAIN g.entries /\ es[k] = g.entries[k] BY <2>2, <1>4, <1>5
    <3> QED BY <3>1, <3>2, <2>2, <1>1 DEF Spread
  <2> QED BY <2>1, <2>2 DEF Spread
<1>7. /\ Usable(g, g.backup, c).first = first /\ Usable(g, g.backup, c).last = last
  BY DEF Usable
<1> HIDE DEF es, first, last
<1>8. h = [g EXCEPT !.entries = es, !.first = first, !.last = last, !.backupArray = last + 1]
  BY <1>7 DEF es
<1>9. h = [blocks |-> g.blocks, first |-> first, last |-> last, backup |-> g.backup,
           primaryArray |-> g.primaryArray, backupArray |-> last + 1,
           entries |-> es, damaged |-> g.damaged]
  BY <1>1, <1>8
<1>10. last + 1 \in Int BY <1>2
<1>11. GptOK(g) /\ g.blocks \in Int BY <1>1
<1> QED BY ONLY <1>1, <1>2, <1>4, <1>6, <1>9, <1>10, <1>11, GptUpdated

\* The backup moved to the end of n blocks.
LEMMA Relocated ==
  ASSUME NEW g, GptOK(g), NEW n \in Nat, NEW h,
         Usable(g, n - 1, Len(g.entries)).last >= g.first,
         CheckUsable(g, g.first, Usable(g, n - 1, Len(g.entries)).last),
         h = [g EXCEPT !.blocks = n, !.backup = n - 1,
                       !.last = Usable(g, n - 1, Len(g.entries)).last,
                       !.backupArray = Usable(g, n - 1, Len(g.entries)).last + 1]
  PROVE  GptOK(h)
<1> DEFINE last == n - 1 - Len(g.entries) - 1
<1>1. /\ g = [blocks |-> g.blocks, first |-> g.first, last |-> g.last, backup |-> g.backup,
              primaryArray |-> g.primaryArray, backupArray |-> g.backupArray,
              entries |-> g.entries, damaged |-> g.damaged]
      /\ g.blocks \in Int /\ g.first \in Int /\ g.last \in Int /\ g.backup \in Int
      /\ g.primaryArray \in Int /\ g.backupArray \in Int /\ g.entries \in Seq(Pairs)
      /\ g.first <= g.last + 1 /\ Spread(g.entries, g.first, g.last)
  BY GptFields
<1>2. Usable(g, n - 1, Len(g.entries)).last = last BY DEF Usable
<1>3. last \in Int BY <1>1
<1> HIDE DEF last
<1>4. last >= g.first /\ CheckUsable(g, g.first, last) BY <1>2
<1>5. Spread(g.entries, g.first, last)
  <2>1. ASSUME NEW k \in DOMAIN g.entries, g.entries[k] # Unused
        PROVE  /\ g.entries[k][2] > 0 /\ g.entries[k][1] >= g.first
               /\ End(g.entries[k]) - 1 <= last
    <3>1. k \in Used(g) BY <2>1 DEF Used
    <3>2. End(g.entries[k]) - 1 <= last BY <3>1, <1>4 DEF CheckUsable
    <3> QED BY <3>2, <2>1, <1>1 DEF Spread
  <2> QED BY <2>1, <1>1 DEF Spread
<1>6. h = [g EXCEPT !.blocks = n, !.backup = n - 1, !.last = last, !.backupArray = last + 1]
  BY <1>2
<1>7. h = [blocks |-> n, first |-> g.first, last |-> last, backup |-> n - 1,
           primaryArray |-> g.primaryArray, backupArray |-> last + 1,
           entries |-> g.entries, damaged |-> g.damaged]
  BY <1>1, <1>6
<1>8. last + 1 \in Int /\ n \in Int /\ n - 1 \in Int /\ g.first <= last + 1 BY <1>1, <1>3, <1>4
<1>9. GptOK(g) BY <1>1
<1> QED BY ONLY <1>1, <1>3, <1>5, <1>7, <1>8, <1>9, GptUpdated

\* Every edit.
LEMMA GptEditsKeep ==
  ASSUME NEW g, GptOK(g), NEW h \in GptEdits(g)
  PROVE  GptOK(h)
<1>0. Extents \subseteq Pairs /\ Sizes \subseteq Nat /\ Counts \subseteq Nat
  BY DiskAssumption DEF Pairs
<1>g. g.entries \in Seq(Pairs) BY GptFields
<1>e. \A i \in DOMAIN g.entries : g.entries[i] \in Pairs BY <1>g
<1>1. CASE h \in GptAdds(g)
  <2>1. PICK a \in (DOMAIN g.entries \ Used(g)) \X Extents :
           Check(g, a[1], a[2]) /\ h = [g EXCEPT !.entries[a[1]] = a[2]]
    BY <1>1 DEF GptAdds
  <2>2. a[1] \in DOMAIN g.entries /\ a[2] \in Pairs BY <2>1, <1>0
  <2> QED BY <2>1, <2>2, SetEntry
<1>2. CASE h \in GptRemoves(g)
  <2>1. PICK i \in Used(g) : h = [g EXCEPT !.entries[i] = Unused] BY <1>2 DEF GptRemoves
  <2>2. i \in DOMAIN g.entries BY <2>1 DEF Used
  <2>3. Unused \in Pairs BY DEF Unused, Pairs
  <2> QED BY <2>1, <2>2, <2>3, SetEntry
<1>3. CASE h \in GptResizes(g)
  <2>1. PICK a \in Used(g) \X Extents :
           /\ Check(g, a[1], <<g.entries[a[1]][1], a[2][2]>>)
           /\ h = [g EXCEPT !.entries[a[1]] = <<@[1], a[2][2]>>]
    BY <1>3 DEF GptResizes
  <2> DEFINE i == a[1]
             e == <<g.entries[i][1], a[2][2]>>
  <2>2. i \in DOMAIN g.entries /\ a[2] \in Pairs BY <2>1, <1>0 DEF Used
  <2>3. e \in Pairs BY <2>2, <1>e DEF Pairs
  <2>4. h = [g EXCEPT !.entries[i] = e] BY <2>1
  <2>5. Check(g, i, e) BY <2>1
  <2> HIDE DEF i, e
  <2> QED BY <2>2, <2>3, <2>4, <2>5, SetEntry
<1>4. CASE h \in SetEntryCounts(g)
  <2>1. PICK c \in Counts :
          /\ h = [g EXCEPT !.entries = [i \in 1 .. c |->
                           IF i \in DOMAIN g.entries THEN g.entries[i] ELSE Unused],
                        !.first = Usable(g, g.backup, c).first,
                        !.last = Usable(g, g.backup, c).last,
                        !.backupArray = Usable(g, g.backup, c).last + 1]
          /\ \A i \in Used(g) : i <= c
          /\ Usable(g, g.backup, c).last >= Usable(g, g.backup, c).first
          /\ CheckUsable(g, Usable(g, g.backup, c).first, Usable(g, g.backup, c).last)
    BY <1>4 DEF SetEntryCounts
  <2>2. c \in Nat BY <1>0
  <2> QED BY <2>1, <2>2, SetCount
<1>5. CASE h \in RelocateBackups(g)
  <2>1. PICK n \in Sizes :
          /\ h = [g EXCEPT !.blocks = n, !.backup = n - 1,
                        !.last = Usable(g, n - 1, Len(g.entries)).last,
                        !.backupArray = Usable(g, n - 1, Len(g.entries)).last + 1]
          /\ Usable(g, n - 1, Len(g.entries)).last >= g.first
          /\ CheckUsable(g, g.first, Usable(g, n - 1, Len(g.entries)).last)
    BY <1>5 DEF RelocateBackups
  <2>2. n \in Nat BY <1>0
  <2> QED BY <2>1, <2>2, Relocated
<1> QED BY <1>1, <1>2, <1>3, <1>4, <1>5 DEF GptEdits

\* Gpt::new.
LEMMA GptNewOK ==
  ASSUME NEW n \in Sizes, GptNew(n).last >= GptNew(n).first
  PROVE  /\ GptOK(GptNew(n))
         /\ \A i \in 1 .. DefaultEntries : GptNew(n).entries[i] = Unused
         /\ DOMAIN GptNew(n).entries = 1 .. DefaultEntries
<1> DEFINE g == GptNew(n)
           es == [i \in 1 .. DefaultEntries |-> Unused]
           first == 2 + DefaultEntries
           last == n - 2 - DefaultEntries
<1>1. n \in Nat /\ DefaultEntries \in Nat BY Constants
<1>2. first \in Int /\ last \in Int /\ n - 1 \in Int /\ n - 1 - DefaultEntries \in Int
  BY <1>1
<1>3. Unused \in Pairs BY DEF Unused, Pairs
<1>4. es \in Seq(Pairs)
  <2>1. es \in [1 .. DefaultEntries -> Pairs] BY <1>3
  <2> QED BY <2>1, <1>1
<1>5. g = [blocks |-> n, first |-> first, last |-> last, backup |-> n - 1, primaryArray |-> 2,
           backupArray |-> n - 1 - DefaultEntries, entries |-> es, damaged |-> "none"]
  BY DEF GptNew
<1>6. Spread(es, first, last) BY DEF Spread
<1>7. \A i \in 1 .. DefaultEntries : es[i] = Unused OBVIOUS
<1>8. DOMAIN es = 1 .. DefaultEntries OBVIOUS
<1> HIDE DEF es, first, last, g
<1>9. g \in GptRec BY <1>1, <1>2, <1>4, <1>5 DEF GptRec
<1>10. g.first = first /\ g.last = last /\ g.entries = es BY <1>5
<1>11. last >= first BY <1>10 DEF g
<1>12. first <= last + 1 BY <1>2, <1>11
<1>13. GptOK(g) BY <1>6, <1>9, <1>10, <1>12 DEF GptOK
<1> QED BY <1>7, <1>8, <1>10, <1>13 DEF g

-----------------------------------------------------------------------------
(* What is laid out. *)

\* Rounding up stays among the integers, or the naturals.
LEMMA AlignUpType ==
  ASSUME NEW T, T = Nat \/ T = Int, NEW b \in T, NEW a \in Nat \ {0}
  PROVE  AlignUp(b, a) \in T
<1>1. b + a - 1 \in Int /\ (b \in Nat => b + a - 1 \in Nat) BY DEF AlignUp
<1> DEFINE c == b + a - 1
           q == c \div a
<1>2. q \in Int /\ (b \in Nat => q \in Nat) BY <1>1
<1>3. AlignUp(b, a) = q * a BY DEF AlignUp
<1> HIDE DEF q
<1>4. q * a \in Int /\ (q \in Nat => q * a \in Nat) BY <1>2
<1> QED BY <1>2, <1>3, <1>4

\* The end of the k-th extent, after one that ended in block e.
Till(sizes, align, cursor, end, gap, k, e) ==
    IF k = 0 THEN cursor
    ELSE IF sizes[k] = 0 THEN end
    ELSE AlignUp(e + gap, align) + sizes[k]

\* The ends up to the m-th one.
Tills(sizes, align, cursor, end, gap, m, g) ==
    /\ g = [k \in 0 .. m |-> g[k]]
    /\ \A k \in 0 .. m : g[k] = Till(sizes, align, cursor, end, gap, k, g[k - 1])

\* There are such ends.
LEMMA TillsExist ==
  ASSUME NEW sizes, NEW align, NEW cursor, NEW end, NEW gap, NEW m \in Nat
  PROVE  \E g : Tills(sizes, align, cursor, end, gap, m, g)
<1> DEFINE T(k, e) == Till(sizes, align, cursor, end, gap, k, e)
           Q(k, g) == Tills(sizes, align, cursor, end, gap, k, g)
           S == {k \in Nat : ~\E g : Q(k, g)}
<1> SUFFICES ASSUME S # {} PROVE FALSE
  OBVIOUS
<1>1. PICK k \in S : \A j \in S : k <= j
  BY LeastNatural, Zenon
<1>2. k # 0
  <2> DEFINE h == [j \in 0 .. 0 |-> cursor]
  <2>1. \A j \in 0 .. 0 : h[j] = T(j, h[j - 1]) BY DEF Till
  <2>2. h = [j \in 0 .. 0 |-> h[j]] OBVIOUS
  <2>3. Q(0, h) BY <2>1, <2>2 DEF Tills
  <2> QED BY <2>3
<1>3. k - 1 \in Nat /\ k - 1 \notin S
  BY <1>1, <1>2
<1>4. PICK g : Q(k - 1, g)
  BY <1>3
<1> DEFINE h == [j \in 0 .. k |-> IF j = k THEN T(k, g[k - 1]) ELSE g[j]]
<1>5. Q(k, h)
  <2>1. ASSUME NEW j \in 0 .. k PROVE h[j] = T(j, h[j - 1])
    <3>1. CASE j = k
      <4> HIDE DEF T
      <4>1. h[k] = T(k, g[k - 1]) /\ h[k - 1] = g[k - 1] BY <1>2
      <4> QED BY <4>1, <3>1
    <3>2. CASE j # k /\ j # 0
      <4>1. j \in 0 .. k - 1 /\ h[j] = g[j] /\ h[j - 1] = g[j - 1] BY <3>2
      <4>2. g[j] = T(j, g[j - 1]) BY <1>4, <4>1, Zenon DEF Tills
      <4> QED BY <4>1, <4>2
    <3>3. CASE j = 0 /\ j # k
      <4>1. j \in 0 .. k - 1 /\ h[j] = g[j] BY <3>3
      <4>2. g[j] = T(j, g[j - 1]) BY <1>4, <4>1, Zenon DEF Tills
      <4>3. \A e : T(0, e) = cursor BY DEF Till
      <4> QED BY <4>1, <4>2, <4>3, <3>3
    <3> QED BY <3>1, <3>2, <3>3
  <2>2. h = [j \in 0 .. k |-> h[j]]
    OBVIOUS
  <2> HIDE DEF h
  <2> QED BY <2>1, <2>2, Zenon DEF Tills
<1> QED BY <1>5

\* The extents: as many as sizes, from integers to integers.
LEMMA LaidOutIs ==
  ASSUME NEW T, T = Nat \/ T = Int, NEW sizes \in Seq(Nat), NEW align \in Nat \ {0},
         NEW cursor \in T, NEW end \in T, NEW gap \in Nat
  PROVE  LET p == LaidOut(sizes, align, cursor, end, gap)
         IN  /\ p \in Seq(Pairs) /\ Len(p) = Len(sizes)
             /\ \A k \in 1 .. Len(sizes) : p[k][1] \in T /\ End(p[k]) \in T
<1> DEFINE n == Len(sizes)
           Step(k, g) == IF k = 0 THEN cursor
                         ELSE IF sizes[k] = 0 THEN end
                         ELSE AlignUp(g[k - 1] + gap, align) + sizes[k]
           till == CHOOSE g : g = [k \in 0 .. n |-> Step(k, g)]
           start(k) == AlignUp(till[k - 1] + gap, align)
           p == LaidOut(sizes, align, cursor, end, gap)
<1>0. n \in Nat /\ \A k \in 1 .. n : sizes[k] \in Nat OBVIOUS
<1>1. PICK g : Tills(sizes, align, cursor, end, gap, n, g) BY <1>0, TillsExist
<1>2. g = [k \in 0 .. n |-> Step(k, g)]
  <2>1. \A k \in 0 .. n : g[k] = Step(k, g) BY <1>1 DEF Tills, Till
  <2> HIDE DEF Step
  <2> QED BY <1>1, <2>1, Zenon DEF Tills
<1>3. till = [k \in 0 .. n |-> Step(k, till)]
  <2> HIDE DEF Step
  <2> QED BY <1>2
<1>4. p = [k \in 1 .. n |-> <<start(k), till[k] - start(k)>>]
  BY DEF LaidOut
<1> HIDE DEF till
<1>5. \A k \in 0 .. n : till[k] = Step(k, till)
  <2> HIDE DEF Step
  <2> QED BY <1>3
<1>6. \A k \in 0 .. n : till[k] \in T
  <2> DEFINE S == {k \in 0 .. n : till[k] \notin T}
  <2> SUFFICES ASSUME S # {} PROVE FALSE
    OBVIOUS
  <2>1. S \in SUBSET Nat OBVIOUS
  <2> HIDE DEF S
  <2>2. PICK k \in S : \A j \in S : k <= j BY <2>1, LeastNatural, Zenon
  <2>3. k \in 0 .. n /\ till[k] \notin T BY <2>2 DEF S
  <2>4. k # 0 BY <2>3, <1>5, <1>0
  <2>5. k - 1 \in 0 .. n /\ k - 1 \notin S BY <2>2, <2>3, <2>4, <1>0
  <2>6. till[k - 1] \in T BY <2>5 DEF S
  <2>7. till[k - 1] + gap \in T BY <2>6
  <2>8. AlignUp(till[k - 1] + gap, align) \in T BY <2>7, AlignUpType
  <2>9. sizes[k] \in Nat BY <2>3, <2>4, <1>0
  <2>10. AlignUp(till[k - 1] + gap, align) + sizes[k] \in T BY <2>8, <2>9
  <2>11. Step(k, till) \in T BY <2>10, <2>4
  <2> HIDE DEF Step
  <2> QED BY <2>3, <2>11, <1>5
<1>7. ASSUME NEW k \in 1 .. n PROVE start(k) \in T
  <2>1. till[k - 1] \in T
    <3>1. k - 1 \in 0 .. n BY <1>0
    <3> QED BY <3>1, <1>6
  <2>2. till[k - 1] + gap \in T BY <2>1, SMTT(30)
  <2> QED BY <2>2, AlignUpType
<1> HIDE DEF start, p, n
<1>8. \A k \in 1 .. n : start(k) \in T /\ till[k] \in T
  <2>1. \A k \in 1 .. n : k \in 0 .. n BY <1>0
  <2> QED BY <2>1, <1>6, <1>7
<1>9. \A k \in 1 .. n : start(k) \in Int /\ till[k] \in Int BY <1>8
<1>10. \A k \in 1 .. n : p[k] = <<start(k), till[k] - start(k)>> BY <1>4
<1>11. ASSUME NEW k \in 1 .. n PROVE p[k] \in Pairs /\ p[k][1] = start(k) /\ End(p[k]) = till[k]
  <2>1. start(k) \in Int /\ till[k] \in Int BY <1>9
  <2> DEFINE a == start(k)
             b == till[k]
  <2>2. a \in Int /\ b \in Int BY <2>1
  <2>3. p[k] = <<a, b - a>> BY <1>10
  <2> HIDE DEF a, b
  <2>4. p[k] \in Pairs /\ p[k][1] = a /\ p[k][2] = b - a BY <2>2, <2>3 DEF Pairs
  <2>5. End(p[k]) = b BY <2>2, <2>4 DEF End
  <2> QED BY <2>4, <2>5 DEF a, b
<1>12. p \in Seq(Pairs) /\ Len(p) = n
  <2>1. p \in [1 .. n -> Pairs] BY <1>4, <1>11
  <2> QED BY <2>1, <1>0
<1> QED BY <1>8, <1>11, <1>12 DEF p, n

\* A GPT that was built.
LEMMA BuildGptOK ==
  ASSUME NEW n \in Sizes, NEW layout \in Layouts, NEW g \in BuildGpt(n, layout)
  PROVE  GptOK(g)
<1> DEFINE new == GptNew(n)
           placed == LaidOut(layout.sizes, layout.align, new.first, new.last + 1, 0)
           es == [i \in 1 .. DefaultEntries |-> IF i <= Len(placed) THEN placed[i] ELSE Unused]
<1>1. /\ g = [new EXCEPT !.entries = es]
      /\ new.last >= new.first /\ Len(placed) <= DefaultEntries
      /\ \A i \in 1 .. Len(placed) : Check(g, i, placed[i])
  BY DEF BuildGpt
<1>2. GptOK(new) BY <1>1, GptNewOK
<1> HIDE DEF new
<1>3. /\ new = [blocks |-> new.blocks, first |-> new.first, last |-> new.last,
                backup |-> new.backup, primaryArray |-> new.primaryArray,
                backupArray |-> new.backupArray, entries |-> new.entries, damaged |-> new.damaged]
      /\ new.blocks \in Int /\ new.first \in Int /\ new.last \in Int /\ new.backup \in Int
      /\ new.primaryArray \in Int /\ new.backupArray \in Int /\ new.first <= new.last + 1
  BY <1>2, GptFields
<1>4. layout.sizes \in Seq(Nat) /\ layout.align \in Nat \ {0} BY DiskAssumption
<1>5. placed \in Seq(Pairs) /\ Len(placed) \in Nat
  <2>1. new.last + 1 \in Int /\ 0 \in Nat BY <1>3
  <2>2. placed \in Seq(Pairs) BY <1>3, <1>4, <2>1, LaidOutIs
  <2> QED BY <2>2
<1> HIDE DEF placed
<1>6. Unused \in Pairs BY DEF Unused, Pairs
<1>7. DefaultEntries \in Nat BY Constants
<1>8. es \in Seq(Pairs) /\ DOMAIN es = 1 .. DefaultEntries
  <2>1. \A i \in 1 .. DefaultEntries : i <= Len(placed) => i \in 1 .. Len(placed) BY <1>5, <1>7
  <2>2. es \in [1 .. DefaultEntries -> Pairs] BY <1>5, <1>6, <2>1
  <2> QED BY <2>2, <1>7
<1>9. \A i \in 1 .. DefaultEntries : es[i] # Unused =>
        i \in 1 .. Len(placed) /\ es[i] = placed[i] /\ es[i] \in Pairs
  <2>1. \A i \in 1 .. DefaultEntries : i <= Len(placed) => i \in 1 .. Len(placed) BY <1>5, <1>7
  <2> QED BY <2>1, <1>5
<1> HIDE DEF es
<1>10. /\ g = [blocks |-> new.blocks, first |-> new.first, last |-> new.last,
                backup |-> new.backup, primaryArray |-> new.primaryArray,
                backupArray |-> new.backupArray, entries |-> es, damaged |-> new.damaged]
  BY <1>1, <1>3
<1>11. g.entries = es /\ g.first = new.first /\ g.last = new.last BY <1>10
<1>12. Spread(es, new.first, new.last)
  <2>1. ASSUME NEW k \in DOMAIN es, es[k] # Unused
        PROVE  es[k][2] > 0 /\ es[k][1] >= new.first /\ End(es[k]) - 1 <= new.last
    <3>1. k \in 1 .. Len(placed) /\ es[k] = placed[k] BY <2>1, <1>8, <1>9
    <3>2. Check(g, k, es[k]) BY <3>1, <1>1
    <3> QED BY <3>2, <1>11 DEF Check
  <2>2. ASSUME NEW j \in DOMAIN es, NEW k \in DOMAIN es, j # k, es[j] # Unused, es[k] # Unused
        PROVE  End(es[j]) <= es[k][1] \/ End(es[k]) <= es[j][1]
    <3>1. j \in 1 .. Len(placed) /\ es[j] = placed[j] /\ es[j] \in Pairs BY <2>2, <1>8, <1>9
    <3>2. Check(g, j, es[j]) BY <3>1, <1>1
    <3>3. k \in Used(g) \ {j} BY <2>2, <1>11 DEF Used
    <3>4. ~(es[j][1] <= End(es[k]) - 1 /\ es[k][1] < End(es[j]))
      BY <3>2, <3>3, <1>11 DEF Check
    <3>5. es[k] \in Pairs BY <2>2, <1>8, <1>9
    <3> QED BY <3>1, <3>4, <3>5 DEF End, Pairs
  <2> QED BY <2>1, <2>2 DEF Spread
<1> QED BY ONLY <1>2, <1>3, <1>8, <1>10, <1>12, GptUpdated

-----------------------------------------------------------------------------
(* A hybrid MBR is a protective one. *)

\* The first block of a mirrored partition is an integer, if there is one.
LEMMA FirstMirror ==
  ASSUME NEW S \in SUBSET Int, S # {}, NEW low \in Int, \A s \in S : low <= s
  PROVE  (CHOOSE s \in S : \A o \in S : s <= o) \in Int
<1> DEFINE N == {n \in Nat : low + n \in S}
<1>1. PICK s \in S : TRUE OBVIOUS
<1>2. s - low \in N
  <2>1. s - low \in Nat /\ low + (s - low) = s BY <1>1
  <2> QED BY <2>1
<1>3. N \in SUBSET Nat /\ N # {} BY <1>2
<1> HIDE DEF N
<1>4. PICK n \in N : \A m \in N : n <= m BY <1>3, LeastNatural, Zenon
<1>5. n \in Nat /\ low + n \in S BY <1>4 DEF N
<1>6. ASSUME NEW o \in S PROVE low + n <= o
  <2>1. o - low \in Nat /\ low + (o - low) = o /\ o \in Int OBVIOUS
  <2>2. o - low \in N BY <2>1 DEF N
  <2>3. n <= o - low BY <2>2, <1>4
  <2> QED BY <2>1, <2>3, <1>5
<1> DEFINE c == CHOOSE s1 \in S : \A o \in S : s1 <= o
<1>7. c \in S BY <1>5, <1>6
<1> QED BY <1>7

\* Its entries.
LEMMA HybridOK ==
  ASSUME NEW g, GptOK(g), NEW protective \in 1 .. Slots, NEW n \in 0 .. Slots - 1,
         NEW mirrors \in [1 .. n -> Used(g)]
  PROVE  Protected(Hybrid(g, protective, mirrors))
<1> DEFINE starts == {g.entries[i][1] : i \in Range(mirrors)}
           end == IF starts = {} THEN g.blocks - 1
                  ELSE (CHOOSE s \in starts : \A o \in starts : s <= o) - 1
           K(slot) == IF slot < protective THEN slot ELSE slot - 1
           es == Hybrid(g, protective, mirrors)
<1>0. /\ g.blocks \in Int /\ g.first \in Int /\ g.entries \in Seq(Pairs)
      /\ Spread(g.entries, g.first, g.last)
  BY GptFields
<1>1. \A i \in Used(g) : i \in DOMAIN g.entries /\ g.entries[i] # Unused /\ g.entries[i] \in Pairs
  BY <1>0 DEF Used
<1>2. Range(mirrors) \subseteq Used(g) BY DEF Range
<1>3. starts \in SUBSET Int /\ \A s \in starts : g.first <= s
  BY <1>0, <1>1, <1>2 DEF Spread, Pairs
<1>4. end \in Int
  <2> HIDE DEF starts
  <2>1. CASE starts = {}
    BY <2>1, <1>0
  <2>2. CASE starts # {}
    <3> DEFINE s0 == CHOOSE s \in starts : \A o \in starts : s <= o
    <3>1. s0 \in Int BY <2>2, <1>0, <1>3, FirstMirror
    <3> HIDE DEF s0
    <3>2. s0 - 1 \in Int BY <3>1
    <3> QED BY <2>2, <3>2 DEF s0
  <2> QED BY <2>1, <2>2
<1> DEFINE Slot(slot) ==
             IF slot = protective THEN Entry("protective", 1, end)
             ELSE IF K(slot) \in DOMAIN mirrors
                  THEN Entry("linux", g.entries[mirrors[K(slot)]][1], g.entries[mirrors[K(slot)]][2])
                  ELSE Empty
<1>5. es = [slot \in 1 .. Slots |-> Slot(slot)]
  BY DEF Hybrid
<1> HIDE DEF end, es
<1>6. ASSUME NEW slot \in 1 .. Slots
      PROVE  /\ Slot(slot) \in EntryRec
             /\ Slot(slot).kind \in {"empty", "linux", "protective"}
             /\ Slot(slot).kind = "protective" <=> slot = protective
  <2>1. CASE slot = protective
    <3>1. "protective" \in EntryKinds /\ 1 \in Int BY DEF EntryKinds
    <3>2. Entry("protective", 1, end) \in EntryRec /\ Entry("protective", 1, end).kind = "protective"
      BY <3>1, <1>4, EntryIs
    <3> QED BY <3>2, <2>1
  <2>2. CASE slot # protective /\ K(slot) \in DOMAIN mirrors
    <3> DEFINE a == g.entries[mirrors[K(slot)]][1]
               b == g.entries[mirrors[K(slot)]][2]
    <3>1. mirrors[K(slot)] \in Used(g) BY <2>2
    <3>2. a \in Int /\ b \in Int BY <3>1, <1>1 DEF Pairs
    <3>3. Slot(slot) = Entry("linux", a, b) BY <2>2
    <3> HIDE DEF a, b, Slot
    <3>4. "linux" \in EntryKinds BY DEF EntryKinds
    <3>5. Entry("linux", a, b) \in EntryRec /\ Entry("linux", a, b).kind = "linux"
      BY <3>2, <3>4, EntryIs
    <3> QED BY <3>3, <3>5, <2>2
  <2>3. CASE slot # protective /\ ~(K(slot) \in DOMAIN mirrors)
    <3>1. Slot(slot) = Empty BY <2>3
    <3> HIDE DEF Slot
    <3>2. Empty \in EntryRec /\ Empty.kind = "empty" BY DEF Empty, Entry, EntryRec, EntryKinds
    <3> QED BY <3>1, <3>2, <2>3
  <2> QED BY <2>1, <2>2, <2>3
<1> HIDE DEF Slot
<1>7. es \in [1 .. Slots -> EntryRec] BY <1>5, <1>6
<1>8. \A slot \in 1 .. Slots : /\ es[slot].kind \in {"empty", "linux", "protective"}
                               /\ es[slot].kind = "protective" <=> slot = protective
  BY <1>5, <1>6
<1> QED BY <1>7, <1>8 DEF Protected, es

-----------------------------------------------------------------------------
(* The checked edits of an MBR. *)

\* An extent of MBR entries.
ApartEntries(a, b) == a.start + a.len <= b.start \/ b.start + b.len <= a.start

\* The primary partitions of an MBR are apart from each other.
PrimariesApart(es) ==
    \A i, k \in 1 .. Slots : es[i].kind # "empty" =>
        /\ es[i].len > 0
        /\ i # k /\ es[k].kind # "empty" => ApartEntries(es[i], es[k])

\* MbrApart in these terms.
LEMMA MbrApartIs ==
  ASSUME NEW t
  PROVE  MbrApart(t) <=> /\ PrimariesApart(t.entries)
                         /\ ExtendedSlots(t.entries) # {} =>
                              LogicalsApart(t.logical, Extended(t.entries))
  BY DEF MbrApart, PrimariesApart, ApartEntries, Occupied

\* A slot that was set, checked, or emptied.
LEMMA SetSlot ==
  ASSUME NEW t, MbrOK(t), NEW i \in 1 .. Slots, NEW e \in EntryRec,
         e.kind \in {"empty", "linux", "extended"}, e.kind = "extended" => e.start > 0,
         e.kind # "empty" => CheckPrimary(t, i, e)
  PROVE  LET es == [t.entries EXCEPT ![i] = e]
         IN  /\ MbrEntries(es)
             /\ PrimariesApart(t.entries) => PrimariesApart(es)
             /\ e.kind = "extended" =>
                  ExtendedSlots(es) = {i} /\ Extended(es) = e /\ e.len > 0
             /\ e.kind # "extended" =>
                  /\ ExtendedSlots(es) = ExtendedSlots(t.entries) \ {i}
                  /\ t.entries[i].kind # "extended" /\ ExtendedSlots(t.entries) # {} =>
                       Extended(es) = Extended(t.entries)
<1> DEFINE old == t.entries
           es == [old EXCEPT ![i] = e]
<1>1. /\ old \in [1 .. Slots -> EntryRec]
      /\ \A k \in 1 .. Slots : old[k].kind # "protective"
      /\ \A j, k \in 1 .. Slots : old[j].kind = "extended" /\ old[k].kind = "extended" => j = k
      /\ \A k \in 1 .. Slots : old[k].kind = "extended" => old[k].start > 0
  BY DEF MbrOK, MbrEntries
<1>2. /\ es \in [1 .. Slots -> EntryRec] /\ es[i] = e
      /\ \A k \in 1 .. Slots : k # i => es[k] = old[k]
  BY <1>1
<1>3. \A k \in 1 .. Slots : k # i /\ old[k].kind # "empty" => k \in Occupied(t) \ {i}
  BY DEF Occupied
<1> HIDE DEF es, old
<1>4. \A k \in 1 .. Slots : e.kind = "extended" /\ k # i => old[k].kind # "extended"
  BY <1>3 DEF CheckPrimary, old
<1>5. MbrEntries(es)
  <2>1. \A k \in 1 .. Slots : es[k].kind # "protective" BY <1>1, <1>2
  <2>2. ASSUME NEW j \in 1 .. Slots, NEW k \in 1 .. Slots,
               es[j].kind = "extended", es[k].kind = "extended"
        PROVE  j = k
    <3>1. CASE j = i
      BY <3>1, <2>2, <1>2, <1>4
    <3>2. CASE k = i
      BY <3>2, <2>2, <1>2, <1>4
    <3>3. CASE j # i /\ k # i
      BY <3>3, <2>2, <1>1, <1>2
    <3> QED BY <3>1, <3>2, <3>3
  <2>3. \A k \in 1 .. Slots : es[k].kind = "extended" => es[k].start > 0 BY <1>1, <1>2
  <2> QED BY <2>1, <2>2, <2>3, <1>2 DEF MbrEntries
<1>6. ASSUME PrimariesApart(old) PROVE PrimariesApart(es)
  <2>1. ASSUME NEW k \in 1 .. Slots, k # i, old[k].kind # "empty", e.kind # "empty"
        PROVE  ApartEntries(e, old[k]) /\ ApartEntries(old[k], e)
    <3>1. k \in Occupied(t) \ {i} BY <2>1, <1>3
    <3>2. ~(e.start < old[k].start + old[k].len /\ old[k].start < e.start + e.len)
      BY <3>1, <2>1 DEF CheckPrimary, old
    <3>3. old[k] \in EntryRec BY <1>1
    <3> QED BY <3>2, <3>3 DEF EntryRec, ApartEntries
  <2>2. e.kind # "empty" => e.len > 0 BY DEF CheckPrimary
  <2>3. ASSUME NEW j \in 1 .. Slots, NEW k \in 1 .. Slots, es[j].kind # "empty"
        PROVE  es[j].len > 0 /\ (j # k /\ es[k].kind # "empty" => ApartEntries(es[j], es[k]))
    <3>1. CASE j = i
      BY <3>1, <2>1, <2>2, <2>3, <1>2
    <3>2. CASE j # i /\ k = i
      <4>1. old[j].len > 0 BY <3>2, <2>3, <1>2, <1>6 DEF PrimariesApart
      <4> QED BY <3>2, <4>1, <2>1, <2>3, <1>2
    <3>3. CASE j # i /\ k # i
      BY <3>3, <2>3, <1>2, <1>6 DEF PrimariesApart
    <3> QED BY <3>1, <3>2, <3>3
  <2> QED BY <2>3 DEF PrimariesApart
<1>7. ASSUME e.kind = "extended"
      PROVE  ExtendedSlots(es) = {i} /\ Extended(es) = e /\ e.len > 0
  <2>1. es[i].kind = "extended" BY <1>7, <1>2
  <2>2. ExtendedSlots(es) = {i} /\ Extended(es) = es[i] BY <2>1, <1>5, ExtendedIs
  <2>3. e.len > 0 BY <1>7 DEF CheckPrimary
  <2> QED BY <2>2, <2>3, <1>2
<1>8. ASSUME e.kind # "extended"
      PROVE  /\ ExtendedSlots(es) = ExtendedSlots(old) \ {i}
             /\ old[i].kind # "extended" /\ ExtendedSlots(old) # {} =>
                  Extended(es) = Extended(old)
  <2>1. ExtendedSlots(es) = ExtendedSlots(old) \ {i} BY <1>8, <1>2 DEF ExtendedSlots
  <2>2. ASSUME old[i].kind # "extended", ExtendedSlots(old) # {}
        PROVE  Extended(es) = Extended(old)
    <3>1. i \notin ExtendedSlots(old) BY <2>2 DEF ExtendedSlots
    <3>2. ExtendedSlots(es) = ExtendedSlots(old) BY <3>1, <2>1
    <3> DEFINE x == CHOOSE k \in ExtendedSlots(old) : TRUE
    <3>3. x \in ExtendedSlots(old) BY <2>2
    <3>4. x # i /\ x \in 1 .. Slots BY <3>3, <3>1 DEF ExtendedSlots
    <3>5. Extended(es) = es[x] BY <3>2 DEF Extended
    <3>6. Extended(old) = old[x] BY DEF Extended
    <3> HIDE DEF x
    <3> QED BY <3>4, <3>5, <3>6, <1>2
  <2> QED BY <2>1, <2>2
<1> QED BY <1>5, <1>6, <1>7, <1>8 DEF es, old

\* Where the record of a logical partition goes.
LEMMA PlacedEbrIs ==
  ASSUME NEW k \in Nat \ {0}, NEW l \in LogicalRec, NEW prev \in Int, NEW start \in Int
  PROVE  /\ PlacedEbr(k, l, prev, start) \in Int
         /\ k = 1 => PlacedEbr(k, l, prev, start) = start
         /\ k # 1 => PlacedEbr(k, l, prev, start) < l.start
<1>1. l.ebr \in Int /\ l.start \in Int BY DEF LogicalRec
<1>2. CASE k = 1
  <2>1. PlacedEbr(k, l, prev, start) = start BY <1>2 DEF PlacedEbr
  <2> QED BY <2>1, <1>2
<1>3. CASE k # 1 /\ prev <= l.ebr /\ l.ebr < l.start /\ l.ebr # start
  <2>1. k > 1 BY <1>3
  <2>2. PlacedEbr(k, l, prev, start) = l.ebr BY <1>3, <2>1 DEF PlacedEbr
  <2> QED BY <2>2, <1>1, <1>3
<1>4. CASE k # 1 /\ ~(prev <= l.ebr /\ l.ebr < l.start /\ l.ebr # start)
  <2>1. PlacedEbr(k, l, prev, start) = l.start - 1 BY <1>4 DEF PlacedEbr
  <2> QED BY <2>1, <1>1, <1>4
<1> QED BY <1>2, <1>3, <1>4

\* Partitions with their records placed.
LEMMA PlacedIs ==
  ASSUME NEW start \in Int, NEW s \in Seq(LogicalRec)
  PROVE  LET p == Placed(start, s)
         IN  /\ p \in Seq(LogicalRec) /\ Len(p) = Len(s)
             /\ \A k \in 1 .. Len(s) : /\ p[k].start = s[k].start /\ p[k].len = s[k].len
                                       /\ k = 1 => p[k].ebr = start
                                       /\ k # 1 => p[k].ebr < p[k].start
<1> DEFINE n == Len(s)
           prev(k) == s[k - 1].start + s[k - 1].len
           ebr(k) == PlacedEbr(k, s[k], prev(k), start)
           p == Placed(start, s)
<1>1. n \in Nat /\ \A k \in 1 .. n : s[k] \in LogicalRec OBVIOUS
<1>2. p = [k \in 1 .. n |-> [s[k] EXCEPT !.ebr = ebr(k)]] BY DEF Placed
<1>3. ASSUME NEW k \in 1 .. n
      PROVE  /\ ebr(k) \in Int
             /\ k = 1 => ebr(k) = start
             /\ k # 1 => ebr(k) < s[k].start
  <2>0. k \in Nat \ {0} /\ s[k] \in LogicalRec BY <1>1
  <2>1. CASE k = 1
    <3>1. ebr(k) = start BY <2>1 DEF PlacedEbr
    <3> QED BY <3>1, <2>1
  <2>2. CASE k # 1
    <3>1. k - 1 \in 1 .. n BY <2>2, <1>1
    <3>a. s[k - 1] \in LogicalRec BY <3>1, <1>1
    <3>2. prev(k) \in Int BY <3>a DEF LogicalRec
    <3> HIDE DEF prev
    <3>3. ebr(k) \in Int /\ ebr(k) < s[k].start BY <2>0, <2>2, <3>2, PlacedEbrIs
    <3> QED BY <3>3, <2>2
  <2> QED BY <2>1, <2>2
<1> HIDE DEF ebr, p, n
<1>4. ASSUME NEW k \in 1 .. n
      PROVE  /\ p[k] \in LogicalRec /\ p[k].start = s[k].start /\ p[k].len = s[k].len
             /\ p[k].ebr = ebr(k)
  <2>1. p[k] = [s[k] EXCEPT !.ebr = ebr(k)] BY <1>2
  <2>2. s[k] \in LogicalRec /\ ebr(k) \in Int BY <1>1, <1>3
  <2> QED BY <2>1, <2>2 DEF LogicalRec
<1>5. p \in Seq(LogicalRec) /\ Len(p) = n
  <2>1. p \in [1 .. n -> LogicalRec] BY <1>2, <1>4
  <2> QED BY <2>1, <1>1
<1> QED BY <1>3, <1>4, <1>5 DEF p, n

\* If there is room for them, they and their records are apart.
LEMMA CanPlaceApart ==
  ASSUME NEW x \in EntryRec, NEW s \in Seq(LogicalRec),
         CanPlace(x.start, x.start + x.len, Placed(x.start, s))
  PROVE  LET p == Placed(x.start, s)
         IN  Logicals(p) /\ LogicalsApart(p, x) /\ Linked(p, x)
<1> DEFINE p == Placed(x.start, s)
           n == Len(p)
<1>0. x.start \in Int /\ x.len \in Int BY DEF EntryRec
<1>1. p \in Seq(LogicalRec) /\ Len(p) = Len(s) /\ n \in Nat BY <1>0, PlacedIs
<1>2. \A k \in 1 .. n : /\ k = 1 => p[k].ebr = x.start
                        /\ k # 1 => p[k].ebr < p[k].start
  BY <1>0, <1>1, PlacedIs
<1> HIDE DEF p
<1>3. /\ n <= MaxLogical
      /\ \A k \in 1 .. n :
           /\ p[k].len > 0 /\ p[k].start > x.start /\ p[k].start + p[k].len <= x.start + x.len
           /\ k > 1 => p[k].ebr >= p[k - 1].start + p[k - 1].len
  BY DEF CanPlace, p
<1>a. \A k \in 1 .. n : p[k] \in LogicalRec BY <1>1
<1>4. \A k \in 1 .. n : p[k].ebr \in Int /\ p[k].start \in Int /\ p[k].len \in Int
  BY <1>a DEF LogicalRec
<1>5. \A k \in 1 .. n : p[k].ebr < p[k].start
  BY <1>2, <1>3
<1> DEFINE end(k) == p[k].start + p[k].len
<1>6. \A i, k \in 1 .. n : i < k => end(i) <= p[k].ebr
  <2> DEFINE S == {k \in Nat : k <= n /\ \E i \in 1 .. n : i < k /\ ~(end(i) <= p[k].ebr)}
  <2>1. S = {}
    <3> SUFFICES ASSUME S # {} PROVE FALSE
      OBVIOUS
    <3>1. S \in SUBSET Nat OBVIOUS
    <3> HIDE DEF S
    <3>2. PICK k \in S : \A j \in S : k <= j BY <3>1, LeastNatural, Zenon
    <3>3. k \in Nat /\ k <= n BY <3>2 DEF S
    <3>4. PICK i \in 1 .. n : i < k /\ ~(end(i) <= p[k].ebr) BY <3>2 DEF S
    <3>5. k \in 1 .. n /\ k - 1 \in 1 .. n /\ k > 1 BY <3>3, <3>4, <1>1
    <3>6. end(k - 1) <= p[k].ebr BY <3>5, <1>3
    <3>7. i # k - 1 BY <3>4, <3>6
    <3>8. i < k - 1 BY <3>3, <3>4, <3>7
    <3>9. k - 1 \notin S
      <4>1. ~(k <= k - 1) BY <3>3
      <4> QED BY <4>1, <3>2
    <3>10. end(i) <= p[k - 1].ebr BY <3>5, <3>8, <3>9 DEF S
    <3>11. p[k - 1].ebr < p[k - 1].start /\ p[k - 1].len > 0 BY <3>5, <1>3, <1>5
    <3>12. end(i) \in Int /\ end(k - 1) \in Int /\ p[k].ebr \in Int /\ p[k - 1].ebr \in Int
           /\ p[k - 1].start \in Int /\ p[k - 1].len \in Int
           /\ end(k - 1) = p[k - 1].start + p[k - 1].len
      BY <3>5, <1>4, SMTT(30)
    <3> HIDE DEF end
    <3> QED BY <3>4, <3>6, <3>10, <3>11, <3>12, SMTT(30)
  <2>2. ASSUME NEW i \in 1 .. n, NEW k \in 1 .. n, i < k PROVE end(i) <= p[k].ebr
    <3>1. k \in Nat /\ k <= n /\ k \notin S BY <2>1, <1>1
    <3> HIDE DEF end
    <3> QED BY <3>1, <2>2
  <2> QED BY <2>2
<1>7. LogicalsApart(p, x) BY <1>3, <1>5, <1>6 DEF LogicalsApart
<1>8. Linked(p, x)
  <2>1. p # <<>> => p[1].ebr = x.start
    <3>1. p # <<>> => 1 \in 1 .. n BY <1>1
    <3> QED BY <3>1, <1>2
  <2>2. ASSUME NEW i \in 1 .. n, NEW k \in 1 .. n, i < k PROVE p[i].ebr < p[k].ebr
    <3>1. end(i) <= p[k].ebr /\ p[i].ebr < p[i].start /\ p[i].len > 0 BY <2>2, <1>3, <1>5, <1>6
    <3> QED BY <3>1, <1>4, SMTT(30)
  <2>3. ASSUME NEW k \in 1 .. n PROVE p[k].ebr >= x.start /\ p[k].ebr < x.start + x.len
    <3>1. p[k].ebr < p[k].start /\ p[k].len > 0 /\ p[k].start + p[k].len <= x.start + x.len
      BY <1>3, <1>5
    <3>2. p[k].ebr < x.start + x.len BY <3>1, <1>0, <1>4
    <3>3. CASE k = 1
      BY <3>2, <3>3, <1>0, <1>2
    <3>4. CASE k # 1
      <4>1. 1 \in 1 .. n /\ 1 < k BY <3>4, <1>1
      <4>2. end(1) <= p[k].ebr /\ p[1].start > x.start /\ p[1].len > 0 BY <4>1, <1>3, <1>6
      <4> QED BY <3>2, <4>1, <4>2, <1>0, <1>4
    <3> QED BY <3>3, <3>4
  <2> QED BY <2>1, <2>2, <2>3 DEF Linked
<1> QED BY <1>1, <1>3, <1>7, <1>8 DEF p, Logicals

\* So they are in whatever order they are placed.
LEMMA PlacementsApart ==
  ASSUME NEW x \in EntryRec, NEW l \in Seq(LogicalRec),
         NEW p \in Placements(x.start, x.start + x.len, l)
  PROVE  Logicals(p) /\ LogicalsApart(p, x) /\ Linked(p, x)
<1> DEFINE n == Len(l)
<1>1. PICK s \in InOrder(l) : p = Placed(x.start, s) /\ CanPlace(x.start, x.start + x.len, p)
  BY DEF Placements
<1>2. PICK q \in [1 .. n -> 1 .. n] : s = [k \in 1 .. n |-> l[q[k]]]
  BY <1>1 DEF InOrder
<1>3. s \in Seq(LogicalRec)
  <2>1. n \in Nat /\ \A k \in 1 .. n : l[q[k]] \in LogicalRec OBVIOUS
  <2>2. s \in [1 .. n -> LogicalRec] BY <2>1, <1>2
  <2> QED BY <2>1, <2>2
<1> QED BY <1>1, <1>3, CanPlaceApart

\* An MBR with other entries or logical partitions.
LEMMA MbrUpdated ==
  ASSUME NEW blocks \in Int, NEW es, MbrEntries(es), NEW l, Logicals(l),
         l # <<>> => ExtendedSlots(es) # {},
         ExtendedSlots(es) # {} => Extended(es).len > 0 /\ Linked(l, Extended(es)),
         NEW h, h = [kind |-> "mbr", blocks |-> blocks, entries |-> es, logical |-> l]
  PROVE  /\ MbrOK(h)
         /\ PrimariesApart(es) /\ (ExtendedSlots(es) # {} => LogicalsApart(l, Extended(es)))
              => MbrApart(h)
<1>1. es \in [1 .. Slots -> EntryRec] /\ l \in Seq(LogicalRec) BY DEF MbrEntries, Logicals
<1>2. h \in [kind : {"mbr"}, blocks : Int, entries : [1 .. Slots -> EntryRec],
             logical : Seq(LogicalRec)]
  BY <1>1
<1>3. h.entries = es /\ h.logical = l OBVIOUS
<1>4. MbrOK(h) BY <1>2, <1>3 DEF MbrOK
<1>5. MbrApart(h) <=> /\ PrimariesApart(es)
                      /\ ExtendedSlots(es) # {} => LogicalsApart(l, Extended(es))
  BY <1>3, MbrApartIs
<1> QED BY <1>4, <1>5

\* The fields of an MBR.
LEMMA MbrFields ==
  ASSUME NEW t, MbrOK(t)
  PROVE  /\ t = [kind |-> "mbr", blocks |-> t.blocks, entries |-> t.entries, logical |-> t.logical]
         /\ t.blocks \in Int /\ t.entries \in [1 .. Slots -> EntryRec] /\ MbrEntries(t.entries)
         /\ Logicals(t.logical) /\ t.logical \in Seq(LogicalRec)
         /\ t.logical # <<>> => ExtendedSlots(t.entries) # {}
         /\ ExtendedSlots(t.entries) # {} =>
              Extended(t.entries).len > 0 /\ Linked(t.logical, Extended(t.entries))
  BY DEF MbrOK

\* No logical partitions.
LEMMA NoLogicals ==
  ASSUME NEW x
  PROVE  Logicals(<<>>) /\ Linked(<<>>, x) /\ LogicalsApart(<<>>, x)
<1>1. Len(<<>>) = 0 /\ <<>> \in Seq(LogicalRec) OBVIOUS
<1>2. Len(<<>>) <= MaxLogical BY <1>1, Constants
<1> QED BY <1>1, <1>2 DEF Logicals, Linked, LogicalsApart

\* Two fields of an MBR replaced.
LEMMA MbrExcept ==
  ASSUME NEW blocks, NEW entries, NEW logical, NEW es, NEW l,
         NEW t, t = [kind |-> "mbr", blocks |-> blocks, entries |-> entries, logical |-> logical],
         NEW h, h = [t EXCEPT !.entries = es, !.logical = l]
  PROVE  h = [kind |-> "mbr", blocks |-> blocks, entries |-> es, logical |-> l]
  OBVIOUS

\* A slot was set; the logical partitions stay, or are those of the new entry.
LEMMA SlotEdited ==
  ASSUME NEW t, MbrOK(t), NEW i \in 1 .. Slots, NEW e \in EntryRec,
         e.kind \in {"empty", "linux", "extended"}, e.kind = "extended" => e.start > 0,
         e.kind # "empty" => CheckPrimary(t, i, e),
         NEW l, Logicals(l),
         e.kind = "extended" => Linked(l, e) /\ LogicalsApart(l, e),
         e.kind # "extended" => l = t.logical /\ (t.entries[i].kind = "extended" => l = <<>>)
  PROVE  LET h == [t EXCEPT !.entries[i] = e, !.logical = l]
         IN  MbrOK(h) /\ (MbrApart(t) => MbrApart(h))
<1> DEFINE es == [t.entries EXCEPT ![i] = e]
           h == [t EXCEPT !.entries[i] = e, !.logical = l]
<1>1. /\ t = [kind |-> "mbr", blocks |-> t.blocks, entries |-> t.entries, logical |-> t.logical]
      /\ t.blocks \in Int /\ MbrEntries(t.entries)
      /\ t.logical # <<>> => ExtendedSlots(t.entries) # {}
      /\ ExtendedSlots(t.entries) # {} =>
           Extended(t.entries).len > 0 /\ Linked(t.logical, Extended(t.entries))
  BY MbrFields
<1>2. /\ MbrEntries(es)
      /\ PrimariesApart(t.entries) => PrimariesApart(es)
      /\ e.kind = "extended" => ExtendedSlots(es) = {i} /\ Extended(es) = e /\ e.len > 0
      /\ e.kind # "extended" =>
           /\ ExtendedSlots(es) = ExtendedSlots(t.entries) \ {i}
           /\ t.entries[i].kind # "extended" /\ ExtendedSlots(t.entries) # {} =>
                Extended(es) = Extended(t.entries)
  BY SetSlot
<1>3. h = [kind |-> "mbr", blocks |-> t.blocks, entries |-> es, logical |-> l]
  <2>1. h = [t EXCEPT !.entries = es, !.logical = l] OBVIOUS
  <2> DEFINE a == t.blocks
             b == t.entries
             c == t.logical
  <2>2. t = [kind |-> "mbr", blocks |-> a, entries |-> b, logical |-> c]
    BY <1>1
  <2> HIDE DEF h, es, a, b, c
  <2>3. h = [kind |-> "mbr", blocks |-> a, entries |-> es, logical |-> l]
    BY ONLY <2>1, <2>2, MbrExcept
  <2> QED BY <2>3 DEF a
<1>4. MbrApart(t) <=> /\ PrimariesApart(t.entries)
                      /\ ExtendedSlots(t.entries) # {} =>
                           LogicalsApart(t.logical, Extended(t.entries))
  BY MbrApartIs
<1> HIDE DEF h, es
<1>5. CASE e.kind = "extended"
  <2>1. /\ l # <<>> => ExtendedSlots(es) # {}
        /\ ExtendedSlots(es) # {} => Extended(es).len > 0 /\ Linked(l, Extended(es))
        /\ ExtendedSlots(es) # {} => LogicalsApart(l, Extended(es))
    BY <1>5, <1>2
  <2> QED BY <2>1, <1>1, <1>2, <1>3, <1>4, MbrUpdated DEF h
<1>6. CASE e.kind # "extended" /\ t.entries[i].kind = "extended"
  <2>1. ExtendedSlots(es) = {} /\ l = <<>>
    <3>1. ExtendedSlots(t.entries) = {i} BY <1>1, <1>6, ExtendedIs
    <3> QED BY <3>1, <1>2, <1>6
  <2> QED BY <2>1, <1>1, <1>2, <1>3, <1>4, MbrUpdated DEF h
<1>7. CASE e.kind # "extended" /\ t.entries[i].kind # "extended"
  <2>1. l = t.logical /\ ExtendedSlots(es) = ExtendedSlots(t.entries)
    <3>1. i \notin ExtendedSlots(t.entries) BY <1>7 DEF ExtendedSlots
    <3> QED BY <3>1, <1>2, <1>7
  <2>2. ExtendedSlots(es) # {} => Extended(es) = Extended(t.entries) BY <2>1, <1>2, <1>7
  <2> QED BY <2>1, <2>2, <1>1, <1>2, <1>3, <1>4, MbrUpdated DEF h
<1> QED BY <1>5, <1>6, <1>7

\* The tables with the i-th entry as long as y.
Resized(t, i, y) ==
    LET e == [t.entries[i] EXCEPT !.len = y[2]]
    IN  IF ~CheckPrimary(t, i, e) THEN {}
        ELSE IF e.kind # "extended" THEN {[t EXCEPT !.entries[i] = e]}
        ELSE {[t EXCEPT !.entries[i] = e, !.logical = p] :
                p \in Placements(e.start, e.start + e.len, t.logical)}

\* The tables with another logical partition, without one, and with a longer one.
Added(t, y) == WithLogical(t, Append(t.logical, [ebr |-> 0, start |-> y[1], len |-> y[2]]))
Dropped(t, k) == WithLogical(t, RemoveAt(t.logical, k))
Lengthened(t, k, y) == WithLogical(t, [t.logical EXCEPT ![k].len = y[2]])

\* Every edit.
LEMMA MbrEditsKeep ==
  ASSUME NEW t, MbrOK(t), NEW h \in MbrEdits(t)
  PROVE  MbrOK(h) /\ (MbrApart(t) => MbrApart(h))
<1>0. Extents \subseteq Nat \X Nat /\ ExtendedAt \subseteq Nat \X Nat BY DiskAssumption
<1>1. /\ t = [kind |-> "mbr", blocks |-> t.blocks, entries |-> t.entries, logical |-> t.logical]
      /\ t.blocks \in Int /\ t.entries \in [1 .. Slots -> EntryRec] /\ MbrEntries(t.entries)
      /\ Logicals(t.logical) /\ t.logical \in Seq(LogicalRec)
      /\ t.logical # <<>> => ExtendedSlots(t.entries) # {}
      /\ ExtendedSlots(t.entries) # {} =>
           Extended(t.entries).len > 0 /\ Linked(t.logical, Extended(t.entries))
  BY MbrFields
<1>2. /\ \A i \in 1 .. Slots : t.entries[i] \in EntryRec
      /\ \A i \in 1 .. Slots : t.entries[i].kind \in {"empty", "linux", "extended"}
      /\ \A i \in 1 .. Slots : t.entries[i].kind = "extended" => t.entries[i].start > 0
  BY <1>1 DEF MbrEntries, EntryRec, EntryKinds
<1>3. ASSUME NEW i \in 1 .. Slots, NEW e \in EntryRec, e.kind \in {"empty", "linux"},
             e.kind # "empty" => CheckPrimary(t, i, e),
             t.entries[i].kind = "extended" => t.logical = <<>>,
             h = [t EXCEPT !.entries[i] = e]
      PROVE  MbrOK(h) /\ (MbrApart(t) => MbrApart(h))
  <2> DEFINE g == [t EXCEPT !.entries[i] = e, !.logical = t.logical]
  <2>1. MbrOK(g) /\ (MbrApart(t) => MbrApart(g)) BY <1>1, <1>3, SlotEdited
  <2>2. h = g
    <3> DEFINE es == [t.entries EXCEPT ![i] = e]
    <3>1. h = [t EXCEPT !.entries = es] BY <1>3
    <3>2. g = [t EXCEPT !.entries = es, !.logical = t.logical] OBVIOUS
    <3>3. t = [kind |-> "mbr", blocks |-> t.blocks, entries |-> t.entries, logical |-> t.logical]
      BY <1>1
    <3> DEFINE a == t.blocks
               b == t.entries
               c == t.logical
    <3>4. t = [kind |-> "mbr", blocks |-> a, entries |-> b, logical |-> c] BY <3>3
    <3>5. g = [t EXCEPT !.entries = es, !.logical = c] BY <3>2
    <3> HIDE DEF g, es, a, b, c
    <3>6. g = [kind |-> "mbr", blocks |-> a, entries |-> es, logical |-> c]
      BY ONLY <3>4, <3>5, MbrExcept
    <3>7. h = [kind |-> "mbr", blocks |-> a, entries |-> es, logical |-> c]
      BY ONLY <3>1, <3>4
    <3> QED BY <3>6, <3>7
  <2> QED BY <2>1, <2>2
<1>4. CASE h \in MbrAdds(t)
  <2> DEFINE New == {Entry("linux", x[1], x[2]) : x \in Extents}
                      \cup {Entry("extended", x[1], x[2]) : x \in ExtendedAt}
  <2>1. PICK a \in ((1 .. Slots) \ Occupied(t)) \X New :
          CheckPrimary(t, a[1], a[2]) /\ h = [t EXCEPT !.entries[a[1]] = a[2]]
    BY <1>4 DEF MbrAdds
  <2> DEFINE i == a[1]
             e == a[2]
  <2>2. i \in 1 .. Slots /\ t.entries[i].kind = "empty" /\ e \in New
    BY <2>1 DEF Occupied
  <2>3. /\ e \in EntryRec /\ e.kind \in {"linux", "extended"}
        /\ e.start \in Nat
    <3>1. ASSUME NEW kind \in {"linux", "extended"}, NEW x \in Nat \X Nat
          PROVE  LET f == Entry(kind, x[1], x[2])
                 IN  f \in EntryRec /\ f.kind = kind /\ f.start \in Nat
      BY DEF Entry, EntryRec, EntryKinds
    <3> HIDE DEF e
    <3>2. CASE e \in {Entry("linux", x[1], x[2]) : x \in Extents}
      <4>1. PICK x \in Nat \X Nat : e = Entry("linux", x[1], x[2]) BY <3>2, <1>0
      <4> QED BY <4>1, <3>1
    <3>3. CASE e \in {Entry("extended", x[1], x[2]) : x \in ExtendedAt}
      <4>1. PICK x \in Nat \X Nat : e = Entry("extended", x[1], x[2]) BY <3>3, <1>0
      <4> QED BY <4>1, <3>1
    <3> QED BY <2>2, <3>2, <3>3
  <2>4. CheckPrimary(t, i, e) /\ h = [t EXCEPT !.entries[i] = e] BY <2>1
  <2> HIDE DEF i, e
  <2>5. CASE e.kind = "linux"
    BY <2>2, <2>3, <2>4, <2>5, <1>3
  <2>6. CASE e.kind = "extended"
    <3>1. ExtendedSlots(t.entries) = {}
      <4>1. ASSUME NEW k \in 1 .. Slots, t.entries[k].kind = "extended" PROVE FALSE
        <5>1. k \in Occupied(t) \ {i} BY <4>1, <2>2 DEF Occupied
        <5> QED BY <5>1, <4>1, <2>4, <2>6 DEF CheckPrimary
      <4> QED BY <4>1 DEF ExtendedSlots
    <3>2. t.logical = <<>> BY <3>1, <1>1
    <3>3. e.start > 0 BY <2>3, <2>4, <2>6 DEF CheckPrimary
    <3> DEFINE g == [t EXCEPT !.entries[i] = e, !.logical = <<>>]
    <3>4. Logicals(<<>>) /\ Linked(<<>>, e) /\ LogicalsApart(<<>>, e) BY NoLogicals
    <3>5. MbrOK(g) /\ (MbrApart(t) => MbrApart(g))
      BY <2>2, <2>3, <2>4, <2>6, <3>3, <3>4, SlotEdited
    <3>6. h = g
      <4> DEFINE es == [t.entries EXCEPT ![i] = e]
                 b == t.blocks
                 o == t.entries
                 c == t.logical
      <4>1. h = [t EXCEPT !.entries = es] BY <2>4
      <4>2. g = [t EXCEPT !.entries = es, !.logical = c] BY <3>2
      <4>3. t = [kind |-> "mbr", blocks |-> b, entries |-> o, logical |-> c] BY <1>1
      <4> HIDE DEF g, es, o, b, c
      <4>4. g = [kind |-> "mbr", blocks |-> b, entries |-> es, logical |-> c]
        BY ONLY <4>2, <4>3, MbrExcept
      <4>5. h = [kind |-> "mbr", blocks |-> b, entries |-> es, logical |-> c]
        BY ONLY <4>1, <4>3
      <4> QED BY <4>4, <4>5
    <3> QED BY <3>5, <3>6
  <2> QED BY <2>3, <2>5, <2>6
<1>5. CASE h \in MbrRemoves(t)
  <2>1. PICK i \in Occupied(t) : /\ t.entries[i].kind = "extended" => t.logical = <<>>
                                 /\ h = [t EXCEPT !.entries[i] = Empty]
    BY <1>5 DEF MbrRemoves
  <2>2. i \in 1 .. Slots BY <2>1 DEF Occupied
  <2>3. Empty \in EntryRec /\ Empty.kind = "empty" BY DEF Empty, Entry, EntryRec, EntryKinds
  <2> QED BY <2>1, <2>2, <2>3, <1>3
<1>6. CASE h \in MbrResizes(t)
  <2>1. PICK i \in Occupied(t), y \in Extents \cup ExtendedAt :
          h \in Resized(t, i, y)
    <3>1. MbrResizes(t) =
            UNION {Resized(t, i, y) : i \in Occupied(t), y \in Extents \cup ExtendedAt}
      BY DEF MbrResizes, Resized
    <3>2. \A S : h \in UNION S => \E s \in S : h \in s OBVIOUS
    <3> QED BY <1>6, <3>1, <3>2
  <2> DEFINE e == [t.entries[i] EXCEPT !.len = y[2]]
  <2>2. i \in 1 .. Slots /\ t.entries[i].kind # "empty" BY <2>1 DEF Occupied
  <2>3. y[2] \in Int BY <1>0
  <2>4. /\ e \in EntryRec /\ e.kind = t.entries[i].kind /\ e.start = t.entries[i].start
    <3>1. t.entries[i] \in EntryRec BY <2>2, <1>2
    <3> QED BY <3>1, <2>3 DEF EntryRec
  <2>5. /\ CheckPrimary(t, i, e)
        /\ e.kind # "extended" => h = [t EXCEPT !.entries[i] = e]
        /\ e.kind = "extended" => \E p \in Placements(e.start, e.start + e.len, t.logical) :
                                     h = [t EXCEPT !.entries[i] = e, !.logical = p]
    BY <2>1 DEF Resized
  <2> HIDE DEF e
  <2>6. CASE e.kind # "extended"
    <3>1. e.kind \in {"empty", "linux"} /\ t.entries[i].kind # "extended"
      BY <2>2, <2>4, <2>6, <1>2
    <3> QED BY <3>1, <2>2, <2>4, <2>5, <2>6, <1>3
  <2>7. CASE e.kind = "extended"
    <3>1. PICK p \in Placements(e.start, e.start + e.len, t.logical) :
             h = [t EXCEPT !.entries[i] = e, !.logical = p]
      BY <2>5, <2>7
    <3>2. Logicals(p) /\ LogicalsApart(p, e) /\ Linked(p, e)
      BY <2>4, <1>1, PlacementsApart
    <3>3. e.start > 0 BY <2>2, <2>4, <2>7, <1>2
    <3> QED BY <3>1, <3>2, <3>3, <2>2, <2>4, <2>5, <2>7, SlotEdited
  <2> QED BY <2>6, <2>7
<1>7. CASE ExtendedSlots(t.entries) # {} /\ h \in LogicalEdits(t)
  <2> DEFINE x == Extended(t.entries)
  <2>0. x \in EntryRec BY <1>1, <1>7, ExtendedEntry
  <2>1. ASSUME NEW l \in Seq(LogicalRec), h \in WithLogical(t, l)
        PROVE  MbrOK(h) /\ (MbrApart(t) => MbrApart(h))
    <3>1. PICK p \in Placements(x.start, x.start + x.len, l) : h = [t EXCEPT !.logical = p]
      BY <2>1 DEF WithLogical
    <3>2. Logicals(p) /\ LogicalsApart(p, x) /\ Linked(p, x) BY <2>0, PlacementsApart
    <3>3. h = [kind |-> "mbr", blocks |-> t.blocks, entries |-> t.entries, logical |-> p]
      <4> DEFINE b == t.blocks
                 o == t.entries
                 c == t.logical
      <4>1. t = [kind |-> "mbr", blocks |-> b, entries |-> o, logical |-> c] BY <1>1
      <4> HIDE DEF b, o, c
      <4>2. h = [kind |-> "mbr", blocks |-> b, entries |-> o, logical |-> p]
        BY ONLY <3>1, <4>1
      <4> QED BY <4>2 DEF b, o
    <3>4. x.len > 0 BY <1>1, <1>7
    <3>5. MbrApart(t) => PrimariesApart(t.entries) BY MbrApartIs
    <3> DEFINE o == t.entries
    <3>6. /\ MbrEntries(o) /\ (p # <<>> => ExtendedSlots(o) # {})
          /\ ExtendedSlots(o) # {} => Extended(o).len > 0 /\ Linked(p, Extended(o))
          /\ ExtendedSlots(o) # {} => LogicalsApart(p, Extended(o))
          /\ t.blocks \in Int
          /\ h = [kind |-> "mbr", blocks |-> t.blocks, entries |-> o, logical |-> p]
          /\ MbrApart(t) => PrimariesApart(o)
      BY <3>2, <3>3, <3>4, <3>5, <1>1, <1>7
    <3> HIDE DEF o
    <3> QED BY ONLY <3>2, <3>6, MbrUpdated
  <2>2. /\ \A y \in Nat \X Nat : [ebr |-> 0, start |-> y[1], len |-> y[2]] \in LogicalRec
    BY DEF LogicalRec
  <2>3. CASE \E y \in Extents : h \in WithLogical(t, Append(t.logical,
                [ebr |-> 0, start |-> y[1], len |-> y[2]]))
    <3>1. PICK y \in Extents : h \in WithLogical(t, Append(t.logical,
                [ebr |-> 0, start |-> y[1], len |-> y[2]]))
      BY <2>3
    <3>2. Append(t.logical, [ebr |-> 0, start |-> y[1], len |-> y[2]]) \in Seq(LogicalRec)
      <4>1. [ebr |-> 0, start |-> y[1], len |-> y[2]] \in LogicalRec BY <2>2, <1>0
      <4> QED BY <4>1, <1>1, AppendIs
    <3> QED BY <3>1, <3>2, <2>1
  <2>4. CASE \E k \in DOMAIN t.logical : h \in WithLogical(t, RemoveAt(t.logical, k))
    <3>1. PICK k \in DOMAIN t.logical : h \in WithLogical(t, RemoveAt(t.logical, k)) BY <2>4
    <3>2. RemoveAt(t.logical, k) \in Seq(LogicalRec)
      <4>1. k \in 1 .. Len(t.logical) BY <1>1
      <4> QED BY <4>1, <1>1 DEF RemoveAt
    <3> QED BY <3>1, <3>2, <2>1
  <2>5. CASE \E k \in DOMAIN t.logical, y \in Extents :
               h \in WithLogical(t, [t.logical EXCEPT ![k].len = y[2]])
    <3>1. PICK k \in DOMAIN t.logical, y \in Extents :
               h \in WithLogical(t, [t.logical EXCEPT ![k].len = y[2]])
      BY <2>5
    <3>2. [t.logical EXCEPT ![k].len = y[2]] \in Seq(LogicalRec)
      <4> DEFINE l == t.logical
                 n == Len(l)
      <4>1. l \in Seq(LogicalRec) /\ y[2] \in Int /\ k \in DOMAIN l BY <1>0, <1>1
      <4> HIDE DEF l
      <4>2. \A j \in 1 .. n : l[j] \in LogicalRec BY <4>1
      <4>3. [l EXCEPT ![k].len = y[2]] \in [1 .. n -> LogicalRec]
        <5>1. DOMAIN l = 1 .. n /\ k \in 1 .. n /\ n \in Nat BY <4>1
        <5>2. [l[k] EXCEPT !.len = y[2]] \in LogicalRec BY <5>1, <4>1, <4>2 DEF LogicalRec
        <5>3. [l EXCEPT ![k].len = y[2]] = [l EXCEPT ![k] = [l[k] EXCEPT !.len = y[2]]]
          BY <4>1
        <5>4. l \in [1 .. n -> LogicalRec] BY <4>1
        <5> DEFINE f == [l[k] EXCEPT !.len = y[2]]
        <5> HIDE DEF f, n
        <5>5. [l EXCEPT ![k] = f] \in [1 .. n -> LogicalRec]
          BY <5>2, <5>4 DEF f
        <5> QED BY <5>3, <5>5 DEF f
      <4>4. n \in Nat BY <4>1
      <4> DEFINE f == [l EXCEPT ![k].len = y[2]]
      <4>5. f \in [1 .. n -> LogicalRec] BY <4>3
      <4> HIDE DEF f, n
      <4>6. f \in Seq(LogicalRec) BY <4>4, <4>5
      <4> QED BY <4>6 DEF f, l
    <3> QED BY <3>1, <3>2, <2>1
  <2> DEFINE A == {Added(t, y) : y \in Extents}
             B == {Dropped(t, k) : k \in DOMAIN t.logical}
             C == {Lengthened(t, k, y) : k \in DOMAIN t.logical, y \in Extents}
  <2>e. LogicalEdits(t) = UNION (A \cup B \cup C)
    BY DEF LogicalEdits, Added, Dropped, Lengthened
  <2> HIDE DEF A, B, C
  <2>6. h \in UNION (A \cup B \cup C) BY <1>7, <2>e
  <2>7. PICK S \in A \cup B \cup C : h \in S BY <2>6
  <2>8. CASE S \in A
    BY <2>3, <2>7, <2>8 DEF A, Added
  <2>9. CASE S \in B
    BY <2>4, <2>7, <2>9 DEF B, Dropped
  <2>10. CASE S \in C
    <3>1. PICK k \in DOMAIN t.logical, y \in Extents : S = Lengthened(t, k, y)
      BY <2>10 DEF C
    <3>2. h \in Lengthened(t, k, y) BY <2>7, <3>1
    <3>3. h \in WithLogical(t, [t.logical EXCEPT ![k].len = y[2]])
      BY <3>2 DEF Lengthened
    <3> QED BY <2>5, <3>3
  <2> QED BY <2>7, <2>8, <2>9, <2>10
<1> QED BY <1>4, <1>5, <1>6, <1>7 DEF MbrEdits
-----------------------------------------------------------------------------
(* The MBR that is built. *)

\* How many partitions are primary, the extents of these, where the extended
\* partition starts, and the extents of the others.
Primaries(sizes) == IF Len(sizes) > Slots THEN Slots - 1 ELSE Len(sizes)
\* The extents of the primary partitions.
FirstExtents(n, o) ==
    LaidOut(SubSeq(o.sizes, 1, Primaries(o.sizes)), o.align, o.align, n, 0)
\* The first block of the extended partition.
ExtendedStart(n, o) ==
    AlignUp(IF FirstExtents(n, o) = <<>> THEN o.align ELSE End(Last(FirstExtents(n, o))), o.align)
\* The extents of the logical partitions.
RestExtents(n, o) ==
    LaidOut(SubSeq(o.sizes, Primaries(o.sizes) + 1, Len(o.sizes)), o.align, ExtendedStart(n, o), n, 1)

\* The entries and the logical partitions made of these.
BuiltEntries(pr, first, ext, rest) ==
    [i \in 1 .. Slots |->
        IF i <= pr THEN Entry("linux", first[i][1], first[i][2])
        ELSE IF i = pr + 1 /\ rest # <<>> THEN Entry("extended", ext, End(Last(rest)) - ext)
        ELSE Empty]
\* Logical partitions whose records have no place yet.
Unplaced(rest) == [k \in 1 .. Len(rest) |-> [ebr |-> 0, start |-> rest[k][1], len |-> rest[k][2]]]
\* The whole table.
Built(n, pr, first, ext, rest) ==
    [kind |-> "mbr", blocks |-> n, entries |-> BuiltEntries(pr, first, ext, rest),
     logical |-> Placed(ext, Unplaced(rest))]

\* The same as the model says it.
LEMMA BuildMbrIs ==
  ASSUME NEW n, NEW o, NEW t \in BuildMbr(n, o)
  PROVE  LET rest == RestExtents(n, o)
             ext == ExtendedStart(n, o)
         IN  /\ t = Built(n, Primaries(o.sizes), FirstExtents(n, o), ext, rest)
             /\ \A i \in Occupied(t) : CheckPrimary(t, i, t.entries[i])
             /\ rest # <<>> => CanPlace(ext, End(Last(rest)), t.logical)
BY Zenon DEF BuildMbr, Built, BuiltEntries, Unplaced, RestExtents, ExtendedStart, FirstExtents, Primaries

\* From numbers to numbers.
LEMMA LaidOutNat ==
  ASSUME NEW sizes \in Seq(Nat), NEW align \in Nat \ {0}, NEW cursor \in Nat,
         NEW end \in Nat, NEW gap \in Nat,
         NEW p, p = LaidOut(sizes, align, cursor, end, gap)
  PROVE  /\ p \in Seq(Pairs) /\ Len(p) = Len(sizes)
         /\ \A k \in 1 .. Len(sizes) : End(p[k]) \in Nat
<1>1. p \in Seq(Pairs) /\ \A k \in 1 .. Len(sizes) : End(p[k]) \in Nat
  <2>1. p \in Seq(Pairs)
    BY LaidOutIs
  <2>2. \A k \in 1 .. Len(sizes) : End(p[k]) \in Nat
    BY LaidOutIs
  <2> QED
    BY <2>1, <2>2
<1>2. DOMAIN p = 1 .. Len(sizes)
  BY Zenon DEF LaidOut
<1>3. Len(p) = Len(sizes)
  BY ONLY <1>1, <1>2, sizes \in Seq(Nat)
<1> QED
  BY <1>1, <1>3

\* The extents are ones of numbers, enough for the slots.
LEMMA ExtentsAre ==
  ASSUME NEW n \in Sizes, NEW o \in Layouts
  PROVE  LET pr == Primaries(o.sizes)
             first == FirstExtents(n, o)
             ext == ExtendedStart(n, o)
             rest == RestExtents(n, o)
         IN  /\ pr \in 0 .. Slots /\ ext \in Nat
             /\ first \in Seq(Pairs) /\ Len(first) = pr
             /\ rest \in Seq(Pairs)
             /\ rest # <<>> => pr + 1 \in 1 .. Slots /\ Last(rest) \in Pairs
<1> DEFINE s == o.sizes
           a == o.align
           pr == Primaries(s)
           first == FirstExtents(n, o)
           ext == ExtendedStart(n, o)
           rest == RestExtents(n, o)
<1>1. s \in Seq(Nat) /\ a \in Nat \ {0} /\ a \in Nat
  BY DiskAssumption
<1>2. n \in Nat /\ Slots \in Nat /\ Slots >= 1
  BY Constants
<1>3. pr \in Nat /\ pr <= Slots /\ pr <= Len(s) /\ (Len(s) > pr => pr = Slots - 1) /\ Len(s) \in Nat
  BY <1>1, <1>2 DEF Primaries
<1>4. /\ SubSeq(s, 1, pr) \in Seq(Nat) /\ Len(SubSeq(s, 1, pr)) = pr
      /\ SubSeq(s, pr + 1, Len(s)) \in Seq(Nat)
      /\ Len(SubSeq(s, pr + 1, Len(s))) = Len(s) - pr
  <2> HIDE DEF s, pr
  <2> QED
    BY <1>1, <1>3
<1>5. first = LaidOut(SubSeq(s, 1, pr), a, a, n, 0)
  BY DEF FirstExtents
<1>6. /\ first \in Seq(Pairs) /\ Len(first) = pr
      /\ \A k \in 1 .. pr : End(first[k]) \in Nat
  <2> DEFINE q == SubSeq(s, 1, pr)
  <2>1. q \in Seq(Nat) /\ Len(q) = pr /\ first = LaidOut(q, a, a, n, 0)
    BY <1>4, <1>5
  <2> HIDE DEF s, pr, a, first, q
  <2>2. 0 \in Nat
    OBVIOUS
  <2>3. first \in Seq(Pairs) /\ Len(first) = Len(q) /\ \A k \in 1 .. Len(q) : End(first[k]) \in Nat
    BY <1>1, <1>2, <2>1, <2>2, LaidOutNat
  <2> QED
    BY <2>1, <2>3
<1>7. ext \in Nat
  <2>1. ext = AlignUp(IF first = <<>> THEN a ELSE End(Last(first)), a)
    BY DEF ExtendedStart
  <2>2. CASE first = <<>>
    <3> HIDE DEF s, pr, a, first, ext
    <3> QED
      BY <1>1, <2>1, <2>2, AlignUpType
  <2>3. CASE first # <<>>
    <3> HIDE DEF s, pr, a, first, ext
    <3>1. Last(first) = first[pr] /\ pr \in 1 .. pr
      BY <1>3, <1>6, <2>3 DEF Last
    <3>2. End(Last(first)) \in Nat
      BY <1>6, <3>1
    <3> QED
      BY <1>1, <2>1, <2>3, <3>2, AlignUpType
  <2> QED
    BY <2>2, <2>3
<1>8. rest = LaidOut(SubSeq(s, pr + 1, Len(s)), a, ext, n, 1)
  BY DEF RestExtents
<1>9. rest \in Seq(Pairs) /\ Len(rest) = Len(s) - pr
  <2> DEFINE q == SubSeq(s, pr + 1, Len(s))
  <2>1. q \in Seq(Nat) /\ Len(q) = Len(s) - pr /\ rest = LaidOut(q, a, ext, n, 1)
    BY <1>4, <1>8
  <2> HIDE DEF s, pr, a, ext, rest, q
  <2>2. 1 \in Nat
    OBVIOUS
  <2>3. rest \in Seq(Pairs) /\ Len(rest) = Len(q)
    BY <1>1, <1>2, <1>7, <2>1, <2>2, LaidOutNat
  <2> QED
    BY <2>1, <2>3
<1>10. rest # <<>> => pr + 1 \in 1 .. Slots /\ Last(rest) \in Pairs
  <2> HIDE DEF s, pr, rest
  <2> QED
    BY <1>2, <1>3, <1>9 DEF Last
<1> HIDE DEF s, pr, a, first, ext, rest
<1>11. pr \in 0 .. Slots
  BY <1>2, <1>3
<1> QED
  BY <1>6, <1>7, <1>9, <1>10, <1>11 DEF s, pr, first, ext, rest

\* It is a good one, and its partitions are apart.
LEMMA BuildMbrOK ==
  ASSUME NEW n \in Sizes, NEW o \in Layouts, NEW t \in BuildMbr(n, o)
  PROVE  MbrOK(t) /\ MbrApart(t)
<1> DEFINE pr == Primaries(o.sizes)
           first == FirstExtents(n, o)
           ext == ExtendedStart(n, o)
           rest == RestExtents(n, o)
           es == BuiltEntries(pr, first, ext, rest)
           l == Placed(ext, Unplaced(rest))
           x == Entry("extended", ext, End(Last(rest)) - ext)
<1>1. /\ pr \in 0 .. Slots /\ ext \in Nat
      /\ first \in Seq(Pairs) /\ Len(first) = pr
      /\ rest \in Seq(Pairs)
      /\ rest # <<>> => pr + 1 \in 1 .. Slots /\ Last(rest) \in Pairs
  BY ExtentsAre
<1>2. /\ t = [kind |-> "mbr", blocks |-> n, entries |-> es, logical |-> l]
      /\ \A i \in Occupied(t) : CheckPrimary(t, i, t.entries[i])
      /\ rest # <<>> => CanPlace(ext, End(Last(rest)), l)
  <2>1. t = Built(n, pr, first, ext, rest)
    BY BuildMbrIs
  <2>2. /\ \A i \in Occupied(t) : CheckPrimary(t, i, t.entries[i])
        /\ rest # <<>> => CanPlace(ext, End(Last(rest)), t.logical)
    BY BuildMbrIs
  <2> HIDE DEF pr, first, ext, rest
  <2>3. t = [kind |-> "mbr", blocks |-> n, entries |-> es, logical |-> l]
    BY <2>1 DEF Built
  <2>4. t.logical = l
    BY <2>3
  <2> QED
    BY <2>2, <2>3, <2>4
<1>3. n \in Nat /\ n \in Int /\ Slots \in Nat /\ Slots >= 1
  BY Constants
<1>4. rest # <<>> => x \in EntryRec /\ x.kind = "extended" /\ x.start = ext
                       /\ x.len = End(Last(rest)) - ext /\ End(Last(rest)) \in Int
                       /\ x.start + x.len = End(Last(rest))
  <2> HIDE DEF pr, first, ext, rest
  <2> QED
    BY <1>1 DEF Entry, EntryRec, EntryKinds, Pairs, End
<1>5. \A i \in 1 .. Slots :
        /\ es[i] \in EntryRec /\ es[i].kind \in {"empty", "linux", "extended"}
        /\ es[i].kind = "extended" <=> i = pr + 1 /\ rest # <<>>
        /\ es[i].kind = "extended" => es[i] = x
  <2> SUFFICES ASSUME NEW i \in 1 .. Slots
               PROVE  /\ es[i] \in EntryRec /\ es[i].kind \in {"empty", "linux", "extended"}
                      /\ es[i].kind = "extended" <=> i = pr + 1 /\ rest # <<>>
                      /\ es[i].kind = "extended" => es[i] = x
    OBVIOUS
  <2>1. es[i] = IF i <= pr THEN Entry("linux", first[i][1], first[i][2])
                ELSE IF i = pr + 1 /\ rest # <<>> THEN x ELSE Empty
    BY DEF BuiltEntries
  <2> HIDE DEF pr, first, ext, rest, es, x
  <2>2. CASE i <= pr
    <3>1. i \in 1 .. Len(first) /\ i # pr + 1
      BY <1>1, <2>2
    <3>2. first[i] \in Pairs
      BY <1>1, <3>1
    <3> QED
      BY <2>1, <2>2, <3>1, <3>2 DEF Entry, EntryRec, EntryKinds, Pairs
  <2>3. CASE ~(i <= pr) /\ i = pr + 1 /\ rest # <<>>
    BY <1>4, <2>1, <2>3
  <2>4. CASE ~(i <= pr) /\ ~(i = pr + 1 /\ rest # <<>>)
    BY <2>1, <2>4 DEF Entry, Empty, EntryRec, EntryKinds
  <2> QED
    BY <2>2, <2>3, <2>4
<1>6. es = [i \in 1 .. Slots |-> es[i]]
  BY DEF BuiltEntries
<1>7. t.entries = es /\ t.blocks = n /\ Occupied(t) = {i \in 1 .. Slots : es[i].kind # "empty"}
  <2> HIDE DEF es, l
  <2> QED
    BY <1>2 DEF Occupied
<1>8. \A i \in 1 .. Slots : es[i].kind # "empty" =>
        /\ es[i].len > 0 /\ (es[i].kind = "extended" => es[i].start # 0)
        /\ \A k \in 1 .. Slots : i # k /\ es[k].kind # "empty" =>
             ~(es[i].start < es[k].start + es[k].len /\ es[k].start < es[i].start + es[i].len)
  <2> HIDE DEF es, l
  <2> QED
    BY <1>2, <1>7 DEF CheckPrimary
<1> HIDE DEF pr, first, ext, rest, es, x
<1>9. PrimariesApart(es)
  <2>1. \A i \in 1 .. Slots : es[i].start \in Int /\ es[i].len \in Int
    BY <1>5 DEF EntryRec
  <2> QED
    BY <1>8, <2>1 DEF PrimariesApart, ApartEntries
<1>10. MbrEntries(es)
  <2>1. es \in [1 .. Slots -> EntryRec]
    BY <1>5, <1>6
  <2>2. \A i \in 1 .. Slots : es[i].kind = "extended" => es[i].start > 0
    BY <1>1, <1>4, <1>5, <1>8
  <2> QED
    BY <1>5, <2>1, <2>2 DEF MbrEntries
<1>11. CASE rest = <<>>
  <2>1. ExtendedSlots(es) = {}
    BY <1>5, <1>11 DEF ExtendedSlots
  <2>2. l = <<>>
    BY <1>11 DEF Placed, Unplaced
  <2>3. Logicals(l)
    BY <2>2, NoLogicals
  <2> HIDE DEF l
  <2> QED
    BY <1>2, <1>3, <1>9, <1>10, <2>1, <2>2, <2>3, MbrUpdated
<1>12. CASE rest # <<>>
  <2>1. ExtendedSlots(es) = {pr + 1} /\ Extended(es) = x /\ es[pr + 1].kind # "empty" /\ es[pr + 1] = x
    BY <1>1, <1>5, <1>10, <1>12, ExtendedIs
  <2>2. Unplaced(rest) \in Seq(LogicalRec)
    <3>1. \A k \in 1 .. Len(rest) :
            [ebr |-> 0, start |-> rest[k][1], len |-> rest[k][2]] \in LogicalRec
      BY <1>1 DEF LogicalRec, Pairs
    <3> QED
      BY <1>1, <3>1 DEF Unplaced
  <2>3. CanPlace(x.start, x.start + x.len, Placed(x.start, Unplaced(rest))) /\ l = Placed(x.start, Unplaced(rest))
    BY <1>2, <1>4, <1>12
  <2> HIDE DEF l
  <2>4. Logicals(l) /\ LogicalsApart(l, x) /\ Linked(l, x)
    BY <1>4, <1>12, <2>2, <2>3, CanPlaceApart
  <2>5. x.len > 0
    BY <1>1, <1>8, <1>12, <2>1
  <2> QED
    BY <1>2, <1>3, <1>9, <1>10, <2>1, <2>4, <2>5, MbrUpdated
<1> QED
  BY <1>11, <1>12

\* An MBR without partitions is one, too.
LEMMA NewMbrOK ==
  ASSUME NEW n \in Sizes, NEW t,
         t = [kind |-> "mbr", blocks |-> n, logical |-> <<>>,
              entries |-> [i \in 1 .. Slots |-> Empty]]
  PROVE  MbrOK(t) /\ MbrApart(t)
<1> DEFINE es == [i \in 1 .. Slots |-> Empty]
<1>1. n \in Int
  BY Constants
<1>2. \A i \in 1 .. Slots : es[i] \in EntryRec /\ es[i].kind = "empty"
  BY DEF Empty, Entry, EntryRec, EntryKinds
<1>3. MbrEntries(es) /\ ExtendedSlots(es) = {} /\ PrimariesApart(es)
  BY <1>2 DEF MbrEntries, ExtendedSlots, PrimariesApart
<1>4. t = [kind |-> "mbr", blocks |-> n, entries |-> es, logical |-> <<>>]
  OBVIOUS
<1> HIDE DEF es
<1> QED
  BY <1>1, <1>3, <1>4, NoLogicals, MbrUpdated
-----------------------------------------------------------------------------
(* A GPT after some of its blocks have changed. *)

\* What is shown of the entries of a GPT.
GptShown(es) == {<<"gpt", i, es[i]>> : i \in {i \in DOMAIN es : es[i] # Unused}}

\* A device with a protective block 0 shows the GPT that is found.
LEMMA GptShows ==
  ASSUME NEW d, DiskOK(d), NEW n \in Sizes, NEW es, Protected(es), d[0] = Record(es),
         FindGpt(d, n) # <<>>
  PROVE  /\ IsGpt(ReadFrom(d, n)) /\ ReadFrom(d, n).gpt = FindGpt(d, n)[1]
         /\ Parts(ReadFrom(d, n)) = GptShown(FindGpt(d, n)[1].entries)
<1> DEFINE R == ReadFrom(d, n)
           g == FindGpt(d, n)[1]
<1>1. R = [kind |-> "gpt", gpt |-> g] \/ R = [kind |-> "hybrid", gpt |-> g, entries |-> es]
  BY GptReads
<1> HIDE DEF R, g
<1>2. IsGpt(R) /\ R.gpt = g
  BY <1>1 DEF IsGpt
<1>3. Parts(R) = {<<"gpt", i, g.entries[i]>> : i \in Used(g)}
  BY <1>2, GptParts
<1> QED
  BY <1>2, <1>3 DEF GptShown, Used, R, g

\* And what is read as a GPT was found behind one.
LEMMA GptWasRead ==
  ASSUME NEW d, DiskOK(d), NEW n \in Sizes, IsGpt(ReadFrom(d, n))
  PROVE  /\ FindGpt(d, n) # <<>> /\ ReadFrom(d, n).gpt = FindGpt(d, n)[1]
         /\ Parts(ReadFrom(d, n)) = GptShown(FindGpt(d, n)[1].entries)
         /\ \E es : Protected(es) /\ d[0] = Record(es)
<1>1. PICK es : Protected(es) /\ d[0] = Record(es)
  BY ReadIsTable
<1>2. FindGpt(d, n) # <<>>
  <2> SUFFICES ASSUME FindGpt(d, n) = <<>>
               PROVE  FALSE
    OBVIOUS
  <2>1. ReadFrom(d, n) = Failed("corrupt")
    BY <1>1, GptReads
  <2> QED
    BY <2>1 DEF Failed, IsGpt
<1> QED
  BY <1>1, <1>2, GptShows

\* A copy stays valid while its own blocks stay and the device is long enough.
LEMMA CopyStays ==
  ASSUME NEW d, NEW n, NEW at, ValidCopy(d, n, at), NEW e, NEW m, e[at] = d[at],
         \A i \in 1 .. d[at].count : e[d[at].array + i - 1] = d[d[at].array + i - 1],
         at < m, d[at].last < m, d[at].array + d[at].count <= m
  PROVE  ValidCopy(e, m, at)
BY DEF ValidCopy

\* What the fields of the primary header say, if it is valid.
LEMMA PrimaryIs ==
  ASSUME NEW d, DiskOK(d), NEW n \in Sizes, ValidCopy(d, n, 1)
  PROVE  LET p == d[1]
         IN  /\ p.array \in Nat /\ p.count \in Nat /\ p.first \in Int /\ p.last \in Int
             /\ p.alternate \in Nat /\ p.crc \in Seq(Pairs) /\ p.count = Len(p.crc)
             /\ p.array >= 2 /\ p.array + p.count <= p.first /\ p.first <= p.last + 1
             /\ p.last < n /\ 1 < n /\ n \in Nat /\ n <= Largest
<1>1. GoodHeader(d[1]) /\ 1 < n
  BY ValidHeader
<1>2. n \in Nat /\ n <= Largest
  BY Constants
<1>3. /\ d[1].array >= 2 /\ d[1].array + d[1].count <= d[1].first
      /\ d[1].first <= d[1].last + 1 /\ d[1].last < n
  BY DEF ValidCopy
<1> QED
  BY <1>1, <1>2, <1>3 DEF GoodHeader, HeaderRec

\* What those of a backup header say.
LEMMA BackupIs ==
  ASSUME NEW d, DiskOK(d), NEW n \in Sizes, NEW at \in Nat, ValidCopy(d, n, at), at # 1
  PROVE  LET q == d[at]
         IN  /\ q.array \in Nat /\ q.count \in Nat /\ q.first \in Int /\ q.last \in Int
             /\ q.my = at /\ q.count = Len(q.crc)
             /\ q.array > q.last /\ q.array + q.count <= at /\ q.count + 2 <= q.first
             /\ q.first <= q.last + 1 /\ at < n /\ at # 0 /\ q.last < n
             /\ n \in Nat /\ n <= Largest
<1>1. GoodHeader(d[at]) /\ at < n /\ at # 0 /\ d[at].my = at
  BY ValidHeader
<1>2. n \in Nat /\ n <= Largest
  BY Constants
<1>3. /\ d[at].array > d[at].last /\ d[at].array + d[at].count <= at
      /\ d[at].count + 2 <= d[at].first
      /\ d[at].first <= d[at].last + 1 /\ d[at].last < n
  BY DEF ValidCopy
<1> QED
  BY <1>1, <1>2, <1>3 DEF GoodHeader, HeaderRec

\* One block of a GPT with both copies is lost: the other copy has the same entries.
LEMMA LostBlock ==
  ASSUME NEW d, DiskOK(d), NEW n \in Sizes, IsGpt(ReadFrom(d, n)),
         ReadFrom(d, n).gpt.damaged = "none", ReadFrom(d, n).gpt.backup = n - 1,
         NEW e, DiskOK(e), NEW b \in Nat \ {0}, \A a \in Lbas : a # b => e[a] = d[a],
         b = 1 => e[b].is # "header"
  PROVE  IsGpt(ReadFrom(e, n)) /\ Parts(ReadFrom(e, n)) = Parts(ReadFrom(d, n))
<1> DEFINE p == d[1]
           q == d[n - 1]
           f == FindGpt(d, n)
<1>1. /\ f # <<>> /\ f[1].damaged = "none" /\ f[1].backup = n - 1
      /\ Parts(ReadFrom(d, n)) = GptShown(f[1].entries)
  BY GptWasRead
<1>2. PICK es : Protected(es) /\ d[0] = Record(es)
  BY GptWasRead
<1>3. n \in Nat /\ n > 0 /\ n <= Largest /\ Largest \in Nat
  BY Constants
<1>4. 0 \in Lbas /\ e[0] = Record(es)
  BY <1>2, <1>3 DEF Lbas
<1>5. ValidCopy(d, n, 1)
  BY <1>1, FoundGpt
<1>6. /\ f[1].entries = p.crc
      /\ f[1].backup = IF p.alternate < n /\ p.alternate - p.count > p.last
                       THEN p.alternate ELSE n - 1
      /\ ValidCopy(d, n, p.alternate) /\ SameTable(p, d[p.alternate])
  BY <1>1, <1>5, FoundGpt
<1>7. /\ p.array \in Nat /\ p.count \in Nat /\ p.first \in Int /\ p.last \in Int
      /\ p.alternate \in Nat
      /\ p.array >= 2 /\ p.array + p.count <= p.first /\ p.first <= p.last + 1
      /\ p.last < n /\ 1 < n
  BY <1>5, PrimaryIs
<1>8. p.alternate = n - 1 /\ n - 1 # 1
  <2> DEFINE at == p.alternate
  <2>1. /\ d[at].my > p.last /\ d[at].count = p.count /\ d[at].last = p.last
    BY <1>6 DEF SameTable
  <2>2. d[at].my = at
    BY <1>6 DEF ValidCopy
  <2>3. at # 1
    BY <1>7, <2>1, <2>2
  <2>4. d[at].array > d[at].last /\ d[at].array + d[at].count <= at /\ at < n /\ d[at].array \in Nat
    BY <1>6, <1>7, <2>3, BackupIs
  <2> HIDE DEF p, at
  <2>5. at - p.count > p.last /\ at < n /\ at \in Nat
    BY <1>7, <2>1, <2>4 DEF at
  <2>6. at = n - 1
    BY <1>1, <1>6, <2>5 DEF at
  <2> QED
    BY <2>3, <2>6 DEF at
<1>9. /\ ValidCopy(d, n, n - 1) /\ n - 1 \in Nat
      /\ q.first = p.first /\ q.last = p.last /\ q.count = p.count /\ q.crc = p.crc
  BY <1>3, <1>6, <1>8 DEF SameTable
<1>10. q.array \in Nat /\ q.array > q.last /\ q.array + q.count <= n - 1
  BY <1>8, <1>9, BackupIs
<1>11. 1 \in Lbas /\ n - 1 \in Lbas
  BY <1>3, <1>7 DEF Lbas
<1> HIDE DEF p, q, f
<1>12. CASE b # 1 /\ \A i \in 1 .. p.count : p.array + i - 1 # b
  <2>1. e[1] = p
    BY <1>11, <1>12 DEF p
  <2>2. ASSUME NEW i \in 1 .. p.count
        PROVE  e[p.array + i - 1] = d[p.array + i - 1]
    <3>1. p.array + i - 1 \in Lbas
      BY <1>3, <1>7 DEF Lbas
    <3> QED
      BY <1>12, <3>1
  <2>3. ValidCopy(e, n, 1)
    <3>1. p.array + p.count <= n /\ p.last < n /\ 1 < n
      BY <1>3, <1>7
    <3> QED
      BY <1>5, <2>1, <2>2, <3>1, CopyStays DEF p
  <2>4. FindGpt(e, n) # <<>> /\ FindGpt(e, n)[1].entries = p.crc
    BY <2>1, <2>3, FoundGpt
  <2> QED
    BY <1>1, <1>2, <1>4, <1>6, <2>4, GptShows
<1>13. CASE ~(b # 1 /\ \A i \in 1 .. p.count : p.array + i - 1 # b)
  <2>1. b < p.first
    BY <1>7, <1>13
  <2>2. e[n - 1] = q
    BY <1>7, <1>9, <1>10, <1>11, <2>1 DEF q
  <2>3. ASSUME NEW i \in 1 .. q.count
        PROVE  e[q.array + i - 1] = d[q.array + i - 1]
    <3>0. q.count \in Nat /\ i \in Nat
      BY <1>7, <1>9
    <3>1. q.array + i - 1 \in Lbas /\ q.array + i - 1 # b
      BY <1>3, <1>7, <1>9, <1>10, <2>1, <3>0 DEF Lbas
    <3> QED
      BY <3>1
  <2>4. n - 1 < n /\ q.last < n /\ q.array + q.count <= n
    BY <1>3, <1>7, <1>9, <1>10
  <2>5. ValidCopy(e, n, n - 1)
    BY <1>9, <2>2, <2>3, <2>4, CopyStays DEF q
  <2>6. FindGpt(e, n) # <<>>
    BY <2>5, FoundGpt
  <2>7. FindGpt(e, n)[1].entries = p.crc
    <3>1. CASE ValidCopy(e, n, 1)
      <4>1. e[1].is = "header"
        BY <3>1 DEF ValidCopy
      <4>2. e[1] = p
        BY <1>11, <4>1 DEF p
      <4> QED
        BY <3>1, <4>2, FoundGpt
    <3>2. CASE ~ValidCopy(e, n, 1)
      BY <1>9, <2>2, <2>6, <3>2, FoundGpt
    <3> QED
      BY <3>1, <3>2
  <2> QED
    BY <1>1, <1>2, <1>4, <1>6, <2>6, <2>7, GptShows
<1> QED
  BY <1>12, <1>13

\* A device that is cut behind the last usable block, or grown, keeps its primary copy.
LEMMA GptTrimmed ==
  ASSUME NEW d, DiskOK(d), NEW n \in Sizes, IsGpt(ReadFrom(d, n)),
         ReadFrom(d, n).gpt.damaged # "primary", NEW m \in Sizes, ReadFrom(d, n).gpt.last < m,
         DiskOK(Trimmed(d, m))
  PROVE  /\ IsGpt(ReadFrom(Trimmed(d, m), m))
         /\ Parts(ReadFrom(Trimmed(d, m), m)) = Parts(ReadFrom(d, n))
<1> DEFINE p == d[1]
           e == Trimmed(d, m)
           f == FindGpt(d, n)
<1>1. /\ f # <<>> /\ f[1].damaged # "primary" /\ f[1].last < m
      /\ Parts(ReadFrom(d, n)) = GptShown(f[1].entries)
  BY GptWasRead
<1>2. PICK es : Protected(es) /\ d[0] = Record(es)
  BY GptWasRead
<1>3. m \in Nat /\ m > 0 /\ m <= Largest /\ Largest \in Nat
  BY Constants
<1>4. ValidCopy(d, n, 1)
  BY <1>1, FoundGpt
<1>5. f[1].entries = p.crc /\ f[1].last = p.last
  BY <1>4, FoundGpt
<1>6. /\ p.array \in Nat /\ p.count \in Nat /\ p.first \in Int /\ p.last \in Int
      /\ p.array >= 2 /\ p.array + p.count <= p.first /\ p.first <= p.last + 1
  BY <1>4, PrimaryIs
<1>7. p.last < m /\ 1 < m
  BY <1>1, <1>3, <1>5, <1>6
<1>8. \A b \in Nat : b < m => e[b] = d[b]
  BY <1>3 DEF Trimmed, Lbas
<1> HIDE DEF p, e, f
<1>9. e[0] = Record(es) /\ e[1] = p
  BY <1>2, <1>3, <1>7, <1>8 DEF p
<1>10. ASSUME NEW i \in 1 .. p.count
       PROVE  e[p.array + i - 1] = d[p.array + i - 1]
  <2>1. p.array + i - 1 \in Nat /\ p.array + i - 1 < m
    BY <1>3, <1>6, <1>7
  <2> QED
    BY <1>8, <2>1
<1>11. p.array + p.count <= m
  BY <1>3, <1>6, <1>7
<1>12. ValidCopy(e, m, 1)
  BY <1>4, <1>7, <1>9, <1>10, <1>11, CopyStays DEF p
<1>13. DiskOK(e)
  BY DEF e
<1>14. FindGpt(e, m) # <<>> /\ FindGpt(e, m)[1].entries = p.crc
  BY <1>9, <1>12, <1>13, FoundGpt
<1>15. IsGpt(ReadFrom(e, m)) /\ Parts(ReadFrom(e, m)) = GptShown(p.crc)
  BY <1>2, <1>9, <1>13, <1>14, GptShows
<1> QED
  BY <1>1, <1>5, <1>15 DEF e
-----------------------------------------------------------------------------
(* A write that is cut. *)

\* The first k blocks of r have been written over d.
CutAt(d, e, n, r, k) ==
    /\ OnDisk(e, n, r, k)
    /\ \A b \in Lbas : (\A i \in 1 .. k : r[i].lba # b) => e[b] = d[b]

\* The blocks that a write changes, and whether its order is enough.
ChangedOn(d, n, t) == {b \in Range(Front(Runs(t))) : b.lba >= n \/ d[b.lba] # b.content}
\* Safe, of a given device.
SafeOn(d, n, t) ==
    LET old == ReadFrom(d, n)
    IN  \/ ChangedOn(d, n, t) = {}
        \/ old.kind = "not_recognized"
        \/ old.kind = "mbr" /\ ExtendedSlots(old.entries) = {}
        \/ old.kind = "mbr" /\ t.kind = "mbr" /\ old.entries = t.entries
             /\ Cardinality(ChangedOn(d, n, t)) = 1
        \/ IsGpt(old) /\ IsGpt(t) /\ old.gpt.damaged # "primary" /\ t.gpt.backup = n - 1
             /\ t.gpt.backupArray >= old.gpt.primaryArray + Len(old.gpt.entries)
        \/ IsGpt(old) /\ old.gpt.damaged = "none" /\ old.gpt.backup = n - 1
             /\ t.kind = "mbr" /\ Cardinality(ChangedOn(d, n, t)) = 1

\* The blocks before the last one.
LEMMA FrontIs ==
  ASSUME NEW S, NEW r \in Seq(S), Len(r) >= 1
  PROVE  Range(Front(r)) = {r[i] : i \in 1 .. Len(r) - 1}
<1>1. Len(r) \in Nat /\ Len(r) - 1 \in Nat
  OBVIOUS
<1>2. Front(r) = [i \in 1 .. Len(r) - 1 |-> r[i]]
  BY <1>1 DEF Front
<1> HIDE DEF Front
<1> QED
  BY <1>2, Zenon DEF Range

\* A table that can be written has its blocks in order.
LEMMA RunsOrdered ==
  ASSUME NEW t, TableOK(t), NEW n \in Nat, WritableOn(n, t)
  PROVE  Ordered(Runs(t))
<1>1. t.kind = "mbr" \/ (IsGpt(t) /\ Fits(t.gpt, n))
  BY DEF WritableOn
<1>2. CASE t.kind = "mbr"
  BY <1>2, TableKinds, MbrOrdered
<1>3. CASE IsGpt(t) /\ Fits(t.gpt, n)
  BY <1>3, GptOrdered
<1> QED
  BY <1>1, <1>2, <1>3

\* Block 0 is not among the first ones.
LEMMA BootStays ==
  ASSUME NEW d, NEW e, NEW n, NEW r, Ordered(r), NEW k \in 0 .. Len(r) - 1, CutAt(d, e, n, r, k)
  PROVE  e[0] = d[0]
<1>1. 0 \in Lbas
  BY Constants DEF Lbas
<1>2. \A i \in 1 .. k : r[i].lba # 0
  BY DEF Ordered
<1> QED
  BY <1>1, <1>2 DEF CutAt

\* Nothing is written if nothing changes.
LEMMA CutUnchanged ==
  ASSUME NEW d, DiskOK(d), NEW e, DiskOK(e), NEW n \in Sizes, NEW t, Ordered(Runs(t)),
         NEW k \in 0 .. Len(Runs(t)) - 1, CutAt(d, e, n, Runs(t), k),
         \A i \in 1 .. k : Runs(t)[i] \notin ChangedOn(d, n, t)
  PROVE  e = d
<1> DEFINE r == Runs(t)
<1>1. r \in Seq(RunBlock) /\ Len(r) >= 1 /\ Len(r) \in Nat
  BY DEF Ordered
<1>2. \A i \in 1 .. k : r[i] \in Range(Front(r))
  <2>1. Range(Front(r)) = {r[i] : i \in 1 .. Len(r) - 1}
    BY <1>1, FrontIs
  <2>2. \A i \in 1 .. k : i \in 1 .. Len(r) - 1
    BY <1>1
  <2> HIDE DEF r
  <2> QED
    BY <2>1, <2>2
<1>3. \A i \in 1 .. k : d[r[i].lba] = r[i].content
  BY <1>2 DEF ChangedOn
<1>4. ASSUME NEW b \in Lbas
      PROVE  e[b] = d[b]
  <2>1. CASE \E i \in 1 .. k : r[i].lba = b
    BY <1>3, <2>1 DEF CutAt, OnDisk
  <2>2. CASE ~\E i \in 1 .. k : r[i].lba = b
    BY <2>2 DEF CutAt
  <2> QED
    BY <2>1, <2>2
<1>5. e = [b \in Lbas |-> e[b]] /\ d = [b \in Lbas |-> d[b]]
  BY DEF DiskOK
<1> QED
  BY <1>4, <1>5

\* If one block changes, it is not yet written, or no other is missing.
LEMMA CutOne ==
  ASSUME NEW d, DiskOK(d), NEW e, DiskOK(e), NEW n \in Sizes, NEW t, Ordered(Runs(t)),
         NEW k \in 0 .. Len(Runs(t)) - 1, CutAt(d, e, n, Runs(t), k),
         Cardinality(ChangedOn(d, n, t)) = 1
  PROVE  \/ e = d
         \/ /\ OnDisk(e, n, Runs(t), Len(Runs(t)) - 1)
            /\ \E i \in 1 .. Len(Runs(t)) - 1 : /\ e[Runs(t)[i].lba] = Runs(t)[i].content
                                                /\ \A b \in Lbas : b # Runs(t)[i].lba => e[b] = d[b]
<1> DEFINE r == Runs(t)
           m == Len(r) - 1
           C == ChangedOn(d, n, t)
<1>1. r \in Seq(RunBlock) /\ Len(r) >= 1 /\ m \in Nat
  BY DEF Ordered
<1>2. Range(Front(r)) = {r[i] : i \in 1 .. m}
  BY <1>1, FrontIs
<1>3. IsFiniteSet(C)
  <2> DEFINE S == {r[i] : i \in 1 .. m}
             f == [i \in 1 .. m |-> r[i]]
  <2>1. f \in Surjection(1 .. m, S)
    BY DEF Surjection
  <2>2. ExistsSurjection(1 .. m, S)
    BY <2>1 DEF ExistsSurjection
  <2> HIDE DEF S, m
  <2>3. IsFiniteSet(S)
    BY <1>1, <2>2, FS_NatSurjection
  <2>4. C \in SUBSET S
    BY <1>2 DEF ChangedOn, S
  <2> QED
    BY <2>3, <2>4, FS_Subset
<1>4. PICK x : C = {x}
  <2> HIDE DEF C
  <2> QED
    BY <1>3, FS_Singleton, Zenon DEF C
<1>5. PICK j \in 1 .. m : r[j] = x
  <2>1. x \in Range(Front(r))
    BY <1>4 DEF ChangedOn
  <2> HIDE DEF r, m
  <2> QED
    BY <1>2, <2>1
<1>6. \A i \in 1 .. m : i # j => r[i].lba < n /\ d[r[i].lba] = r[i].content /\ r[i].lba # r[j].lba
  <2> SUFFICES ASSUME NEW i \in 1 .. m, i # j
               PROVE  r[i].lba < n /\ d[r[i].lba] = r[i].content /\ r[i].lba # r[j].lba
    OBVIOUS
  <2>1. i \in 1 .. Len(r) /\ j \in 1 .. Len(r)
    BY <1>1
  <2>2. r[i].lba # r[j].lba
    BY <2>1 DEF Ordered
  <2>3. r[i] \notin C /\ r[i] \in Range(Front(r))
    <3> HIDE DEF r, m
    <3> QED
      BY <1>2, <1>4, <1>5, <2>2
  <2>4. r[i].lba \in Nat
    BY <2>1 DEF Ordered
  <2>5. ~(r[i].lba >= n) /\ d[r[i].lba] = r[i].content
    BY <2>3 DEF ChangedOn
  <2>6. n \in Nat
    BY Constants
  <2> QED
    BY <2>2, <2>4, <2>5, <2>6
<1>7. k \in Nat /\ k <= m
  BY <1>1
<1>8. CASE j > k
  <2>1. \A i \in 1 .. k : r[i] \notin C
    <3> SUFFICES ASSUME NEW i \in 1 .. k
                 PROVE  r[i] # r[j]
      BY <1>4, <1>5
    <3>1. i \in 1 .. m /\ i # j
      BY <1>1, <1>7, <1>8
    <3> HIDE DEF r, m
    <3> QED
      BY <1>6, <3>1
  <2> QED
    BY <2>1, CutUnchanged
<1>9. CASE j <= k
  <2>1. j \in 1 .. k
    BY <1>1, <1>7, <1>9
  <2>2. OnDisk(e, n, r, k) /\ \A b \in Lbas : (\A i \in 1 .. k : r[i].lba # b) => e[b] = d[b]
    BY DEF CutAt
  <2>3. e[r[j].lba] = r[j].content
    BY <2>1, <2>2 DEF OnDisk
  <2>4. ASSUME NEW b \in Lbas, b # r[j].lba
        PROVE  e[b] = d[b]
    <3>1. CASE \E i \in 1 .. k : r[i].lba = b
      <4>1. PICK i \in 1 .. k : r[i].lba = b
        BY <3>1
      <4>2. i \in 1 .. m /\ i # j
        BY <1>1, <1>7, <2>4, <4>1
      <4> HIDE DEF r, m
      <4> QED
        BY <1>6, <2>2, <4>1, <4>2 DEF OnDisk
    <3>2. CASE ~\E i \in 1 .. k : r[i].lba = b
      BY <2>2, <3>2
    <3> QED
      BY <3>1, <3>2
  <2>5. n \in Nat /\ n <= Largest /\ Largest \in Nat
    BY Constants
  <2>6. ASSUME NEW i \in 1 .. m
        PROVE  r[i].lba < n /\ e[r[i].lba] = r[i].content
    <3>1. CASE i <= k
      <4>1. i \in 1 .. k
        BY <1>1, <1>7, <3>1
      <4> QED
        BY <2>2, <4>1 DEF OnDisk
    <3>2. CASE i > k
      <4>1. i # j /\ i \in 1 .. Len(r)
        BY <1>1, <1>7, <1>9, <3>2
      <4>2. r[i].lba < n /\ d[r[i].lba] = r[i].content /\ r[i].lba # r[j].lba
        BY <1>6, <4>1
      <4>3. r[i].lba \in Nat
        BY <4>1 DEF Ordered
      <4> QED
        BY <2>4, <2>5, <4>2, <4>3 DEF Lbas
    <3> QED
      BY <1>1, <1>7, <3>1, <3>2
  <2> QED
    BY <1>5, <2>3, <2>4, <2>6 DEF OnDisk
<1> QED
  BY <1>1, <1>7, <1>8, <1>9

\* A GPT written over a GPT with a valid primary.
LEMMA GptOverGpt ==
  ASSUME NEW d, DiskOK(d), NEW n \in Sizes, IsGpt(ReadFrom(d, n)),
         ReadFrom(d, n).gpt.damaged # "primary",
         NEW t, TableOK(t), IsGpt(t), Fits(t.gpt, n), t.gpt.backup = n - 1,
         t.gpt.backupArray >= ReadFrom(d, n).gpt.primaryArray + Len(ReadFrom(d, n).gpt.entries),
         NEW k \in Nat, k < Len(Runs(t)), NEW e, DiskOK(e), CutAt(d, e, n, Runs(t), k)
  PROVE  /\ IsGpt(ReadFrom(e, n))
         /\ Parts(ReadFrom(e, n)) \in {Parts(ReadFrom(d, n)), Parts(t)}
<1> DEFINE p == d[1]
           g == t.gpt
           c == Len(g.entries)
           f == FindGpt(d, n)
           h == FindGpt(e, n)
           r == Runs(t)
<1>1. /\ f # <<>> /\ f[1].damaged # "primary"
      /\ g.backupArray >= f[1].primaryArray + Len(f[1].entries)
      /\ Parts(ReadFrom(d, n)) = GptShown(f[1].entries)
  BY GptWasRead
<1>2. PICK es : Protected(es) /\ d[0] = Record(es)
  BY GptWasRead
<1>3. ValidCopy(d, n, 1)
  BY <1>1, FoundGpt
<1>4. f[1].entries = p.crc /\ f[1].primaryArray = p.array
  BY <1>3, FoundGpt
<1>5. /\ p.array \in Nat /\ p.count \in Nat /\ p.first \in Int /\ p.last \in Int
      /\ p.array >= 2 /\ p.array + p.count <= p.first /\ p.first <= p.last + 1
      /\ p.last < n /\ 1 < n /\ n \in Nat /\ n <= Largest /\ Largest \in Nat
  BY <1>3, PrimaryIs, Constants
<1>6. Parts(t) = GptShown(g.entries)
  BY GptParts DEF GptShown, Used
<1>7. /\ GptOK(g) /\ Ordered(r) /\ Len(r) = 2 * c + 3 /\ c \in Nat
      /\ \A i \in 1 .. 2 * c + 3 : r[i].lba = GptLba(g, i)
  BY <1>5, GptOrdered
<1>8. /\ g.backupArray \in Int /\ g.primaryArray \in Int /\ g.backup = n - 1
      /\ g.primaryArray >= 2 /\ g.backupArray >= p.array + p.count
      /\ g.backupArray + c <= g.backup
  <2>1. p.count = Len(p.crc)
    BY <1>3, PrimaryIs
  <2> QED
    BY <1>1, <1>4, <1>5, <1>7, <2>1 DEF GptOK, GptRec, Fits
<1>9. k \in Nat /\ k <= 2 * c + 2
  BY <1>7
<1>10. e[0] = Record(es)
  <2>1. k \in 0 .. Len(r) - 1
    BY <1>7, <1>9
  <2> QED
    BY <1>2, <1>7, <2>1, BootStays
<1>11. 1 \in Lbas
  BY <1>5 DEF Lbas
<1>12. \A i \in 1 .. k : i \in 1 .. 2 * c + 3
  BY <1>7, <1>9
<1>13. \A b \in Lbas : (\A i \in 1 .. k : r[i].lba # b) => e[b] = d[b]
  BY DEF CutAt
<1>l. \A i : GptLba(g, i) = IF i <= c THEN g.backupArray + i - 1
                             ELSE IF i = c + 1 THEN g.backup
                             ELSE IF i <= 2 * c + 1 THEN g.primaryArray + i - c - 2
                             ELSE IF i = 2 * c + 2 THEN 1 ELSE 0
  BY DEF GptLba
<1> HIDE DEF p, c, f, h, r, g
<1>14. k < 2 * c + 2 => e[1] = p
  <2> SUFFICES ASSUME k < 2 * c + 2
               PROVE  e[1] = d[1]
    BY DEF p
  <2>1. ASSUME NEW i \in 1 .. k
        PROVE  r[i].lba # 1
    <3>1. i \in Nat /\ i >= 1 /\ i < 2 * c + 2 /\ i \in 1 .. 2 * c + 3
      BY <1>7, <1>9, <1>12
    <3>2. GptLba(g, i) # 1
      <4>1. c \in Nat
        BY <1>7
      <4> QED
        BY ONLY <1>5, <1>8, <1>l, <3>1, <4>1
    <3> QED
      BY <1>7, <3>1, <3>2
  <2> QED
    BY <1>11, <1>13, <2>1
<1>15. CASE k <= c + 1
  <2>1. ASSUME NEW i \in 1 .. k
        PROVE  r[i].lba >= p.array + p.count /\ r[i].lba \in Int
    <3>1. i \in Nat /\ i >= 1 /\ i <= c + 1 /\ i \in 1 .. 2 * c + 3
      BY <1>7, <1>9, <1>12, <1>15
    <3>2. GptLba(g, i) >= p.array + p.count /\ GptLba(g, i) \in Int
      <4>1. c \in Nat
        BY <1>7
      <4> QED
        BY ONLY <1>5, <1>8, <1>l, <3>1, <4>1
    <3> QED
      BY <1>7, <3>1, <3>2
  <2>2. k < 2 * c + 2
    BY <1>7, <1>9, <1>15
  <2>3. ASSUME NEW i \in 1 .. p.count
        PROVE  e[p.array + i - 1] = d[p.array + i - 1]
    <3>1. p.array + i - 1 \in Lbas
      <4>1. i \in 1 .. p.count
        OBVIOUS
      <4> QED
        BY ONLY <1>5, <4>1 DEF Lbas
    <3>2. \A j \in 1 .. k : r[j].lba # p.array + i - 1
      BY <1>5, <2>1
    <3> QED
      BY <1>13, <3>1, <3>2
  <2>4. p.array + p.count <= n
    BY <1>5, SMTT(30)
  <2>5. ValidCopy(e, n, 1)
    BY <1>3, <1>5, <1>14, <2>2, <2>3, <2>4, CopyStays DEF p
  <2>6. h # <<>> /\ h[1].entries = p.crc
    BY <1>14, <2>2, <2>5, FoundGpt DEF h
  <2> QED
    BY <1>1, <1>4, <1>10, <1>2, <2>6, GptShows DEF h
<1>16. CASE k >= c + 1
  <2>0. k \in 1 .. Len(r) /\ OnDisk(e, n, r, k)
    BY <1>7, <1>9, <1>16 DEF CutAt, r
  <2>1. BackupOn(e, g)
    BY <1>5, <1>16, <2>0, CopiesWritten DEF r, g, c
  <2>2. ValidCopy(e, n, n - 1)
    BY <1>5, <1>7, <1>8, <2>1, CopiesValid DEF g
  <2>3. e[n - 1].crc = g.entries
    <3>1. e[n - 1] = Header(g, g.backup, 1, g.backupArray)
      BY <1>8, <2>1 DEF BackupOn, CopyOn
    <3> QED
      BY <3>1, HeaderIs
  <2>4. h # <<>>
    BY <2>2, FoundGpt DEF h
  <2>5. h[1].entries \in {p.crc, g.entries}
    <3>1. CASE ~ValidCopy(e, n, 1)
      BY <2>3, <2>4, <3>1, FoundGpt DEF h
    <3>2. CASE ValidCopy(e, n, 1)
      <4>1. h[1].entries = e[1].crc
        BY <3>2, FoundGpt DEF h
      <4>2. CASE k < 2 * c + 2
        BY <1>14, <4>1, <4>2
      <4>3. CASE k >= 2 * c + 2
        <5>1. PrimaryOn(e, g)
          BY <1>5, <2>0, <4>3, CopiesWritten DEF r, g, c
        <5>2. e[1] = Header(g, 1, g.backup, g.primaryArray)
          BY <5>1 DEF PrimaryOn, CopyOn
        <5>3. e[1].crc = g.entries
          BY <5>2, HeaderIs
        <5> QED
          BY <4>1, <5>3
      <4> QED
        BY <1>7, <1>9, <4>2, <4>3
    <3> QED
      BY <3>1, <3>2
  <2> QED
    BY <1>1, <1>2, <1>4, <1>6, <1>10, <2>4, <2>5, GptShows DEF h
<1> QED
  BY <1>7, <1>9, <1>15, <1>16

\* The partitions of the MBR on a device are apart, also where reading fails.
Good(d, n) ==
    /\ \A es : MbrEntries(es) /\ d[0] = Record(es) => PrimariesApart(es)
    /\ ReadFrom(d, n).kind = "mbr" => MbrApart(ReadFrom(d, n))

\* Block 0 is a protective one, or that of an MBR, or none, and not two of these.
LEMMA BootIsOne ==
  /\ \A es : Record(es) # Data
  /\ \A es, fs : Record(es) = Record(fs) => es = fs
  /\ \A es, fs : Protected(es) /\ MbrEntries(fs) => Record(es) # Record(fs)
<1>1. \A es : Record(es).is = "record" /\ Record(es).entries = es
  BY BootKinds
<1>2. Data.is = "data"
  BY DEF Data
<1>3. \A es : Protected(es) => \E p \in 1 .. Slots : es[p].kind = "protective"
  BY DEF Protected
<1>4. \A es : MbrEntries(es) => \A p \in 1 .. Slots : es[p].kind # "protective"
  BY DEF MbrEntries
<1> QED
  BY <1>1, <1>2, <1>3, <1>4

\* A GPT, or an empty device, has no MBR whose partitions could meet.
LEMMA OtherGood ==
  ASSUME NEW d, NEW n,
         d[0] = Data \/ \E es : Protected(es) /\ d[0] = Record(es),
         ReadFrom(d, n).kind # "mbr"
  PROVE  Good(d, n)
BY BootIsOne DEF Good

\* What is read depends on block 0 alone if there is no extended partition.
LEMMA BootAlone ==
  ASSUME NEW d, DiskOK(d), NEW e, e[0] = d[0], NEW n \in Sizes,
         LET old == ReadFrom(d, n)
         IN  old.kind = "not_recognized" \/ (old.kind = "mbr" /\ ExtendedSlots(old.entries) = {})
  PROVE  ReadFrom(e, n) = ReadFrom(d, n)
<1>1. CASE ReadFrom(d, n).kind = "not_recognized"
  <2>1. d[0].is # "record"
    BY <1>1, ReadIsTable DEF Data
  <2> QED
    BY <2>1 DEF ReadFrom
<1>2. CASE ReadFrom(d, n).kind = "mbr" /\ ExtendedSlots(ReadFrom(d, n).entries) = {}
  <2> DEFINE es == ReadFrom(d, n).entries
  <2>1. MbrEntries(es) /\ d[0] = Record(es) /\ e[0] = Record(es) /\ ExtendedSlots(es) = {}
    BY <1>2, ReadIsTable
  <2> DEFINE V == [kind |-> "mbr", blocks |-> n, entries |-> es, logical |-> <<>>]
  <2>2. ReadFrom(d, n) = V
    <3> HIDE DEF es
    <3> QED
      BY <2>1, MbrRead
  <2>3. ReadFrom(e, n) = V
    <3> HIDE DEF es
    <3> QED
      BY <2>1, MbrRead
  <2> QED
    BY <2>2, <2>3
<1> QED
  BY <1>1, <1>2

\* The records of an MBR are not headers.
LEMMA EbrNoHeader ==
  ASSUME NEW t, MbrOK(t), NEW i, i \in 1 .. Len(EbrRecords(t))
  PROVE  EbrRecords(t)[i].content.is # "header"
<1> DEFINE r == EbrRecords(t)
           x == Extended(t.entries)
           l == t.logical
<1>1. /\ ExtendedSlots(t.entries) = {} => Len(r) = 0
      /\ ExtendedSlots(t.entries) # {} /\ l = <<>> =>
           Len(r) = 1 /\ r[1] = Block(x.start, Record(<<Empty, Empty>>))
      /\ ExtendedSlots(t.entries) # {} /\ l # <<>> =>
           Len(r) = Len(l) /\ \A k \in 1 .. Len(l) :
               r[k].content = EbrRecord(l, k, x.start).content
  BY EbrRun
<1>2. \A es : Record(es).is = "record"
  BY BootKinds
<1>3. \A k : EbrRecord(l, k, x.start).content.is = "record"
  BY <1>2 DEF EbrRecord, Block
<1> HIDE DEF r, x, l
<1>4. Block(x.start, Record(<<Empty, Empty>>)).content.is = "record"
  BY <1>2 DEF Block
<1>5. i \in 1 .. Len(r)
  BY DEF r
<1>6. CASE ExtendedSlots(t.entries) # {} /\ l = <<>>
  <2>0. Len(r) = 1
    BY <1>1, <1>6
  <2>1. i = 1
    BY ONLY <1>5, <2>0
  <2>2. r[1] = Block(x.start, Record(<<Empty, Empty>>))
    BY <1>1, <1>6
  <2>3. r[i].content.is = "record"
    BY ONLY <1>4, <2>1, <2>2
  <2> QED
    BY <2>3 DEF r
<1>7. CASE ExtendedSlots(t.entries) # {} /\ l # <<>>
  BY <1>1, <1>3, <1>5, <1>7 DEF r
<1>8. CASE ExtendedSlots(t.entries) = {}
  BY <1>1, <1>5, <1>8
<1> QED
  BY <1>6, <1>7, <1>8

\* An MBR all of whose records are on the device, and its block 0.
LEMMA MbrShows ==
  ASSUME NEW t, MbrOK(t), NEW e, NEW n \in Nat,
         OnDisk(e, n, Runs(t), Len(Runs(t)) - 1), e[0] = Record(t.entries)
  PROVE  /\ Parts(ReadFrom(e, n)) = Parts(t)
         /\ MbrApart(t) => Good(e, n)
<1> DEFINE R == ReadFrom(e, n)
           r == Runs(t)
           s == EbrRecords(t)
<1>1. Len(r) = Len(s) + 1 /\ Len(s) \in Nat /\ \A i \in 1 .. Len(s) : r[i] = s[i]
  BY MbrOrdered
<1>2. OnDisk(e, n, s, Len(s))
  <2> HIDE DEF s, r
  <2>1. Len(r) - 1 = Len(s)
    BY <1>1
  <2> QED
    BY <1>1, <2>1 DEF OnDisk, r
<1>3. R = [t EXCEPT !.blocks = n]
  BY <1>2, MbrReads
<1>4. R.kind = "mbr" /\ t.kind = "mbr" /\ R.entries = t.entries /\ R.logical = t.logical
  BY <1>3 DEF MbrOK
<1> HIDE DEF R
<1>5. Occupied(R) = Occupied(t)
  BY <1>4 DEF Occupied
<1>6. Parts(R) = Parts(t)
  BY <1>4, <1>5 DEF Parts, IsGpt
<1>7. ASSUME MbrApart(t)
      PROVE  Good(e, n)
  <2>1. MbrApart(R)
    BY <1>4, <1>7, MbrApartIs
  <2>2. PrimariesApart(t.entries)
    BY <1>7, MbrApartIs
  <2> QED
    BY <2>1, <2>2, BootIsOne DEF Good, R
<1> QED
  BY <1>6, <1>7 DEF R

\* What a cut write shows when its order is enough.
LEMMA CutShows ==
  ASSUME NEW d, DiskOK(d), NEW n \in Sizes, NEW t, TableOK(t), WritableOn(n, t),
         NEW k \in Nat, k < Len(Runs(t)), NEW e, DiskOK(e), CutAt(d, e, n, Runs(t), k),
         SafeOn(d, n, t)
  PROVE  /\ Parts(ReadFrom(e, n)) \in {Parts(ReadFrom(d, n)), Parts(t)}
         /\ Good(d, n) /\ (t.kind = "mbr" => MbrApart(t)) => Good(e, n)
<1> DEFINE old == ReadFrom(d, n)
           r == Runs(t)
<1>1. n \in Nat /\ Ordered(r)
  BY Constants, RunsOrdered
<1>2. k \in 0 .. Len(r) - 1
  <2>1. Len(r) \in Nat
    BY <1>1 DEF Ordered
  <2> QED
    BY <2>1
<1>3. e[0] = d[0]
  BY <1>1, <1>2, BootStays
<1>4. ASSUME ReadFrom(e, n) = old
      PROVE  Good(d, n) => Good(e, n)
  BY <1>3, <1>4 DEF Good
<1>5. CASE ChangedOn(d, n, t) = {}
  <2>1. e = d
    BY <1>1, <1>2, <1>5, CutUnchanged
  <2> QED
    BY <2>1
<1>6. CASE old.kind = "not_recognized" \/ (old.kind = "mbr" /\ ExtendedSlots(old.entries) = {})
  <2>1. ReadFrom(e, n) = old
    BY <1>3, <1>6, BootAlone
  <2> QED
    BY <1>4, <2>1
<1>7. CASE old.kind = "mbr" /\ t.kind = "mbr" /\ old.entries = t.entries
             /\ Cardinality(ChangedOn(d, n, t)) = 1
  <2>1. e = d \/ OnDisk(e, n, r, Len(r) - 1)
    BY <1>1, <1>2, <1>7, CutOne
  <2>2. e[0] = Record(t.entries)
    BY <1>3, <1>7, ReadIsTable
  <2>3. MbrOK(t)
    BY <1>7, TableKinds
  <2> HIDE DEF r, old
  <2>4. CASE OnDisk(e, n, r, Len(r) - 1)
    BY <1>1, <1>7, <2>2, <2>3, <2>4, MbrShows DEF r
  <2> QED
    BY <2>1, <2>4 DEF old
<1>8. CASE IsGpt(old) /\ IsGpt(t) /\ old.gpt.damaged # "primary" /\ t.gpt.backup = n - 1
             /\ t.gpt.backupArray >= old.gpt.primaryArray + Len(old.gpt.entries)
  <2>1. Fits(t.gpt, n)
    BY <1>8 DEF WritableOn, IsGpt
  <2>2. IsGpt(ReadFrom(e, n)) /\ Parts(ReadFrom(e, n)) \in {Parts(old), Parts(t)}
    BY <1>8, <2>1, GptOverGpt
  <2>3. Good(e, n)
    BY <2>2, GptWasRead, OtherGood DEF IsGpt
  <2> QED
    BY <2>2, <2>3
<1>9. CASE IsGpt(old) /\ old.gpt.damaged = "none" /\ old.gpt.backup = n - 1
             /\ t.kind = "mbr" /\ Cardinality(ChangedOn(d, n, t)) = 1
  <2>1. \/ e = d
        \/ \E i \in 1 .. Len(r) - 1 : /\ e[r[i].lba] = r[i].content
                                      /\ \A b \in Lbas : b # r[i].lba => e[b] = d[b]
    BY <1>1, <1>2, <1>9, CutOne
  <2>2. MbrOK(t)
    BY <1>9, TableKinds
  <2>3. ASSUME NEW i \in 1 .. Len(r) - 1, e[r[i].lba] = r[i].content,
               \A b \in Lbas : b # r[i].lba => e[b] = d[b]
        PROVE  IsGpt(ReadFrom(e, n)) /\ Parts(ReadFrom(e, n)) = Parts(old)
    <3>1. r[i].lba \in Nat \ {0}
      BY <1>1 DEF Ordered
    <3>2. Len(r) = Len(EbrRecords(t)) + 1 /\ Len(EbrRecords(t)) \in Nat
          /\ \A j \in 1 .. Len(EbrRecords(t)) : r[j] = EbrRecords(t)[j]
      BY <2>2, MbrOrdered
    <3>3. i \in 1 .. Len(EbrRecords(t))
      <4> HIDE DEF r
      <4> QED
        BY <3>2
    <3>4. r[i].content.is # "header"
      BY <2>2, <3>2, <3>3, EbrNoHeader
    <3> QED
      BY <1>9, <2>3, <3>1, <3>4, LostBlock
  <2>4. CASE e # d
    <3>1. IsGpt(ReadFrom(e, n)) /\ Parts(ReadFrom(e, n)) = Parts(old)
      BY <2>1, <2>3, <2>4
    <3>2. Good(e, n)
      BY <3>1, GptWasRead, OtherGood DEF IsGpt
    <3> QED
      BY <3>1, <3>2
  <2> QED
    BY <2>4
<1> QED
  BY <1>5, <1>6, <1>7, <1>8, <1>9 DEF SafeOn
-----------------------------------------------------------------------------
(* What one step does to the device. *)

\* The partitions of no MBR meet where there is a protective block 0.
LEMMA ProtectedGood ==
  ASSUME NEW d, DiskOK(d), NEW n \in Sizes, NEW es, Protected(es), d[0] = Record(es)
  PROVE  Good(d, n)
BY ReadIsTable, BootIsOne, OtherGood

\* Nor where there is none.
LEMMA EmptyGood ==
  ASSUME NEW d, DiskOK(d), NEW n \in Sizes, d[0] = Data
  PROVE  Good(d, n)
BY ReadIsTable, BootIsOne, OtherGood

\* A table that was written is one whose partitions are apart, if it was in memory.
LEMMA WrittenGood ==
  ASSUME NEW t, TableOK(t), NEW n \in Sizes, WritableOn(n, t), NEW d, DiskOK(d), Written(d, n, t),
         t.kind = "mbr" => MbrApart(t)
  PROVE  Good(d, n)
<1> DEFINE r == Runs(t)
<1>1. n \in Nat /\ Ordered(r)
  BY Constants, RunsOrdered
<1>2. Len(r) \in Nat /\ Len(r) >= 1 /\ r[Len(r)].lba = 0
  BY <1>1 DEF Ordered
<1>3. d[0] = r[Len(r)].content
  BY <1>2 DEF Written, OnDisk
<1>4. CASE t.kind = "mbr"
  <2>1. MbrOK(t)
    BY <1>4, TableKinds
  <2>2. d[0] = Record(t.entries)
    BY <1>3, <2>1, MbrOrdered
  <2>3. OnDisk(d, n, r, Len(r) - 1)
    BY <1>2 DEF Written, OnDisk
  <2> QED
    BY <1>1, <1>4, <2>1, <2>2, <2>3, MbrShows
<1>5. CASE IsGpt(t)
  <2>1. Fits(t.gpt, n)
    BY <1>5 DEF WritableOn, IsGpt
  <2>2. /\ Len(r) = 2 * Len(t.gpt.entries) + 3
        /\ r[2 * Len(t.gpt.entries) + 3].content = Record(BootEntries(t))
    BY <1>1, <1>5, <2>1, GptOrdered
  <2>3. d[0] = Record(BootEntries(t)) /\ Protected(BootEntries(t))
    BY <1>3, <1>5, <2>2, GptBoot
  <2> QED
    BY <2>3, ProtectedGood
<1> QED
  BY <1>4, <1>5 DEF WritableOn

\* Another block is written.
LEMMA BlockWritten ==
  ASSUME NEW d, NEW e, DiskOK(e), NEW n \in Sizes, Beyond(e, n), NEW r, Ordered(r),
         NEW k \in Nat, k < Len(r), CutAt(d, e, n, r, k), r[k + 1].lba < n,
         NEW f, f = [e EXCEPT ![r[k + 1].lba] = r[k + 1].content]
  PROVE  DiskOK(f) /\ Beyond(f, n) /\ CutAt(d, f, n, r, k + 1)
<1> DEFINE a == r[k + 1].lba
           x == r[k + 1].content
<1>1. n \in Nat /\ n <= Largest /\ Largest \in Nat
  BY Constants
<1>2. Len(r) \in Nat /\ k + 1 \in 1 .. Len(r)
  BY DEF Ordered
<1>3. a \in Nat /\ (a = 0 <=> k + 1 = Len(r))
  BY <1>2 DEF Ordered
<1>4. a \in Lbas /\ a < n
  BY <1>1, <1>3 DEF Lbas
<1>5. (a # 0 => Inner(x)) /\ (a = 0 => Boot(x))
  <2>1. a # 0 => k + 1 \in 1 .. Len(r) - 1
    BY <1>2, <1>3
  <2> QED
    BY <1>3, <2>1 DEF Ordered
<1>6. \A i \in 1 .. k : r[i].lba # a
  <2>1. \A i \in 1 .. k : i \in 1 .. Len(r) /\ i # k + 1
    BY <1>2
  <2> QED
    BY <1>2, <2>1 DEF Ordered
<1>7. e = [b \in Lbas |-> e[b]] /\ Boot(e[0]) /\ \A b \in Lbas : b # 0 => Inner(e[b])
  BY DEF DiskOK
<1>8. OnDisk(e, n, r, k) /\ \A b \in Lbas : (\A i \in 1 .. k : r[i].lba # b) => e[b] = d[b]
  BY DEF CutAt
<1>9. f = [e EXCEPT ![a] = x]
  OBVIOUS
<1> HIDE DEF a, x
<1>10. f = [b \in Lbas |-> f[b]] /\ f[a] = x /\ \A b \in Lbas : b # a => f[b] = e[b]
  BY <1>4, <1>7, <1>9
<1>11. DiskOK(f)
  <2>1. 0 \in Lbas
    BY <1>1, Constants DEF Lbas
  <2> QED
    BY <1>5, <1>7, <1>10, <2>1 DEF DiskOK
<1>12. Beyond(f, n)
  <2>1. \A b \in Lbas : b >= n => b # a
    BY <1>1, <1>3, <1>4
  <2> QED
    BY <1>10, <2>1 DEF Beyond
<1>13. OnDisk(f, n, r, k + 1)
  <2> SUFFICES ASSUME NEW i \in 1 .. k + 1
               PROVE  r[i].lba < n /\ f[r[i].lba] = r[i].content
    BY DEF OnDisk
  <2>1. CASE i = k + 1
    BY <1>4, <1>10, <2>1 DEF a, x
  <2>2. CASE i # k + 1
    <3>1. i \in 1 .. k /\ i \in 1 .. Len(r)
      BY <1>2, <2>2
    <3>2. r[i].lba < n /\ e[r[i].lba] = r[i].content /\ r[i].lba # a /\ r[i].lba \in Nat
      BY <1>6, <1>8, <3>1 DEF OnDisk, Ordered
    <3>3. r[i].lba \in Lbas
      BY <1>1, <3>2 DEF Lbas
    <3> QED
      BY <1>10, <3>2, <3>3
  <2> QED
    BY <2>1, <2>2
<1>14. ASSUME NEW b \in Lbas, \A i \in 1 .. k + 1 : r[i].lba # b
       PROVE  f[b] = d[b]
  <2>1. b # a
    BY <1>14 DEF a
  <2>2. \A i \in 1 .. k : r[i].lba # b
    BY <1>14
  <2> QED
    BY <1>8, <1>10, <2>1, <2>2
<1> QED
  BY <1>11, <1>12, <1>13, <1>14 DEF CutAt

\* A device that was cut or grown.
LEMMA TrimmedOK ==
  ASSUME NEW d, DiskOK(d), NEW m \in Sizes
  PROVE  DiskOK(Trimmed(d, m)) /\ Beyond(Trimmed(d, m), m) /\ Trimmed(d, m)[0] = d[0]
<1> DEFINE e == Trimmed(d, m)
<1>1. m \in Nat /\ m > 0 /\ Largest \in Nat /\ m <= Largest
  BY Constants
<1>2. e = [b \in Lbas |-> IF b < m THEN d[b] ELSE Data]
  BY DEF Trimmed
<1> HIDE DEF e
<1>3. e = [b \in Lbas |-> e[b]] /\ \A b \in Lbas : e[b] = IF b < m THEN d[b] ELSE Data
  BY <1>2
<1>4. 0 \in Lbas /\ 0 < m
  BY <1>1 DEF Lbas
<1>5. e[0] = d[0]
  BY <1>3, <1>4
<1>6. \A b \in Lbas : b # 0 => Inner(e[b])
  BY <1>3 DEF DiskOK, Inner
<1>7. DiskOK(e)
  BY <1>3, <1>5, <1>6 DEF DiskOK
<1>8. Beyond(e, m)
  <2>1. \A b \in Lbas : b >= m => ~(b < m)
    BY <1>1 DEF Lbas
  <2> QED
    BY <1>3, <2>1 DEF Beyond
<1> QED
  BY <1>5, <1>7, <1>8 DEF e

\* Its MBR lists no other partitions, but perhaps fewer.
LEMMA TrimmedGood ==
  ASSUME NEW d, DiskOK(d), NEW n \in Sizes, Beyond(d, n), Good(d, n), NEW m \in Sizes
  PROVE  Good(Trimmed(d, m), m)
<1> DEFINE e == Trimmed(d, m)
<1>1. DiskOK(e) /\ e[0] = d[0]
  BY TrimmedOK
<1>2. d[0] = Data \/ \E es : d[0] = Record(es) /\ (MbrEntries(es) \/ Protected(es))
  BY DEF DiskOK, Boot
<1>3. ASSUME NEW es, MbrEntries(es), d[0] = Record(es)
      PROVE  Good(e, m)
  <2> DEFINE x == Extended(es)
             w == WalkEbr(d, n, x)
             v == WalkEbr(e, m, x)
             R == ReadFrom(d, n)
             Q == ReadFrom(e, m)
  <2>1. PrimariesApart(es)
    BY <1>3 DEF Good
  <2>2. \A fs : e[0] = Record(fs) => fs = es
    BY <1>1, <1>3, BootIsOne
  <2>3. CASE ExtendedSlots(es) = {}
    <3>1. Q = [kind |-> "mbr", blocks |-> m, entries |-> es, logical |-> <<>>]
      BY <1>1, <1>3, <2>3, MbrRead
    <3>2. Q.entries = es
      BY <3>1
    <3>3. MbrApart(Q)
      BY <2>1, <2>3, <3>2, MbrApartIs
    <3> QED
      BY <2>1, <2>2, <3>3 DEF Good
  <2>4. CASE ExtendedSlots(es) # {}
    <3>1. x \in EntryRec /\ x.start > 0
      BY <1>3, <2>4, ExtendedEntry
    <3>2. v = w \/ v.state = "broken" \/ (v.state = "end" /\ v.found = <<>>)
      BY <3>1, WalkTrimmed
    <3>3. Q = IF v.state # "end" THEN Failed("corrupt")
              ELSE [kind |-> "mbr", blocks |-> m, entries |-> es, logical |-> v.found]
      BY <1>1, <1>3, <2>4, MbrRead
    <3>4. R = IF w.state # "end" THEN Failed("corrupt")
              ELSE [kind |-> "mbr", blocks |-> n, entries |-> es, logical |-> w.found]
      BY <1>3, <2>4, MbrRead
    <3>5. R.kind = "mbr" => MbrApart(R)
      BY DEF Good
    <3> HIDE DEF v, w, R, Q, x
    <3>6. CASE v.state # "end"
      <4>1. Q.kind # "mbr"
        BY <3>3, <3>6 DEF Failed
      <4> QED
        BY <2>1, <2>2, <4>1 DEF Good, Q
    <3>7. CASE v.state = "end"
      <4>1. Q.entries = es /\ Q.logical = v.found
        BY <3>3, <3>7
      <4>2. LogicalsApart(v.found, x)
        <5>1. CASE v.found = <<>>
          BY <5>1, NoLogicals
        <5>2. CASE v = w
          <6>1. R.kind = "mbr" /\ R.entries = es /\ R.logical = w.found
            BY <3>4, <3>7, <5>2
          <6>2. MbrApart(R)
            BY <3>5, <6>1
          <6> QED
            BY <2>4, <5>2, <6>1, <6>2, MbrApartIs DEF x
        <5> QED
          BY <3>2, <3>7, <5>1, <5>2
      <4>3. MbrApart(Q)
        BY <2>1, <4>1, <4>2, MbrApartIs DEF x
      <4> QED
        BY <2>1, <2>2, <4>3 DEF Good, Q
    <3> QED
      BY <3>6, <3>7
  <2> QED
    BY <2>3, <2>4
<1> QED
  BY <1>1, <1>2, <1>3, EmptyGood, ProtectedGood

\* The copies of a GPT that was found are not in block 0.
LEMMA FoundPlaces ==
  ASSUME NEW d, DiskOK(d), NEW n \in Sizes, FindGpt(d, n) # <<>>
  PROVE  LET g == FindGpt(d, n)[1]
         IN  GptOK(g) /\ g.primaryArray >= 2 /\ g.backup >= 1 /\ g.backupArray >= 1
<1> DEFINE p == d[1]
           at == IF ValidCopy(d, n, 1) THEN p.alternate ELSE n - 1
           q == d[at]
           same == ValidCopy(d, n, at) /\ SameTable(p, q)
           g == FindGpt(d, n)[1]
<1>1. n \in Nat /\ n > 0 /\ GptOK(g) /\ (ValidCopy(d, n, 1) \/ ValidCopy(d, n, n - 1))
  BY Constants, FoundGpt
<1>2. CASE ValidCopy(d, n, 1)
  <2> DEFINE damaged == IF same THEN "none" ELSE "backup"
             array == IF same THEN q.array ELSE 0
             fits == p.alternate < n /\ p.alternate - p.count > p.last
             backup == IF fits THEN p.alternate ELSE n - 1
  <2>1. g = FromDisk(n, p, "primary", damaged, array)
    BY <1>2 DEF FindGpt
  <2>2. /\ g.primaryArray = p.array /\ g.backup = backup
        /\ g.backupArray = IF same THEN q.array ELSE backup - p.count
    BY <2>1 DEF FromDisk
  <2>3. /\ p.array \in Nat /\ p.count \in Nat /\ p.first \in Int /\ p.last \in Int
        /\ p.alternate \in Nat
        /\ p.array >= 2 /\ p.array + p.count <= p.first /\ p.first <= p.last + 1
        /\ p.last < n
    BY <1>2, PrimaryIs
  <2>4. same => q.array \in Nat /\ q.array >= 1
    <3> SUFFICES ASSUME same
                 PROVE  q.array \in Nat /\ q.array >= 1
      OBVIOUS
    <3>1. at = p.alternate /\ at \in Nat
      BY <1>2, <2>3
    <3> HIDE DEF at
    <3>2. q.my = at /\ q.my > p.last
      BY DEF ValidCopy, SameTable
    <3>3. at # 1
      BY <2>3, <3>1, <3>2
    <3>4. q.array \in Nat /\ q.array > q.last /\ q.first <= q.last + 1 /\ q.count + 2 <= q.first
          /\ q.count \in Nat /\ q.first \in Int /\ q.last \in Int
      BY <3>1, <3>3, BackupIs
    <3> HIDE DEF q
    <3> QED
      BY <3>4
  <2> HIDE DEF p, q, same, g
  <2>5. backup >= 1 /\ backup - p.count >= 1
    <3>1. CASE fits
      BY <2>3, <3>1
    <3>2. CASE ~fits
      BY <1>1, <2>3, <3>2, SMTT(30)
    <3> QED
      BY <3>1, <3>2
  <2> HIDE DEF backup
  <2> QED
    BY <1>1, <2>2, <2>3, <2>4, <2>5 DEF g
<1>3. CASE ~ValidCopy(d, n, 1)
  <2>1. at = n - 1 /\ ValidCopy(d, n, n - 1) /\ n - 1 \in Nat
    BY <1>1, <1>3
  <2>2. g = FromDisk(n, d[n - 1], "backup", "primary", d[n - 1].array)
    BY <1>3, <2>1 DEF FindGpt
  <2> DEFINE h == d[n - 1]
  <2>3. g.primaryArray = 2 /\ g.backup = h.my /\ g.backupArray = h.array
    BY <2>2 DEF FromDisk
  <2>4. n - 1 # 1
    BY <1>3, <2>1
  <2>5. /\ h.my = n - 1 /\ n - 1 # 0 /\ h.array \in Nat /\ h.array > h.last
        /\ h.first <= h.last + 1 /\ h.count + 2 <= h.first
        /\ h.count \in Nat /\ h.first \in Int /\ h.last \in Int
    BY <2>1, <2>4, BackupIs
  <2> HIDE DEF h, g
  <2> QED
    BY <1>1, <2>1, <2>3, <2>5 DEF g
<1> QED
  BY <1>2, <1>3

\* So a block of a copy that decays is not block 0.
LEMMA DamagedPlace ==
  ASSUME NEW d, DiskOK(d), NEW n \in Sizes, IsGpt(ReadFrom(d, n)),
         NEW b \in Range(Front(Runs(ReadFrom(d, n))))
  PROVE  b.lba \in Nat \ {0}
<1> DEFINE t == ReadFrom(d, n)
           g == t.gpt
           S == [lba : Nat \ {0}, content : {[is |-> "entry", entry |-> e] : e \in Pairs}
                                               \cup {Header(g, g.backup, 1, g.backupArray),
                                                     Header(g, 1, g.backup, g.primaryArray)}]
           r == GptRuns(g)
           a == ArrayRun(g, g.backupArray)
           c == ArrayRun(g, g.primaryArray)
           u == Block(g.backup, Header(g, g.backup, 1, g.backupArray))
           v == Block(1, Header(g, 1, g.backup, g.primaryArray))
<1>1. GptOK(g) /\ g.primaryArray >= 2 /\ g.backup >= 1 /\ g.backupArray >= 1
  BY GptWasRead, FoundPlaces
<1>2. /\ g.primaryArray \in Int /\ g.backup \in Int /\ g.backupArray \in Int
      /\ g.entries \in Seq(Pairs)
  BY <1>1 DEF GptOK, GptRec
<1>3. u \in S /\ v \in S
  BY <1>1, <1>2 DEF Block
<1>4. ASSUME NEW l \in Int, l >= 1
      PROVE  ArrayRun(g, l) \in Seq(S)
  <2> DEFINE m == Len(g.entries)
             X(i) == Block(l + i - 1, [is |-> "entry", entry |-> g.entries[i]])
  <2>1. m \in Nat /\ DOMAIN g.entries = 1 .. m /\ \A i \in 1 .. m : g.entries[i] \in Pairs
    BY <1>2
  <2>2. ArrayRun(g, l) = [i \in 1 .. m |-> X(i)]
    BY <2>1 DEF ArrayRun
  <2>3. \A i \in 1 .. m : X(i) \in S
    BY <1>4, <2>1 DEF Block
  <2> HIDE DEF S, m, X
  <2>4. [i \in 1 .. m |-> X(i)] \in Seq(S)
    BY <2>1, <2>3
  <2> QED
    BY <2>2, <2>4
<1>5. r = a \o <<u>> \o c \o <<v>>
  BY DEF GptRuns
<1>6. a \in Seq(S) /\ c \in Seq(S) /\ <<u>> \in Seq(S) /\ <<v>> \in Seq(S)
  <2> HIDE DEF S, u, v
  <2>1. g.backupArray \in Int /\ g.backupArray >= 1 /\ g.primaryArray \in Int /\ g.primaryArray >= 1
    BY <1>1, <1>2
  <2>2. a \in Seq(S) /\ c \in Seq(S)
    BY <1>4, <2>1
  <2>3. <<u>> \in Seq(S) /\ <<v>> \in Seq(S)
    BY <1>3
  <2> QED
    BY <2>2, <2>3
<1> HIDE DEF S, r, a, c, u, v
<1>7. r \in Seq(S)
  BY <1>5, <1>6, FourParts
<1>8. PICK w : Runs(t) = Append(r, w)
  BY DEF Runs, IsGpt, r
<1>9. Range(Front(Runs(t))) = {r[i] : i \in 1 .. Len(r)}
  <2> DEFINE U == S \cup {w}
             s == Append(r, w)
  <2>1. r \in Seq(U) /\ w \in U /\ Len(r) \in Nat
    BY <1>7
  <2>2. /\ s \in Seq(U) /\ Len(s) = Len(r) + 1
        /\ \A i \in 1 .. Len(r) : s[i] = r[i]
    BY <2>1, AppendIs
  <2>3. Len(s) >= 1 /\ Len(s) - 1 = Len(r)
    BY <2>1, <2>2
  <2> HIDE DEF U, s
  <2>4. Range(Front(s)) = {s[i] : i \in 1 .. Len(r)}
    BY <2>2, <2>3, FrontIs
  <2>5. {s[i] : i \in 1 .. Len(r)} = {r[i] : i \in 1 .. Len(r)}
    BY <2>2
  <2> QED
    BY <1>8, <2>4, <2>5 DEF s
<1> HIDE DEF t
<1>10. PICK i \in 1 .. Len(r) : b = r[i]
  BY <1>9 DEF t
<1>11. b \in S
  BY <1>7, <1>10
<1> QED
  BY <1>11 DEF S
-----------------------------------------------------------------------------
(* The inductive invariant. *)

\* The kinds of values that the variables have.
TypesOK ==
    /\ size \in Sizes
    /\ DiskOK(dev) /\ Beyond(dev, size)
    /\ TableOK(mem)
    /\ whole \in [mem : BOOLEAN, dev : BOOLEAN]
    /\ job = [left |-> job.left, done |-> job.done, table |-> job.table, safe |-> job.safe,
              sound |-> job.sound, shows |-> job.shows]
    /\ job.done \in BOOLEAN

\* The partitions of an MBR in memory are apart if it comes from no cut write.
MemOK == whole.mem /\ mem.kind = "mbr" => MbrApart(mem)

\* Of a write that returned every block is on the device.
DoneOK ==
    job.done => /\ job.left = <<>> /\ TableOK(job.table) /\ WritableOn(size, job.table)
                /\ Written(dev, size, job.table)

\* The first k blocks of mem have been written over d.
Writing(k, d) ==
    /\ k \in Nat /\ k < Len(Runs(mem)) /\ job.left = SubSeq(Runs(mem), k + 1, Len(Runs(mem)))
    /\ DiskOK(d) /\ CutAt(d, dev, size, Runs(mem), k)
    /\ whole.dev => Good(d, size)
    /\ job.safe => SafeOn(d, size, mem)
    /\ job.shows = {Parts(ReadFrom(d, size)), Parts(mem)}

\* A write that has blocks left writes what is in memory, over some device.
WriteOK ==
    job.left # <<>> => /\ ~job.done /\ job.table = mem /\ WritableOn(size, mem)
                       /\ \E k, d : Writing(k, d)

\* Between the writes the device shows what it should.
RestOK ==
    job.left = <<>> => /\ whole.dev => Good(dev, size)
                       /\ job.safe => Parts(ReadFrom(dev, size)) \in job.shows

\* The inductive invariant.
IInv == TypesOK /\ MemOK /\ DoneOK /\ WriteOK /\ RestOK

\* It holds of an empty device.
LEMMA InitInv == Init => IInv
<1> SUFFICES ASSUME Init
             PROVE  IInv
  OBVIOUS
<1>1. size \in Sizes /\ dev = [b \in Lbas |-> Data] /\ mem = NoTable
      /\ job = [left |-> <<>>, done |-> FALSE, table |-> NoTable, safe |-> FALSE,
                sound |-> FALSE, shows |-> {}]
      /\ whole = [mem |-> TRUE, dev |-> TRUE]
  BY DEF Init, Lbas
<1>2. 0 \in Lbas
  BY Constants DEF Lbas
<1>3. DiskOK(dev) /\ Beyond(dev, size) /\ dev[0] = Data
  BY <1>1, <1>2 DEF DiskOK, Beyond, Boot, Inner
<1>4. TypesOK
  BY <1>1, <1>3 DEF TypesOK, TableOK
<1>5. Good(dev, size)
  BY <1>1, <1>3, EmptyGood
<1>6. mem.kind = "none"
  BY <1>1 DEF NoTable
<1>7. job.left = <<>> /\ ~job.done /\ ~job.safe
  BY <1>1
<1> QED
  BY <1>4, <1>5, <1>6, <1>7 DEF IInv, MemOK, DoneOK, WriteOK, RestOK

\* A step that changes only the table in memory.
LEMMA EditKeeps ==
  ASSUME IInv, Idle, UNCHANGED <<dev, size, job>>, TableOK(mem'),
         whole' \in [mem : BOOLEAN, dev : BOOLEAN], whole'.dev = whole.dev,
         whole'.mem /\ mem'.kind = "mbr" => MbrApart(mem')
  PROVE  IInv'
<1>1. dev' = dev /\ size' = size /\ job' = job /\ job.left = <<>>
  BY DEF Idle
<1>2. TypesOK'
  BY <1>1 DEF IInv, TypesOK
<1>3. MemOK'
  BY DEF MemOK
<1>4. DoneOK'
  BY <1>1 DEF IInv, DoneOK
<1>5. WriteOK'
  BY <1>1 DEF WriteOK
<1>6. RestOK'
  BY <1>1 DEF IInv, RestOK
<1> QED
  BY <1>2, <1>3, <1>4, <1>5, <1>6 DEF IInv

\* What is in memory was edited to another table of the same make.
LEMMA TablesKeep ==
  ASSUME IInv, NEW T, Edit(T), whole' \in {whole, [whole EXCEPT !.mem = TRUE]},
         \A t \in T : TableOK(t) /\ (t.kind = "mbr" /\ whole'.mem => MbrApart(t))
  PROVE  IInv'
<1>1. Idle /\ mem' \in T /\ UNCHANGED <<dev, size, job>>
  BY DEF Edit
<1>2. whole \in [mem : BOOLEAN, dev : BOOLEAN]
  BY DEF IInv, TypesOK
<1>3. whole' \in [mem : BOOLEAN, dev : BOOLEAN] /\ whole'.dev = whole.dev
  BY <1>2
<1> QED
  BY <1>1, <1>3, EditKeeps

\* A table of a GPT that is a good one.
LEMMA GptTable ==
  ASSUME NEW g, GptOK(g)
  PROVE  TableOK([kind |-> "gpt", gpt |-> g]) /\ [kind |-> "gpt", gpt |-> g].kind # "mbr"
BY DEF TableOK

\* New tables.
LEMMA MakeKeeps == IInv /\ (NewMbr \/ NewGpt \/ Build) => IInv'
<1>0. IInv => size \in Sizes
  BY DEF IInv, TypesOK
<1>1. ASSUME IInv, NewMbr
      PROVE  IInv'
  <2> DEFINE t == [kind |-> "mbr", blocks |-> size, logical |-> <<>>,
                   entries |-> [i \in 1 .. Slots |-> Empty]]
  <2>1. Edit({t}) /\ whole' = [whole EXCEPT !.mem = TRUE]
    BY <1>1 DEF NewMbr, Make
  <2>2. MbrOK(t) /\ MbrApart(t)
    BY <1>0, <1>1, NewMbrOK
  <2> HIDE DEF t
  <2>3. \A u \in {t} : TableOK(u) /\ (u.kind = "mbr" /\ whole'.mem => MbrApart(u))
    BY <2>2 DEF TableOK
  <2> QED
    BY <1>1, <2>1, <2>3, TablesKeep
<1>2. ASSUME IInv, NewGpt
      PROVE  IInv'
  <2> DEFINE t == [kind |-> "gpt", gpt |-> GptNew(size)]
  <2>1. Edit({t}) /\ whole' = [whole EXCEPT !.mem = TRUE]
    BY <1>2 DEF NewGpt, Make
  <2>2. GptOK(GptNew(size))
    BY <1>0, <1>2, GptNewOK DEF NewGpt
  <2>3. TableOK(t) /\ t.kind # "mbr"
    BY <2>2, GptTable
  <2> HIDE DEF t
  <2>4. \A u \in {t} : TableOK(u) /\ (u.kind = "mbr" /\ whole'.mem => MbrApart(u))
    BY <2>3
  <2> QED
    BY <1>2, <2>1, <2>4, TablesKeep
<1>3. ASSUME IInv, Build
      PROVE  IInv'
  <2>1. PICK layout \in Layouts :
          Make(BuildMbr(size, layout)
                 \cup {[kind |-> "gpt", gpt |-> g] : g \in BuildGpt(size, layout)})
    BY <1>3 DEF Build
  <2> DEFINE A == BuildMbr(size, layout)
             B == {[kind |-> "gpt", gpt |-> g] : g \in BuildGpt(size, layout)}
  <2>2. Edit(A \cup B) /\ whole' = [whole EXCEPT !.mem = TRUE]
    BY <2>1 DEF Make
  <2>3. \A t \in A : TableOK(t) /\ MbrApart(t)
    BY <1>0, <1>3, BuildMbrOK DEF TableOK
  <2>4. \A t \in B : TableOK(t) /\ t.kind # "mbr"
    <3> SUFFICES ASSUME NEW g \in BuildGpt(size, layout)
                 PROVE  /\ TableOK([kind |-> "gpt", gpt |-> g])
                        /\ [kind |-> "gpt", gpt |-> g].kind # "mbr"
      OBVIOUS
    <3>1. GptOK(g)
      BY <1>0, <1>3, BuildGptOK
    <3> QED
      BY <3>1, GptTable
  <2> HIDE DEF A, B
  <2>5. \A u \in A \cup B : TableOK(u) /\ (u.kind = "mbr" /\ whole'.mem => MbrApart(u))
    BY <2>3, <2>4
  <2> QED
    BY <1>3, <2>2, <2>5, TablesKeep
<1> QED
  BY <1>1, <1>2, <1>3

\* The GPT of a table replaced by another.
LEMMA GptReplaced ==
  ASSUME NEW t, TableOK(t), IsGpt(t), NEW g, GptOK(g)
  PROVE  TableOK([t EXCEPT !.gpt = g]) /\ [t EXCEPT !.gpt = g].kind # "mbr"
<1> DEFINE h == [t EXCEPT !.gpt = g]
<1>1. CASE t.kind = "gpt"
  <2>1. t = [kind |-> "gpt", gpt |-> t.gpt]
    BY <1>1, TableKinds
  <2>2. h = [kind |-> "gpt", gpt |-> g]
    BY <2>1
  <2> HIDE DEF h
  <2> QED
    BY <2>2, GptTable DEF h
<1>2. CASE t.kind = "hybrid"
  <2> DEFINE a == t.gpt
             es == t.entries
  <2>1. t = [kind |-> "hybrid", gpt |-> a, entries |-> es] /\ Protected(es)
    BY <1>2, TableKinds
  <2> HIDE DEF a, es
  <2>2. h = [kind |-> "hybrid", gpt |-> g, entries |-> es]
    BY <2>1
  <2> HIDE DEF h
  <2>3. h.kind = "hybrid" /\ h.gpt = g /\ h.entries = es
    BY <2>2
  <2> QED
    BY <2>1, <2>2, <2>3 DEF TableOK, h
<1> QED
  BY <1>1, <1>2 DEF IsGpt

\* Edits of the table in memory.
LEMMA EditsKeep == IInv /\ (EditMbr \/ EditGpt \/ MakeHybrid \/ IntoGpt) => IInv'
<1>0. IInv => TableOK(mem) /\ MemOK /\ whole \in {whole, [whole EXCEPT !.mem = TRUE]}
  BY DEF IInv, TypesOK
<1>1. ASSUME IInv, EditMbr
      PROVE  IInv'
  <2>1. mem.kind = "mbr" /\ Edit(MbrEdits(mem)) /\ whole' = whole
    BY <1>1 DEF EditMbr
  <2>2. MbrOK(mem)
    BY <1>0, <1>1, <2>1, TableKinds
  <2>3. \A t \in MbrEdits(mem) : TableOK(t) /\ (t.kind = "mbr" /\ whole'.mem => MbrApart(t))
    BY <1>0, <1>1, <2>1, <2>2, MbrEditsKeep DEF TableOK, MemOK
  <2> QED
    BY <1>0, <1>1, <2>1, <2>3, TablesKeep
<1>2. ASSUME IInv, EditGpt
      PROVE  IInv'
  <2> DEFINE T == {[mem EXCEPT !.gpt = g] : g \in GptEdits(mem.gpt)}
  <2>1. IsGpt(mem) /\ Edit(T) /\ whole' = whole
    BY <1>2 DEF EditGpt
  <2>2. GptOK(mem.gpt)
    BY <1>0, <1>2, <2>1, TableKinds DEF IsGpt
  <2>3. \A t \in T : TableOK(t) /\ t.kind # "mbr"
    <3> SUFFICES ASSUME NEW g \in GptEdits(mem.gpt)
                 PROVE  TableOK([mem EXCEPT !.gpt = g]) /\ [mem EXCEPT !.gpt = g].kind # "mbr"
      OBVIOUS
    <3>1. GptOK(g)
      BY <2>2, GptEditsKeep
    <3> QED
      BY <1>0, <1>2, <2>1, <3>1, GptReplaced
  <2> HIDE DEF T
  <2> QED
    BY <1>0, <1>2, <2>1, <2>3, TablesKeep
<1>3. ASSUME IInv, MakeHybrid
      PROVE  IInv'
  <2>1. IsGpt(mem) /\ whole' = whole
    BY <1>3 DEF MakeHybrid
  <2>2. GptOK(mem.gpt)
    BY <1>0, <1>3, <2>1, TableKinds DEF IsGpt
  <2>3. PICK protective \in 1 .. Slots, n \in 0 .. Slots - 1 :
          \E mirrors \in [1 .. n -> Used(mem.gpt)] :
            Edit({[kind |-> "hybrid", gpt |-> mem.gpt,
                   entries |-> Hybrid(mem.gpt, protective, mirrors)]})
    BY <1>3 DEF MakeHybrid
  <2>4. PICK mirrors \in [1 .. n -> Used(mem.gpt)] :
          Edit({[kind |-> "hybrid", gpt |-> mem.gpt,
                 entries |-> Hybrid(mem.gpt, protective, mirrors)]})
    BY <2>3
  <2> DEFINE es == Hybrid(mem.gpt, protective, mirrors)
             t == [kind |-> "hybrid", gpt |-> mem.gpt, entries |-> es]
  <2>5. Protected(es)
    BY <2>2, HybridOK
  <2> HIDE DEF es
  <2>6. t.kind = "hybrid" /\ t.gpt = mem.gpt /\ t.entries = es
    OBVIOUS
  <2>7. t = [kind |-> "hybrid", gpt |-> t.gpt, entries |-> t.entries]
    OBVIOUS
  <2>8. Edit({t})
    BY <2>4 DEF es
  <2> HIDE DEF t
  <2>9. TableOK(t) /\ t.kind # "mbr"
    BY <2>2, <2>5, <2>6, <2>7 DEF TableOK
  <2>10. \A u \in {t} : TableOK(u) /\ (u.kind = "mbr" /\ whole'.mem => MbrApart(u))
    BY <2>9
  <2> QED
    BY <1>0, <1>3, <2>1, <2>8, <2>10, TablesKeep
<1>4. ASSUME IInv, IntoGpt
      PROVE  IInv'
  <2> DEFINE t == [kind |-> "gpt", gpt |-> mem.gpt]
  <2>1. mem.kind = "hybrid" /\ Edit({t}) /\ whole' = whole
    BY <1>4 DEF IntoGpt
  <2>2. GptOK(mem.gpt)
    BY <1>0, <1>4, <2>1, TableKinds
  <2>3. TableOK(t) /\ t.kind # "mbr"
    BY <2>2, GptTable
  <2> HIDE DEF t
  <2>4. \A u \in {t} : TableOK(u) /\ (u.kind = "mbr" /\ whole'.mem => MbrApart(u))
    BY <2>3
  <2> QED
    BY <1>0, <1>4, <2>1, <2>4, TablesKeep
<1> QED
  BY <1>1, <1>2, <1>3, <1>4

\* Reading the device.
LEMMA ReadKeeps == IInv /\ ReadDisk => IInv'
<1> SUFFICES ASSUME IInv, ReadDisk
             PROVE  IInv'
  OBVIOUS
<1> DEFINE R == ReadFrom(dev, size)
<1>1. /\ Idle /\ UNCHANGED <<dev, size, job>> /\ whole' = [whole EXCEPT !.mem = whole.dev]
      /\ mem' = IF R.kind \in {"mbr", "gpt", "hybrid"} THEN R ELSE NoTable
  BY DEF ReadDisk, ReadOk, Read
<1>2. size \in Sizes /\ DiskOK(dev) /\ whole \in [mem : BOOLEAN, dev : BOOLEAN]
      /\ (whole.dev => Good(dev, size))
  BY <1>1 DEF IInv, TypesOK, RestOK, Idle
<1>3. /\ R = Failed("not_recognized") \/ R = Failed("corrupt")
           \/ (TableOK(R) /\ R.kind \in {"mbr", "gpt", "hybrid"})
  BY <1>2, ReadIsTable
<1>4. whole.dev /\ R.kind = "mbr" => MbrApart(R)
  BY <1>2 DEF Good
<1> HIDE DEF R
<1>5. R.kind \in {"mbr", "gpt", "hybrid"} => TableOK(R)
  BY <1>3 DEF Failed
<1>6. TableOK(NoTable) /\ NoTable.kind # "mbr"
  BY DEF TableOK, NoTable
<1>7. TableOK(mem') /\ (whole.dev /\ mem'.kind = "mbr" => MbrApart(mem'))
  <2>1. CASE R.kind \in {"mbr", "gpt", "hybrid"}
    BY <1>1, <1>4, <1>5, <2>1
  <2>2. CASE R.kind \notin {"mbr", "gpt", "hybrid"}
    BY <1>1, <1>6, <2>2
  <2> QED
    BY <2>1, <2>2
<1>8. /\ whole' \in [mem : BOOLEAN, dev : BOOLEAN] /\ whole'.dev = whole.dev
      /\ whole'.mem = whole.dev
  BY <1>1, <1>2
<1> QED
  BY <1>1, <1>7, <1>8, EditKeeps

\* A sequence from its first element on is the sequence; then comes its tail.
LEMMA Subseqs ==
  ASSUME NEW S, NEW r \in Seq(S), NEW k \in Nat, k < Len(r)
  PROVE  /\ SubSeq(r, 1, Len(r)) = r
         /\ Len(SubSeq(r, k + 1, Len(r))) = Len(r) - k
         /\ Head(SubSeq(r, k + 1, Len(r))) = r[k + 1]
         /\ Tail(SubSeq(r, k + 1, Len(r))) = SubSeq(r, k + 2, Len(r))
<1>1. Len(r) \in Nat
  OBVIOUS
<1>2. SubSeq(r, 1, Len(r)) = r
  OBVIOUS
<1>3. /\ SubSeq(r, k + 1, Len(r)) \in Seq(S) /\ Len(SubSeq(r, k + 1, Len(r))) = Len(r) - k
      /\ \A i \in 1 .. Len(r) - k : SubSeq(r, k + 1, Len(r))[i] = r[k + i]
  BY <1>1
<1>4. /\ SubSeq(r, k + 2, Len(r)) \in Seq(S) /\ Len(SubSeq(r, k + 2, Len(r))) = Len(r) - k - 1
      /\ \A i \in 1 .. Len(r) - k - 1 : SubSeq(r, k + 2, Len(r))[i] = r[k + 1 + i]
  BY <1>1
<1> DEFINE s == SubSeq(r, k + 1, Len(r))
           u == SubSeq(r, k + 2, Len(r))
<1> HIDE DEF s, u
<1>5. s # <<>> /\ Head(s) = r[k + 1]
  <2>1. s \in Seq(S) /\ Len(s) >= 1
    BY <1>1, <1>3 DEF s
  <2>2. 1 \in 1 .. Len(r) - k
    BY <1>1
  <2>3. s[1] = r[k + 1]
    BY <1>3, <2>2 DEF s
  <2>4. Head(s) = s[1] /\ s # <<>>
    BY <2>1
  <2> QED
    BY <2>3, <2>4
<1>6. Tail(s) \in Seq(S) /\ Len(Tail(s)) = Len(r) - k - 1
      /\ \A i \in 1 .. Len(r) - k - 1 : Tail(s)[i] = s[i + 1]
  BY <1>1, <1>3, <1>5 DEF s
<1>7. Tail(s) = u
  BY <1>1, <1>3, <1>4, <1>6 DEF s, u
<1> QED
  BY <1>2, <1>3, <1>5, <1>7 DEF s, u

\* A write begins.
LEMMA StartKeeps == IInv /\ StartWrite => IInv'
<1> SUFFICES ASSUME IInv, StartWrite
             PROVE  IInv'
  OBVIOUS
<1> DEFINE r == Runs(mem)
           R == ReadFrom(dev, size)
<1>1. /\ Idle /\ Writable(mem) /\ UNCHANGED <<dev, size, mem, whole>>
      /\ job' = [left |-> r, done |-> FALSE, table |-> mem, safe |-> Safe(mem),
                 sound |-> ReadOk, shows |-> {Parts(R), Parts(mem)}]
  BY DEF StartWrite, Read
<1>2. /\ size \in Sizes /\ DiskOK(dev) /\ TableOK(mem) /\ size \in Nat
      /\ (whole.dev => Good(dev, size))
  BY <1>1, Constants DEF IInv, TypesOK, RestOK, Idle
<1>3. WritableOn(size, mem)
  BY <1>1 DEF Writable, WritableOn
<1>4. Safe(mem) => SafeOn(dev, size, mem)
  BY DEF Safe, SafeOn, Read, Changed, ChangedOn
<1>5. r \in Seq(RunBlock) /\ Len(r) >= 1 /\ Len(r) \in Nat
  BY <1>2, <1>3, RunsOrdered DEF Ordered
<1>6. /\ job'.left = r /\ job'.done = FALSE /\ job'.table = mem /\ job'.safe = Safe(mem)
      /\ job'.shows = {Parts(R), Parts(mem)}
      /\ job' = [left |-> job'.left, done |-> job'.done, table |-> job'.table,
                 safe |-> job'.safe, sound |-> job'.sound, shows |-> job'.shows]
  BY <1>1
<1>7. TypesOK'
  BY <1>1, <1>6 DEF IInv, TypesOK
<1>8. MemOK' /\ DoneOK'
  BY <1>1, <1>6 DEF IInv, MemOK, DoneOK
<1>9. Writing(0, dev)'
  <2>1. SubSeq(r, 0 + 1, Len(r)) = r /\ 0 \in Nat /\ 0 < Len(r)
    BY <1>5
  <2>2. CutAt(dev, dev, size, r, 0)
    BY DEF CutAt, OnDisk
  <2> HIDE DEF r, R
  <2>3. dev' = dev /\ size' = size /\ Runs(mem') = r /\ mem' = mem /\ whole' = whole
    BY <1>1 DEF r
  <2> QED
    BY <1>2, <1>4, <1>6, <2>1, <2>2, <2>3 DEF Writing, R
<1>10. WriteOK'
  <2>1. \E k, d : Writing(k, d)'
    BY <1>9
  <2> QED
    BY <1>1, <1>3, <1>6, <2>1 DEF WriteOK
<1>11. RestOK'
  BY <1>5, <1>6 DEF RestOK
<1> QED
  BY <1>7, <1>8, <1>10, <1>11 DEF IInv

\* A write stops.
LEMMA InterruptKeeps == IInv /\ Interrupt => IInv'
<1> SUFFICES ASSUME IInv, Interrupt
             PROVE  IInv'
  OBVIOUS
<1>1. /\ job.left # <<>> /\ UNCHANGED <<dev, size, mem>>
      /\ job' = [job EXCEPT !.left = <<>>]
      /\ whole' = [whole EXCEPT !.dev = whole.dev /\ whole.mem /\ job.safe]
  BY DEF Interrupt
<1>2. TypesOK /\ MemOK /\ WriteOK
  BY DEF IInv
<1>3. /\ ~job.done /\ WritableOn(size, mem)
      /\ \E k, d : Writing(k, d)
  BY <1>1, <1>2 DEF WriteOK
<1>4. PICK k, d : Writing(k, d)
  BY <1>3
<1>5. job.safe => /\ Parts(ReadFrom(dev, size)) \in job.shows
                  /\ whole.dev /\ whole.mem => Good(dev, size)
  <2> SUFFICES ASSUME job.safe
               PROVE  /\ Parts(ReadFrom(dev, size)) \in job.shows
                      /\ whole.dev /\ whole.mem => Good(dev, size)
    OBVIOUS
  <2>1. /\ Parts(ReadFrom(dev, size)) \in {Parts(ReadFrom(d, size)), Parts(mem)}
        /\ Good(d, size) /\ (mem.kind = "mbr" => MbrApart(mem)) => Good(dev, size)
    BY <1>2, <1>3, <1>4, CutShows DEF TypesOK, Writing
  <2> QED
    BY <1>2, <1>4, <2>1 DEF Writing, MemOK
<1>6. /\ job'.left = <<>> /\ job'.done = job.done /\ job'.safe = job.safe /\ job'.shows = job.shows
      /\ job' = [left |-> job'.left, done |-> job'.done, table |-> job'.table,
                 safe |-> job'.safe, sound |-> job'.sound, shows |-> job'.shows]
  BY <1>1, <1>2 DEF TypesOK
<1>7. /\ whole'.mem = whole.mem /\ whole'.mem \in BOOLEAN
      /\ whole' = [mem |-> whole'.mem, dev |-> whole'.dev]
      /\ whole'.dev = (whole.dev /\ whole.mem /\ job.safe)
  BY <1>1, <1>2 DEF TypesOK
<1>8. TypesOK'
  <2>1. whole'.dev \in BOOLEAN
    BY <1>7, Zenon
  <2>2. whole' \in [mem : BOOLEAN, dev : BOOLEAN]
    BY <1>7, <2>1
  <2> QED
    BY <1>1, <1>2, <1>6, <2>2 DEF TypesOK
<1>9. MemOK' /\ DoneOK' /\ WriteOK'
  BY <1>1, <1>2, <1>3, <1>6, <1>7 DEF MemOK, DoneOK, WriteOK
<1>10. RestOK'
  <2>1. dev' = dev /\ size' = size
    BY <1>1
  <2> QED
    BY <1>5, <1>6, <1>7, <2>1 DEF RestOK
<1> QED
  BY <1>8, <1>9, <1>10 DEF IInv

\* A block is written.
LEMMA WriteKeeps == IInv /\ WriteBlock => IInv'
<1> SUFFICES ASSUME IInv, WriteBlock
             PROVE  IInv'
  OBVIOUS
<1> DEFINE r == Runs(mem)
           h == Head(job.left)
           last == Len(job.left) = 1
<1>1. /\ job.left # <<>> /\ h.lba < size /\ size' = size /\ mem' = mem
      /\ dev' = [dev EXCEPT ![h.lba] = h.content]
      /\ job' = [job EXCEPT !.left = Tail(job.left), !.done = last]
      /\ whole' = IF last THEN [whole EXCEPT !.dev = whole.mem] ELSE whole
  BY DEF WriteBlock
<1>2. TypesOK /\ MemOK /\ WriteOK
  BY DEF IInv
<1>3. size \in Sizes /\ size \in Nat /\ DiskOK(dev) /\ Beyond(dev, size) /\ TableOK(mem)
      /\ whole \in [mem : BOOLEAN, dev : BOOLEAN]
  BY <1>2, Constants DEF TypesOK
<1>4. job.table = mem /\ WritableOn(size, mem) /\ \E k, d : Writing(k, d)
  BY <1>1, <1>2 DEF WriteOK
<1>5. PICK k, d : Writing(k, d)
  BY <1>4
<1>6. /\ k \in Nat /\ k < Len(r) /\ job.left = SubSeq(r, k + 1, Len(r))
      /\ DiskOK(d) /\ CutAt(d, dev, size, r, k)
      /\ whole.dev => Good(d, size)
      /\ job.safe => SafeOn(d, size, mem)
      /\ job.shows = {Parts(ReadFrom(d, size)), Parts(mem)}
  BY <1>5 DEF Writing
<1>7. Ordered(r) /\ r \in Seq(RunBlock) /\ Len(r) \in Nat
  BY <1>3, <1>4, RunsOrdered DEF Ordered
<1>8. /\ Len(job.left) = Len(r) - k /\ h = r[k + 1]
      /\ Tail(job.left) = SubSeq(r, k + 2, Len(r))
  BY <1>6, <1>7, Subseqs
<1>9. DiskOK(dev') /\ Beyond(dev', size) /\ CutAt(d, dev', size, r, k + 1)
  <2> DEFINE n == size
             e == dev
             f == dev'
  <2>1. h.lba < n /\ f = [e EXCEPT ![h.lba] = h.content]
    BY <1>1
  <2> HIDE DEF h, r, n, e, f
  <2>2. r[k + 1].lba < n /\ f = [e EXCEPT ![r[k + 1].lba] = r[k + 1].content]
    BY <1>8, <2>1
  <2>3. /\ DiskOK(e) /\ n \in Sizes /\ Beyond(e, n) /\ Ordered(r)
        /\ k \in Nat /\ k < Len(r) /\ CutAt(d, e, n, r, k)
    BY <1>3, <1>6, <1>7 DEF n, e
  <2>4. DiskOK(f) /\ Beyond(f, n) /\ CutAt(d, f, n, r, k + 1)
    BY ONLY <2>2, <2>3, BlockWritten
  <2> QED
    BY <2>4 DEF n, f
<1>10. last \in BOOLEAN
  BY Zenon
<1> DEFINE left == Tail(job.left)
<1> HIDE DEF last, left, h
<1>11. /\ job'.left = left /\ job'.done = last /\ job'.table = job.table /\ job'.safe = job.safe
       /\ job'.shows = job.shows
       /\ job' = [left |-> job'.left, done |-> job'.done, table |-> job'.table,
                  safe |-> job'.safe, sound |-> job'.sound, shows |-> job'.shows]
  BY <1>1, <1>2 DEF TypesOK, left
<1>12. whole' \in [mem : BOOLEAN, dev : BOOLEAN] /\ whole'.mem = whole.mem
       /\ (last => whole'.dev = whole.mem) /\ (~last => whole' = whole)
  BY <1>1, <1>3
<1>13. TypesOK' /\ MemOK'
  BY <1>1, <1>2, <1>3, <1>9, <1>10, <1>11, <1>12 DEF TypesOK, MemOK
<1>14. last <=> k + 1 = Len(r)
  BY <1>6, <1>7, <1>8 DEF last
<1>15. CASE k + 1 = Len(r)
  <2>1. left = <<>> /\ last
    <3>1. k + 2 > Len(r)
      BY <1>7, <1>15, <1>6
    <3>2. SubSeq(r, k + 2, Len(r)) = <<>>
      BY <1>6, <1>7, <3>1
    <3> QED
      BY <1>8, <1>14, <1>15, <3>2 DEF left
  <2>2. Written(dev', size, mem)
    BY <1>9, <1>15 DEF CutAt, Written
  <2> HIDE DEF r
  <2>3. whole.mem => Good(dev', size)
    BY <1>2, <1>3, <1>4, <1>9, <2>2, WrittenGood DEF MemOK
  <2>4. Parts(ReadFrom(dev', size)) = Parts(mem)
    BY <1>3, <1>4, <2>2, TableWritten
  <2>5. DoneOK'
    BY <1>1, <1>3, <1>4, <1>11, <2>1, <2>2 DEF DoneOK
  <2>6. RestOK'
    BY <1>1, <1>6, <1>11, <1>12, <2>1, <2>3, <2>4 DEF RestOK
  <2>7. WriteOK'
    BY <1>11, <2>1 DEF WriteOK
  <2> QED
    BY <1>13, <2>5, <2>6, <2>7 DEF IInv
<1>16. CASE k + 1 # Len(r)
  <2>1. left # <<>> /\ ~last
    <3> DEFINE s == SubSeq(r, k + 2, Len(r))
    <3>1. s \in Seq(RunBlock) /\ Len(s) = Len(r) - k - 1
      BY <1>6, <1>7
    <3> HIDE DEF s, r
    <3>2. Len(s) # 0
      BY <1>6, <1>7, <1>16, <3>1
    <3>3. s # <<>>
      BY <3>2
    <3> QED
      BY <1>8, <1>14, <1>16, <3>3 DEF left, s
  <2>2. Writing(k + 1, d)'
    <3>1. k + 1 \in Nat /\ k + 1 < Len(r) /\ k + 1 + 1 = k + 2
      BY <1>6, <1>7, <1>16
    <3>2. left = SubSeq(r, k + 1 + 1, Len(r))
      BY <1>8, <3>1 DEF left
    <3>3. Runs(mem') = r /\ whole'.dev = whole.dev
      BY <1>1, <1>12, <2>1
    <3> HIDE DEF r
    <3> QED
      BY <1>1, <1>6, <1>9, <1>11, <3>1, <3>2, <3>3 DEF Writing
  <2>3. \E m, c : Writing(m, c)'
    BY <2>2
  <2>4. WriteOK'
    BY <1>1, <1>4, <1>11, <2>1, <2>3 DEF WriteOK
  <2>5. DoneOK' /\ RestOK'
    BY <1>11, <2>1 DEF DoneOK, RestOK
  <2> QED
    BY <1>13, <2>4, <2>5 DEF IInv
<1> QED
  BY <1>15, <1>16

\* After a fault the device is at rest.
LEMMA FaultKeeps ==
  ASSUME IInv, NEW safe \in BOOLEAN, Fault(safe), size' \in Sizes, DiskOK(dev'), Beyond(dev', size'),
         whole.dev => Good(dev', size'),
         safe => Parts(ReadFrom(dev', size')) = Parts(ReadFrom(dev, size))
  PROVE  IInv'
<1>1. /\ mem' = mem /\ whole' = whole
      /\ job' = [left |-> <<>>, done |-> FALSE, table |-> NoTable, safe |-> safe,
                 sound |-> FALSE, shows |-> {Parts(ReadFrom(dev, size))}]
  BY DEF Fault, Read
<1>2. /\ job'.left = <<>> /\ job'.done = FALSE /\ job'.safe = safe
      /\ job'.shows = {Parts(ReadFrom(dev, size))}
      /\ job' = [left |-> job'.left, done |-> job'.done, table |-> job'.table,
                 safe |-> job'.safe, sound |-> job'.sound, shows |-> job'.shows]
  BY <1>1
<1>3. TypesOK'
  BY <1>1, <1>2 DEF IInv, TypesOK
<1>4. MemOK' /\ DoneOK' /\ WriteOK'
  BY <1>1, <1>2 DEF IInv, MemOK, DoneOK, WriteOK
<1>5. RestOK'
  BY <1>1, <1>2 DEF RestOK
<1> QED
  BY <1>3, <1>4, <1>5 DEF IInv

\* A block decays.
LEMMA DamageKeeps == IInv /\ Damage => IInv'
<1> SUFFICES ASSUME IInv, Damage
             PROVE  IInv'
  OBVIOUS
<1> DEFINE R == ReadFrom(dev, size)
           safe == R.gpt.damaged = "none" /\ R.gpt.backup = size - 1
<1>1. PICK b \in Range(Front(Runs(R))) :
          IsGpt(R) /\ size' = size /\ dev' = [dev EXCEPT ![b.lba] = Data] /\ Fault(safe)
  BY DEF Damage, Read
<1>2. /\ size \in Sizes /\ DiskOK(dev) /\ Beyond(dev, size)
  BY DEF IInv, TypesOK
<1> DEFINE a == b.lba
           e == dev'
<1>3. a \in Nat \ {0}
  BY <1>1, <1>2, DamagedPlace
<1>4. e = [dev EXCEPT ![a] = Data] /\ dev = [i \in Lbas |-> dev[i]]
  BY <1>1, <1>2 DEF DiskOK
<1>5. PICK es : Protected(es) /\ dev[0] = Record(es)
  BY <1>1, <1>2, GptWasRead
<1>6. safe \in BOOLEAN
  BY Zenon
<1> HIDE DEF a, e, R, safe
<1>7. /\ e = [i \in Lbas |-> e[i]] /\ \A i \in Lbas : e[i] = IF i = a THEN Data ELSE dev[i]
  BY <1>4
<1>8. 0 \in Lbas
  BY Constants DEF Lbas
<1>9. e[0] = dev[0]
  BY <1>3, <1>7, <1>8
<1>10. DiskOK(e) /\ Beyond(e, size)
  <2>1. Inner(Data)
    BY DEF Inner
  <2> QED
    BY <1>2, <1>7, <1>9, <2>1 DEF DiskOK, Beyond
<1>11. Good(e, size)
  BY <1>2, <1>5, <1>9, <1>10, ProtectedGood
<1>12. safe => Parts(ReadFrom(e, size)) = Parts(ReadFrom(dev, size))
  <2>1. CASE a \in Lbas
    <3>1. e[a].is # "header"
      BY <1>7, <2>1 DEF Data
    <3> QED
      BY <1>1, <1>2, <1>3, <1>7, <1>10, <3>1, LostBlock DEF safe, R
  <2>2. CASE a \notin Lbas
    <3>1. \A i \in Lbas : e[i] = dev[i]
      BY <1>7, <2>2
    <3>2. e = dev
      BY <1>4, <1>7, <3>1
    <3> QED
      BY <3>2
  <2> QED
    BY <2>1, <2>2
<1>13. Fault(safe) /\ size' = size
  BY <1>1
<1> QED
  BY <1>2, <1>6, <1>10, <1>11, <1>12, <1>13, FaultKeeps DEF e

\* The device is grown or cut.
LEMMA ResizeKeeps == IInv /\ Resize => IInv'
<1> SUFFICES ASSUME IInv, Resize
             PROVE  IInv'
  OBVIOUS
<1> DEFINE R == ReadFrom(dev, size)
           m == size'
           safe == IsGpt(R) /\ R.gpt.damaged # "primary" /\ R.gpt.last < m
<1>1. m \in Sizes /\ dev' = Trimmed(dev, m) /\ Fault(safe)
  BY DEF Resize, Read, Trimmed, Lbas
<1>2. size \in Sizes /\ DiskOK(dev) /\ Beyond(dev, size)
  BY DEF IInv, TypesOK
<1>3. safe \in BOOLEAN
  BY Zenon
<1>4. Idle
  BY <1>1 DEF Fault
<1>5. whole.dev => Good(dev, size)
  BY <1>4 DEF IInv, RestOK, Idle
<1> HIDE DEF m
<1>6. DiskOK(Trimmed(dev, m)) /\ Beyond(Trimmed(dev, m), m)
  BY <1>1, <1>2, TrimmedOK
<1>7. whole.dev => Good(Trimmed(dev, m), m)
  BY <1>1, <1>2, <1>5, TrimmedGood
<1>8. safe => Parts(ReadFrom(Trimmed(dev, m), m)) = Parts(R)
  BY <1>1, <1>2, <1>6, GptTrimmed
<1> HIDE DEF safe
<1> QED
  BY <1>1, <1>3, <1>6, <1>7, <1>8, FaultKeeps DEF m

\* No step changes anything.
LEMMA StutterKeeps == IInv /\ UNCHANGED vars => IInv'
<1> SUFFICES ASSUME IInv, UNCHANGED vars
             PROVE  IInv'
  OBVIOUS
<1>1. dev' = dev /\ size' = size /\ mem' = mem /\ job' = job /\ whole' = whole
  BY DEF vars
<1>2. TypesOK' /\ MemOK' /\ DoneOK' /\ RestOK'
  BY <1>1 DEF IInv, TypesOK, MemOK, DoneOK, RestOK
<1>3. WriteOK'
  <2> SUFFICES ASSUME job'.left # <<>>
               PROVE  ~job'.done /\ job'.table = mem' /\ WritableOn(size', mem')
                      /\ \E k, d : Writing(k, d)'
    BY DEF WriteOK
  <2>1. ~job.done /\ job.table = mem /\ WritableOn(size, mem) /\ \E k, d : Writing(k, d)
    BY <1>1 DEF IInv, WriteOK
  <2>2. PICK k, d : Writing(k, d)
    BY <2>1
  <2>3. Writing(k, d)'
    BY <1>1, <2>2 DEF Writing
  <2> QED
    BY <1>1, <2>1, <2>3
<1> QED
  BY <1>2, <1>3 DEF IInv

\* Every step keeps the invariant.
LEMMA NextKeeps == IInv /\ [Next]_vars => IInv'
<1> SUFFICES ASSUME IInv, [Next]_vars
             PROVE  IInv'
  OBVIOUS
<1>1. CASE NewMbr \/ NewGpt \/ Build
  BY <1>1, MakeKeeps
<1>2. CASE EditMbr \/ EditGpt \/ MakeHybrid \/ IntoGpt
  BY <1>2, EditsKeep
<1>3. CASE ReadDisk
  BY <1>3, ReadKeeps
<1>4. CASE StartWrite
  BY <1>4, StartKeeps
<1>5. CASE WriteBlock
  BY <1>5, WriteKeeps
<1>6. CASE Interrupt
  BY <1>6, InterruptKeeps
<1>7. CASE Damage
  BY <1>7, DamageKeeps
<1>8. CASE Resize
  BY <1>8, ResizeKeeps
<1>9. CASE UNCHANGED vars
  BY <1>9, StutterKeeps
<1> QED
  BY <1>1, <1>2, <1>3, <1>4, <1>5, <1>6, <1>7, <1>8, <1>9 DEF Next

\* A write that is cut shows the old or the new partitions.
LEMMA InvSurvives == IInv => TableSurvives
<1> SUFFICES ASSUME IInv, job.safe
             PROVE  Parts(ReadFrom(dev, size)) \in job.shows
  BY DEF TableSurvives, Read
<1>1. TypesOK /\ WriteOK /\ RestOK
  BY DEF IInv
<1>2. CASE job.left = <<>>
  BY <1>1, <1>2 DEF RestOK
<1>3. CASE job.left # <<>>
  <2>1. WritableOn(size, mem) /\ \E k, d : Writing(k, d)
    BY <1>1, <1>3 DEF WriteOK
  <2>2. PICK k, d : Writing(k, d)
    BY <2>1
  <2>3. Parts(ReadFrom(dev, size)) \in {Parts(ReadFrom(d, size)), Parts(mem)}
    BY <1>1, <2>1, <2>2, CutShows DEF TypesOK, Writing
  <2> QED
    BY <2>2, <2>3 DEF Writing
<1> QED
  BY <1>2, <1>3

\* A write that returned is read back.
LEMMA InvRoundTrips == IInv => WriteRoundTrips
<1> SUFFICES ASSUME IInv
             PROVE  WriteRoundTrips
  OBVIOUS
<1>1. job.done => RoundTrips(dev, size, job.table)
  <2>1. size \in Nat
    BY Constants DEF IInv, TypesOK
  <2> QED
    BY <2>1, TableWritten DEF IInv, DoneOK
<1> QED
  BY <1>1 DEF WriteRoundTrips, RoundTrips, Read
-----------------------------------------------------------------------------
(* The properties. *)

\* The invariant holds in every state.
THEOREM Invariant == Spec => []IInv
<1>1. Init => IInv
  BY InitInv
<1>2. IInv /\ [Next]_vars => IInv'
  BY NextKeeps
<1> QED
  BY <1>1, <1>2, PTL DEF Spec

\* A write of a table that is cut after any of its blocks, and a GPT copy that decays,
\* leave a device that shows the old partitions or the new ones wherever the order
\* of Disk::runs is enough for it.
THEOREM CutWriteShowsATable == Spec => []TableSurvives
<1>1. IInv => TableSurvives
  BY InvSurvives
<1> QED
  BY <1>1, Invariant, PTL

\* A table that write returned for is read back as that table, for every table that the
\* checked edits can make: the GPT with both copies, the MBR with its whole chain.
THEOREM WrittenTableIsRead == Spec => []WriteRoundTrips
<1>1. IInv => WriteRoundTrips
  BY InvRoundTrips
<1> QED
  BY <1>1, Invariant, PTL
-----------------------------------------------------------------------------
(* The blocks of a table and those of its partitions. *)

\* The partitions a table lists, and their blocks.
Listed(t) ==
    IF IsGpt(t) THEN {<<i, t.gpt.entries[i]>> : i \in Used(t.gpt)}
    ELSE {<<i, <<t.entries[i].start, t.entries[i].len>> >> :
             i \in Occupied(t) \ ExtendedSlots(t.entries)}
         \cup {<<Slots + k, <<t.logical[k].start, t.logical[k].len>> >> : k \in DOMAIN t.logical}
\* The blocks of an extent.
Blocks(e) == e[1] .. End(e) - 1

\* None of them is where the table goes, and no two of them meet.
Spares(t) ==
    /\ \A x \in Listed(t), b \in Range(Front(Runs(t))) : b.lba \notin Blocks(x[2])
    /\ \A x, y \in Listed(t) : x # y => Blocks(x[2]) \cap Blocks(y[2]) = {}

\* Extents that are apart have no block in common.
LEMMA ApartBlocks ==
  ASSUME NEW a \in Pairs, NEW b \in Pairs, Apart(a, b)
  PROVE  Blocks(a) \cap Blocks(b) = {}
<1> DEFINE s == a[1]
           m == a[2]
           u == b[1]
           v == b[2]
<1>1. s \in Int /\ m \in Int /\ u \in Int /\ v \in Int /\ (s + m <= u \/ u + v <= s)
  BY DEF Pairs, Apart, End
<1>2. Blocks(a) = s .. (s + m) - 1 /\ Blocks(b) = u .. (u + v) - 1
  BY Zenon DEF Blocks, End
<1> HIDE DEF s, m, u, v
<1>3. (s .. (s + m) - 1) \cap (u .. (u + v) - 1) = {}
  BY ONLY <1>1
<1> QED
  BY <1>2, <1>3

\* A GPT or hybrid: the copies are around the usable blocks.
LEMMA GptSpares ==
  ASSUME NEW t, TableOK(t), IsGpt(t), NEW n \in Int, Fits(t.gpt, n)
  PROVE  Spares(t)
<1> DEFINE g == t.gpt
           c == Len(g.entries)
           r == Runs(t)
           es == g.entries
<1>1. /\ GptOK(g) /\ Ordered(r) /\ Len(r) = 2 * c + 3 /\ c \in Nat
      /\ \A i \in 1 .. 2 * c + 3 : r[i].lba = GptLba(g, i)
  BY GptOrdered
<1>2. /\ g.backup \in Int /\ g.backupArray \in Int /\ g.primaryArray \in Int
      /\ g.first \in Int /\ g.last \in Int
      /\ g.primaryArray >= 2 /\ g.primaryArray + c <= g.first /\ g.backupArray > g.last
      /\ g.backupArray + c <= g.backup
  BY <1>1 DEF GptOK, GptRec, Fits
<1>3. es \in Seq(Pairs) /\ Spread(es, g.first, g.last)
  BY <1>1 DEF GptOK, GptRec
<1>l. \A i : GptLba(g, i) = IF i <= c THEN g.backupArray + i - 1
                             ELSE IF i = c + 1 THEN g.backup
                             ELSE IF i <= 2 * c + 1 THEN g.primaryArray + i - c - 2
                             ELSE IF i = 2 * c + 2 THEN 1 ELSE 0
  BY DEF GptLba
<1>4. Listed(t) = {<<i, es[i]>> : i \in {i \in DOMAIN es : es[i] # Unused}}
  BY DEF Listed, Used
<1>5. Range(Front(r)) = {r[i] : i \in 1 .. Len(r) - 1}
  BY <1>1, FrontIs DEF Ordered
<1> HIDE DEF g, c, r, es
<1>6. ASSUME NEW i, i \in 1 .. Len(r) - 1
      PROVE  r[i].lba \in Int /\ (r[i].lba < g.first \/ r[i].lba > g.last)
  <2>1. i \in Nat /\ i >= 1 /\ i <= 2 * c + 2 /\ i \in 1 .. 2 * c + 3
    BY <1>1, <1>6
  <2> DEFINE x == GptLba(g, i)
             low == g.primaryArray
             high == g.backupArray
             first == g.first
             last == g.last
             backup == g.backup
  <2>2. x = IF i <= c THEN high + i - 1
            ELSE IF i = c + 1 THEN backup
            ELSE IF i <= 2 * c + 1 THEN low + i - c - 2
            ELSE IF i = 2 * c + 2 THEN 1 ELSE 0
    BY <1>l
  <2>3. /\ backup \in Int /\ high \in Int /\ low \in Int /\ first \in Int /\ last \in Int
        /\ low >= 2 /\ low + c <= first /\ high > last /\ high + c <= backup /\ c \in Nat
    BY <1>1, <1>2
  <2> HIDE DEF x, low, high, first, last, backup
  <2>4. x \in Int /\ (x < first \/ x > last)
    BY ONLY <2>1, <2>2, <2>3
  <2> QED
    BY <1>1, <2>1, <2>4 DEF x, first, last
<1>7. ASSUME NEW i \in DOMAIN es, es[i] # Unused
      PROVE  es[i] \in Pairs /\ es[i][1] >= g.first /\ End(es[i]) - 1 <= g.last
  <2>1. es[i] \in Pairs
    BY <1>3
  <2> QED
    BY <1>3, <1>7, <2>1 DEF Spread
<1>8. ASSUME NEW i \in DOMAIN es, es[i] # Unused, NEW k \in 1 .. Len(r) - 1
      PROVE  r[k].lba \notin Blocks(es[i])
  <2> DEFINE s == es[i][1]
             z == End(es[i])
             a == r[k].lba
  <2>1. s \in Int /\ z \in Int /\ s >= g.first /\ z - 1 <= g.last
    BY <1>7, <1>8 DEF Pairs, End
  <2>2. a \in Int /\ (a < g.first \/ a > g.last)
    BY <1>6
  <2>3. Blocks(es[i]) = s .. z - 1
    BY DEF Blocks
  <2> HIDE DEF s, z, a
  <2>4. a \notin s .. z - 1
    BY ONLY <1>2, <2>1, <2>2
  <2> QED
    BY <2>3, <2>4 DEF a
<1>9. ASSUME NEW i \in DOMAIN es, es[i] # Unused, NEW k \in DOMAIN es, es[k] # Unused, i # k
      PROVE  Blocks(es[i]) \cap Blocks(es[k]) = {}
  <2>1. Apart(es[i], es[k])
    BY <1>3, <1>9 DEF Spread, Apart
  <2> QED
    BY <1>7, <1>9, <2>1, ApartBlocks
<1>10. ASSUME NEW x \in Listed(t), NEW b \in Range(Front(Runs(t)))
       PROVE  b.lba \notin Blocks(x[2])
  <2>1. PICK i \in DOMAIN es : es[i] # Unused /\ x = <<i, es[i]>>
    BY <1>4, <1>10
  <2>2. PICK k \in 1 .. Len(r) - 1 : b = r[k]
    BY <1>5, <1>10 DEF r
  <2> QED
    BY <1>8, <2>1, <2>2
<1>11. ASSUME NEW x \in Listed(t), NEW y \in Listed(t), x # y
       PROVE  Blocks(x[2]) \cap Blocks(y[2]) = {}
  <2>1. PICK i \in DOMAIN es : es[i] # Unused /\ x = <<i, es[i]>>
    BY <1>4, <1>11
  <2>2. PICK k \in DOMAIN es : es[k] # Unused /\ y = <<k, es[k]>>
    BY <1>4, <1>11
  <2> QED
    BY <1>9, <1>11, <2>1, <2>2
<1> QED
  BY <1>10, <1>11 DEF Spares

\* An MBR: the records are in the extended partition, before their partitions.
LEMMA MbrSpares ==
  ASSUME NEW t, MbrOK(t), MbrApart(t)
  PROVE  Spares(t)
<1> DEFINE es == t.entries
           l == t.logical
           x == Extended(es)
           r == Runs(t)
           e == EbrRecords(t)
           P(i) == <<es[i].start, es[i].len>>
           L(k) == <<l[k].start, l[k].len>>
           Primary == {i \in 1 .. Slots : es[i].kind # "empty" /\ es[i].kind # "extended"}
           Place == {l[k].ebr : k \in DOMAIN l} \cup {x.start}
<1>1. t.kind = "mbr" /\ ~IsGpt(t)
  BY DEF MbrOK, IsGpt
<1>2. Listed(t) = {<<i, P(i)>> : i \in Primary} \cup {<<Slots + k, L(k)>> : k \in DOMAIN l}
  BY <1>1 DEF Listed, Occupied, ExtendedSlots
<1>3. /\ es \in [1 .. Slots -> EntryRec] /\ l \in Seq(LogicalRec)
      /\ l # <<>> => ExtendedSlots(es) # {}
      /\ ExtendedSlots(es) # {} => x.len > 0 /\ Linked(l, x) /\ LogicalsApart(l, x)
      /\ PrimariesApart(es)
  BY MbrFields, MbrApartIs
<1>4. ExtendedSlots(es) # {} =>
        \E i \in 1 .. Slots : es[i].kind = "extended" /\ x = es[i]
  BY Zenon DEF Extended, ExtendedSlots
<1>5. /\ Ordered(r) /\ Len(r) = Len(e) + 1 /\ Len(e) \in Nat
      /\ \A k \in 1 .. Len(e) : r[k] = e[k]
  BY MbrOrdered
<1>6. Range(Front(r)) = {r[k] : k \in 1 .. Len(r) - 1}
  BY <1>5, FrontIs DEF Ordered
<1>7. ASSUME NEW k \in 1 .. Len(r) - 1
      PROVE  ExtendedSlots(es) # {} /\ r[k].lba \in Place
  <2>1. k \in 1 .. Len(e) /\ r[k] = e[k] /\ Len(e) # 0
    BY <1>5
  <2>2. ExtendedSlots(es) # {}
    BY <2>1, EbrRun
  <2>3. CASE l = <<>>
    <3>1. Len(e) = 1 /\ e[1] = Block(x.start, Record(<<Empty, Empty>>))
      BY <2>2, <2>3, EbrRun
    <3>2. k = 1
      BY <2>1, <3>1
    <3> QED
      BY <2>1, <2>2, <3>1, <3>2 DEF Block
  <2>4. CASE l # <<>>
    <3>1. Len(e) = Len(l) /\ \A j \in 1 .. Len(l) : e[j].lba = l[j].ebr
      BY <2>2, <2>4, EbrRun
    <3>2. k \in DOMAIN l
      BY <1>3, <2>1, <3>1
    <3> QED
      BY <1>3, <2>1, <2>2, <3>1, <3>2
  <2> QED
    BY <2>3, <2>4
<1> DEFINE s == x.start
           z == x.start + x.len
<1>8. ASSUME ExtendedSlots(es) # {}
      PROVE  /\ s \in Int /\ z \in Int /\ s < z
             /\ \A a \in Place : a \in Int /\ s <= a /\ a < z
             /\ \A k \in DOMAIN l :
                  /\ L(k) \in Pairs /\ l[k].ebr \in Int
                  /\ L(k)[1] > s /\ End(L(k)) <= z /\ l[k].ebr < L(k)[1]
             /\ \A i, k \in DOMAIN l : i < k => End(L(i)) <= l[k].ebr /\ l[i].ebr < l[k].ebr
             /\ \A k \in DOMAIN l : s <= l[k].ebr
  <2>1. x \in EntryRec
    BY <1>3, <1>4, <1>8
  <2>2. x.start \in Int /\ x.len \in Int /\ x.len > 0
    BY <1>3, <1>8, <2>1 DEF EntryRec
  <2>3. DOMAIN l = 1 .. Len(l) /\ \A k \in DOMAIN l : l[k] \in LogicalRec
    BY <1>3
  <2>4. \A k \in DOMAIN l : l[k].ebr \in Int /\ l[k].start \in Int /\ l[k].len \in Int
    BY <2>3 DEF LogicalRec
  <2>5. \A k \in DOMAIN l : L(k) \in Pairs /\ L(k)[1] = l[k].start /\ End(L(k)) = l[k].start + l[k].len
    BY <2>4 DEF Pairs, End
  <2>6. \A k \in DOMAIN l : l[k].ebr >= x.start /\ l[k].ebr < x.start + x.len
    BY <1>3, <1>8, <2>3 DEF Linked
  <2>7. \A i, k \in DOMAIN l : i < k => l[i].ebr < l[k].ebr
    BY <1>3, <1>8, <2>3 DEF Linked
  <2>8. /\ \A k \in DOMAIN l :
              /\ l[k].start > x.start /\ l[k].start + l[k].len <= x.start + x.len
              /\ l[k].ebr < l[k].start
        /\ \A i, k \in DOMAIN l : i < k => l[i].start + l[i].len <= l[k].ebr
    BY <1>3, <1>8, <2>3 DEF LogicalsApart
  <2> HIDE DEF L, x, l
  <2> QED
    BY <2>2, <2>4, <2>5, <2>6, <2>7, <2>8
<1>9. ASSUME NEW i \in Primary
      PROVE  /\ P(i) \in Pairs
             /\ \A k \in Primary : i # k => Apart(P(i), P(k))
             /\ ExtendedSlots(es) # {} => End(P(i)) <= s \/ z <= P(i)[1]
  <2>1. i \in 1 .. Slots /\ es[i].kind # "empty" /\ es[i].kind # "extended"
    OBVIOUS
  <2>2. \A k \in 1 .. Slots : P(k) \in Pairs
    BY <1>3 DEF EntryRec, Pairs
  <2>3. \A k \in 1 .. Slots : P(k)[1] = es[k].start /\ End(P(k)) = es[k].start + es[k].len
    BY DEF End
  <2>4. \A k \in 1 .. Slots : i # k /\ es[k].kind # "empty" => ApartEntries(es[i], es[k])
    BY <1>3, <2>1 DEF PrimariesApart
  <2>5. \A k \in Primary : i # k => Apart(P(i), P(k))
    BY <2>1, <2>3, <2>4 DEF Apart, ApartEntries
  <2>6. ASSUME ExtendedSlots(es) # {}
        PROVE  End(P(i)) <= s \/ z <= P(i)[1]
    <3>1. PICK j \in 1 .. Slots : es[j].kind = "extended" /\ x = es[j]
      BY <1>4, <2>6
    <3>2. ApartEntries(es[i], x)
      BY <2>1, <2>4, <3>1
    <3> QED
      BY <2>1, <2>3, <3>2 DEF ApartEntries
  <2> QED
    BY <2>1, <2>2, <2>5, <2>6
<1> HIDE DEF r, e, P, L, Primary, Place, s, z, l, es
<1>10. l \in Seq(LogicalRec) /\ (DOMAIN l # {} => ExtendedSlots(es) # {}) /\ DOMAIN l \subseteq Nat
  BY <1>3
<1>11. ASSUME NEW y \in Listed(t), NEW b \in Range(Front(Runs(t)))
       PROVE  b.lba \notin Blocks(y[2])
  <2>1. PICK j \in 1 .. Len(r) - 1 : b = r[j]
    BY <1>6, <1>11 DEF r
  <2> DEFINE a == r[j].lba
  <2>2. ExtendedSlots(es) # {} /\ a \in Place
    BY <1>7
  <2>3. s \in Int /\ z \in Int /\ s < z /\ a \in Int /\ s <= a /\ a < z
    BY <1>8, <2>2
  <2>4. ASSUME NEW i \in Primary
        PROVE  a \notin Blocks(P(i))
    <3> DEFINE f == P(i)[1]
               h == End(P(i))
    <3>1. f \in Int /\ h \in Int /\ Blocks(P(i)) = f .. h - 1
      BY <1>9 DEF Pairs, End, Blocks
    <3>2. h <= s \/ z <= f
      BY <1>9, <2>2
    <3> HIDE DEF f, h, a
    <3>3. a \notin f .. h - 1
      BY ONLY <2>3, <3>1, <3>2
    <3> QED
      BY <3>1, <3>3
  <2>5. ASSUME NEW k \in DOMAIN l
        PROVE  a \notin Blocks(L(k))
    <3> DEFINE f == L(k)[1]
               h == End(L(k))
    <3>1. f \in Int /\ h \in Int /\ Blocks(L(k)) = f .. h - 1
      BY <1>8, <2>2 DEF Pairs, End, Blocks
    <3>2. a < f \/ h <= a
      <4>1. CASE a = s
        BY <1>8, <2>2, <4>1
      <4>2. CASE \E m \in DOMAIN l : a = l[m].ebr
        <5>1. PICK m \in DOMAIN l : a = l[m].ebr
          BY <4>2
        <5>2. CASE m = k
          BY <1>8, <2>2, <5>1, <5>2
        <5>3. CASE m < k
          <6>1. a < l[k].ebr /\ l[k].ebr < f /\ l[k].ebr \in Int
            BY <1>8, <2>2, <5>1, <5>3
          <6> HIDE DEF a, f
          <6> QED
            BY <2>3, <3>1, <6>1
        <5>4. CASE k < m
          BY <1>8, <2>2, <5>1, <5>4
        <5>5. m = k \/ m < k \/ k < m
          BY <1>10
        <5> QED
          BY <5>2, <5>3, <5>4, <5>5
      <4> QED
        BY <2>2, <4>1, <4>2 DEF Place, s
    <3> HIDE DEF f, h, a
    <3>3. a \notin f .. h - 1
      BY ONLY <2>3, <3>1, <3>2
    <3> QED
      BY <3>1, <3>3
  <2>6. (\E i \in Primary : y = <<i, P(i)>>) \/ (\E k \in DOMAIN l : y = <<Slots + k, L(k)>>)
    BY <1>2, <1>11
  <2> QED
    BY <2>1, <2>4, <2>5, <2>6
<1>12. ASSUME NEW i \in Primary, NEW k \in DOMAIN l
       PROVE  Blocks(P(i)) \cap Blocks(L(k)) = {} /\ Blocks(L(k)) \cap Blocks(P(i)) = {}
  <2>1. ExtendedSlots(es) # {}
    BY <1>10
  <2>2. s \in Int /\ z \in Int /\ (End(P(i)) <= s \/ z <= P(i)[1]) /\ P(i) \in Pairs
    BY <1>8, <1>9, <2>1
  <2>3. L(k) \in Pairs /\ L(k)[1] > s /\ End(L(k)) <= z
    BY <1>8, <2>1
  <2>4. End(P(i)) \in Int /\ P(i)[1] \in Int /\ End(L(k)) \in Int /\ L(k)[1] \in Int
    BY <2>2, <2>3 DEF Pairs, End
  <2>5. Apart(P(i), L(k))
    BY <2>2, <2>3, <2>4 DEF Apart
  <2> QED
    BY <2>2, <2>3, <2>5, ApartBlocks
<1>13. ASSUME NEW i \in DOMAIN l, NEW k \in DOMAIN l, i # k
       PROVE  Blocks(L(i)) \cap Blocks(L(k)) = {}
  <2>1. ExtendedSlots(es) # {}
    BY <1>10
  <2>2. ASSUME NEW m \in DOMAIN l, NEW j \in DOMAIN l, m < j
        PROVE  End(L(m)) <= L(j)[1]
    <3>1. End(L(m)) <= l[j].ebr /\ l[j].ebr < L(j)[1] /\ l[j].ebr \in Int
      BY <1>8, <2>1, <2>2
    <3>2. End(L(m)) \in Int /\ L(j)[1] \in Int
      BY <1>8, <2>1 DEF Pairs, End
    <3> QED
      BY <3>1, <3>2
  <2>3. i < k \/ k < i
    BY <1>10, <1>13
  <2>4. Apart(L(i), L(k))
    BY <2>2, <2>3 DEF Apart
  <2> QED
    BY <1>8, <2>1, <2>4, ApartBlocks
<1>14. ASSUME NEW y \in Listed(t), NEW w \in Listed(t), y # w
       PROVE  Blocks(y[2]) \cap Blocks(w[2]) = {}
  <2>1. (\E i \in Primary : y = <<i, P(i)>>) \/ (\E k \in DOMAIN l : y = <<Slots + k, L(k)>>)
    BY <1>2, <1>14
  <2>2. (\E i \in Primary : w = <<i, P(i)>>) \/ (\E k \in DOMAIN l : w = <<Slots + k, L(k)>>)
    BY <1>2, <1>14
  <2>3. CASE (\E i \in Primary : y = <<i, P(i)>>) /\ (\E i \in Primary : w = <<i, P(i)>>)
    <3>1. PICK i \in Primary : y = <<i, P(i)>>
      BY <2>3
    <3>2. PICK k \in Primary : w = <<k, P(k)>>
      BY <2>3
    <3>3. i # k /\ y[2] = P(i) /\ w[2] = P(k)
      BY <1>14, <3>1, <3>2
    <3> QED
      BY <1>9, <3>3, ApartBlocks
  <2>4. CASE (\E k \in DOMAIN l : y = <<Slots + k, L(k)>>) /\ (\E k \in DOMAIN l : w = <<Slots + k, L(k)>>)
    <3>1. PICK i \in DOMAIN l : y = <<Slots + i, L(i)>>
      BY <2>4
    <3>2. PICK k \in DOMAIN l : w = <<Slots + k, L(k)>>
      BY <2>4
    <3>3. i # k /\ y[2] = L(i) /\ w[2] = L(k)
      BY <1>14, <3>1, <3>2
    <3> QED
      BY <1>13, <3>3
  <2>5. CASE (\E i \in Primary : y = <<i, P(i)>>) /\ (\E k \in DOMAIN l : w = <<Slots + k, L(k)>>)
    BY <1>12, <2>5
  <2>6. CASE (\E k \in DOMAIN l : y = <<Slots + k, L(k)>>) /\ (\E i \in Primary : w = <<i, P(i)>>)
    BY <1>12, <2>6
  <2> QED
    BY <2>1, <2>2, <2>3, <2>4, <2>5, <2>6
<1> QED
  BY <1>11, <1>14 DEF Spares

\* A table in memory that can be written spares what is in its partitions.
LEMMA InvSpares == IInv => RunsSparePartitions
<1> SUFFICES ASSUME IInv, Writable(mem), IsGpt(mem) \/ whole.mem
             PROVE  Spares(mem)
  BY DEF RunsSparePartitions, Spares, Listed, Blocks
<1>1. TableOK(mem) /\ MemOK /\ size \in Int
  BY Constants DEF IInv, TypesOK
<1>2. CASE IsGpt(mem)
  <2>1. Fits(mem.gpt, size)
    BY <1>2 DEF Writable, IsGpt
  <2> QED
    BY <1>1, <1>2, <2>1, GptSpares
<1>3. CASE ~IsGpt(mem)
  <2>1. mem.kind = "mbr"
    BY <1>3 DEF Writable
  <2> QED
    BY <1>1, <1>3, <2>1, TableKinds, MbrSpares DEF MemOK
<1> QED
  BY <1>2, <1>3

\* The blocks a table is written as, block 0 apart, are outside every partition that
\* it lists, and no two of these meet: no write of a table damages what is stored.
THEOREM TableSparesPartitions == Spec => []RunsSparePartitions
<1>1. IInv => RunsSparePartitions
  BY InvSpares
<1> QED
  BY <1>1, Invariant, PTL
=============================================================================
