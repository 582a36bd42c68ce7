--------------------------- MODULE FsVolumeProofs ---------------------------
(***************************************************************************)
(* A shared volume whose early steps are not taken gives every pin and     *)
(* every open back exactly once, and lets nothing reach a driver that a    *)
(* panic has broken but the forget of a release that had found the volume  *)
(* whole, for any number of tasks, nodes and pins.                         *)
(*                                                                         *)
(* LockInv is about the lock alone: a task past `entering` has it, and a   *)
(* broken driver is kept by the task that unwinds until the volume is      *)
(* failed.  Account is about the pins while the driver is whole: what the  *)
(* guards of the one call in progress hold, what the queue owes, and that  *)
(* a close stands before the forget of the same pin.                       *)
(***************************************************************************)
EXTENDS FsVolume, FiniteSetTheorems, TLAPS

USE VolumeAssumption

-----------------------------------------------------------------------------
(* The lock. *)

Ops == PathCalls \cup Calls \cup {"none", "release", "into_inner"}
Outside == {"idle", "entering"}
Inside == {"draining", "leaving", "close_owed", "close_leaving", "resolve", "work",
           "truncate", "closing", "guard"}

TaskType ==
    [op : Ops, at : Outside \cup Inside \cup {"unwinding"}, held : Seq(Pins),
     uses : Pins \cup {NoPin}, todo : Nat]
PinType ==
    [node : Nodes \cup {NoNode}, open : BOOLEAN,
     at : {"free", "held", "file", "dir", "releasing", "owed", "lost"}]
OwedType == [call : {"close", "forget"}, pin : Pins]

LockInv ==
    /\ mode \in {"sync", "async"} /\ lock \in Tasks \cup {NoTask}
    /\ failed \in BOOLEAN /\ broken \in BOOLEAN
    /\ task \in [Tasks -> TaskType]
    /\ \A t \in Tasks : task[t].at \notin Outside => lock = t
    /\ \A t \in Tasks : task[t].at = "idle" => task[t] = Idle
    /\ failed => broken /\ lock = NoTask
    /\ broken => failed \/ \E t \in Tasks : lock = t /\ task[t].at = "unwinding"
    /\ \A t \in Tasks : task[t].at = "unwinding" => broken

DataInv ==
    /\ ~broken => queue \in Seq(OwedType)
    /\ pin \in [Pins -> PinType] /\ pins \in [Nodes -> Nat] /\ opens \in [Nodes -> Nat]

\* Task t becomes k, the others stay.
Becomes(t, k) ==
    /\ k \in TaskType /\ task' \in [Tasks -> TaskType] /\ task'[t] = k
    /\ \A u \in Tasks \ {t} : task'[u] = task[u]

LEMMA IdleType ==
  /\ Idle \in TaskType
  /\ Idle.op = "none" /\ Idle.at = "idle" /\ Idle.held = <<>> /\ Idle.uses = NoPin
  BY DEF Idle, TaskType, Ops, Outside

\* A task that waits without a call of its own.
LEMMA RestType ==
  ASSUME NEW a \in {"leaving", "unwinding"}
  PROVE  LET k == [Idle EXCEPT !.at = a]
         IN  k \in TaskType /\ k.op = "none" /\ k.at = a /\ k.held = <<>> /\ k.uses = NoPin
<1> DEFINE k == [Idle EXCEPT !.at = a]
<1>1. k = [op |-> "none", at |-> a, held |-> <<>>, uses |-> NoPin, todo |-> 0]
  BY DEF Idle
<1> HIDE DEF k
<1>2. k.op = "none" /\ k.at = a /\ k.held = <<>> /\ k.uses = NoPin /\ k.todo = 0 BY <1>1
<1>3. k \in TaskType BY <1>1 DEF TaskType, Ops, Inside
<1> QED BY <1>2, <1>3 DEF k

LEMMA SetTask ==
  ASSUME task \in [Tasks -> TaskType], NEW t \in Tasks, NEW k \in TaskType,
         task' = [task EXCEPT ![t] = k]
  PROVE  Becomes(t, k)
  BY DEF Becomes

\* A task that has the lock and is not unwinding works on a whole driver.
LEMMA Working ==
  ASSUME LockInv, NEW t \in Tasks, task[t].at \in Inside
  PROVE  lock = t /\ ~failed /\ ~broken /\ task[t] \in TaskType
<1>1. lock = t /\ lock # NoTask BY DEF LockInv, Inside, Outside
<1>2. ~failed BY <1>1 DEF LockInv
<1>3. ~broken BY <1>1, <1>2 DEF LockInv, Inside
<1> QED BY <1>1, <1>2, <1>3 DEF LockInv

\* With the lock free nobody is inside.
LEMMA FreeLock ==
  ASSUME LockInv, lock = NoTask, NEW t \in Tasks
  PROVE  task[t].at \in Outside /\ (broken => failed)
  BY DEF LockInv

\* The task goes on and keeps the lock.
LEMMA StayStep ==
  ASSUME LockInv, NEW t \in Tasks, task[t].at \in Inside, NEW k, Becomes(t, k), k.at \in Inside,
         lock' = lock, mode' = mode, failed' = failed, broken' = broken
  PROVE  LockInv'
<1>1. lock = t /\ ~failed /\ ~broken BY Working
<1>2. k.at \notin Outside /\ k.at # "unwinding" /\ k.at # "idle" BY DEF Inside, Outside
<1> QED BY <1>1, <1>2 DEF LockInv, Becomes

\* The task is done and gives the lock back.
LEMMA DoneStep ==
  ASSUME LockInv, NEW t \in Tasks, task[t].at \in Inside, Becomes(t, Idle),
         lock' = NoTask, mode' = mode, failed' = failed, broken' = broken
  PROVE  LockInv'
<1>1. lock = t /\ ~failed /\ ~broken BY Working
<1>2. Idle.at = "idle" BY DEF Idle
<1>3. \A u \in Tasks \ {t} : task[u].at \in Outside BY <1>1 DEF LockInv
<1> QED BY <1>1, <1>2, <1>3 DEF LockInv, Becomes, Outside

\* The task a guard leaves behind.
Left(t) == IF mode = "sync" /\ task[t].op # "release" THEN [Idle EXCEPT !.at = "leaving"] ELSE Idle

LEMMA LeaveBecomes ==
  ASSUME LockInv, NEW t \in Tasks, task[t].at \in Inside, Leave(t),
         mode' = mode, failed' = failed, broken' = broken
  PROVE  LockInv' /\ Becomes(t, Left(t))
<1>0. task \in [Tasks -> TaskType] BY DEF LockInv
<1>1. CASE mode = "sync" /\ task[t].op # "release"
  <2> DEFINE k == [Idle EXCEPT !.at = "leaving"]
  <2>1. k \in TaskType /\ k.at \in Inside BY RestType DEF Inside
  <2>2. task' = [task EXCEPT ![t] = k] /\ lock' = lock BY <1>1 DEF Leave
  <2>3. Left(t) = k BY <1>1 DEF Left
  <2> HIDE DEF k
  <2>4. Becomes(t, k) BY <1>0, <2>1, <2>2, SetTask
  <2>5. LockInv' BY <2>1, <2>2, <2>4, StayStep
  <2> QED BY <2>3, <2>4, <2>5
<1>2. CASE ~(mode = "sync" /\ task[t].op # "release")
  <2>1. task' = [task EXCEPT ![t] = Idle] /\ lock' = NoTask BY <1>2 DEF Leave
  <2>2. Left(t) = Idle BY <1>2 DEF Left
  <2>3. Becomes(t, Idle) BY <1>0, <2>1, IdleType, SetTask
  <2>4. LockInv' BY <2>1, <2>3, DoneStep
  <2> QED BY <2>2, <2>3, <2>4
<1> QED BY <1>1, <1>2

-----------------------------------------------------------------------------
(* The pins. *)

\* Each pin is where its record says.
PinOK(p) ==
    \A h \in Pins :
        /\ p[h].at = "free" => p[h] = Unused
        /\ p[h].at # "free" => p[h].node \in Nodes
        /\ p[h].at = "file" => p[h].open
        /\ p[h].at = "dir" => ~p[h].open

\* What a task k holds: its guards are of pins of its own, and only the guard
\* of a file that is being emptied has an open.
HoldOK(k, p) ==
    /\ \A i \in 1 .. Len(k.held) : p[k.held[i]].at = "held"
    /\ \A i, j \in 1 .. Len(k.held) : k.held[i] = k.held[j] => i = j
    /\ k.at = "truncate" => Len(k.held) = 1 /\ p[k.held[1]].open
    /\ k.at # "truncate" => \A i \in 1 .. Len(k.held) : ~p[k.held[i]].open
    /\ k.held # <<>> => k.at \in {"resolve", "work", "truncate", "closing"}
    /\ k.op \in {"open", "create"} /\ k.at = "work" => Len(k.held) = 1
    /\ k.op = "open" /\ k.at = "resolve" => k.held = <<>> /\ k.todo = 1
    /\ k.op = "create" /\ k.at = "resolve" =>
         \/ k.todo = 2 /\ k.held = <<>>
         \/ k.todo = 1 /\ Len(k.held) = 1
    /\ k.op \in {"close", "release"} => k.uses \in Pins
    /\ k.op = "close" /\ k.held = <<>> => p[k.uses].at = "file"

\* No two tasks use one handle.
UsesOK(ts) == \A t, u \in Tasks : ts[t].uses = ts[u].uses /\ ts[t].uses # NoPin => t = u

\* What is owed: at most a close and then a forget of each pin, the close
\* exactly if the driver has it open.
QueueOK(q, p) ==
    /\ \A i \in 1 .. Len(q) : p[q[i].pin].at = "owed"
    /\ \A i, j \in 1 .. Len(q) :
          i < j /\ q[i].pin = q[j].pin => q[i].call = "close" /\ q[j].call = "forget"
    /\ \A i \in 1 .. Len(q) : q[i].call = "close" => p[q[i].pin].open
    /\ \A j \in 1 .. Len(q) : q[j].call = "forget" /\ p[q[j].pin].open =>
          \E i \in 1 .. j - 1 : q[i].pin = q[j].pin

At(p, n) == {h \in Pins : p[h].node = n}
OpenAt(p, n) == {h \in Pins : p[h].node = n /\ p[h].open}

Counts(p, ps, os) ==
    \A n \in Nodes : ps[n] = Cardinality(At(p, n)) /\ os[n] = Cardinality(OpenAt(p, n))

Account ==
    /\ PinOK(pin) /\ UsesOK(task) /\ QueueOK(queue, pin)
    /\ \A t \in Tasks : HoldOK(task[t], pin)
    /\ Counts(pin, pins, opens)

VolumeInv ==
    /\ LockInv /\ DataInv
    /\ ~broken => Account
    /\ broken => Counts(pin, pins, opens)

Quiet == broken /\ broken' => UNCHANGED driver \/ LateRelease

-----------------------------------------------------------------------------
(* Counting. *)

LEMMA AtFinite ==
  ASSUME NEW p, NEW n
  PROVE  /\ IsFiniteSet(At(p, n)) /\ Cardinality(At(p, n)) \in Nat
         /\ IsFiniteSet(OpenAt(p, n)) /\ Cardinality(OpenAt(p, n)) \in Nat
         /\ Cardinality(OpenAt(p, n)) <= Cardinality(At(p, n))
<1>1. At(p, n) \subseteq Pins /\ OpenAt(p, n) \subseteq At(p, n) BY DEF At, OpenAt
<1>2. IsFiniteSet(At(p, n)) BY <1>1, FS_Subset
<1>3. IsFiniteSet(OpenAt(p, n)) /\ Cardinality(OpenAt(p, n)) <= Cardinality(At(p, n))
  BY <1>1, <1>2, FS_Subset
<1> QED BY <1>2, <1>3, FS_CardinalityType

\* Pins that change neither node nor open.
LEMMA CountsSame ==
  ASSUME NEW p, NEW p2, NEW ps, NEW os, Counts(p, ps, os),
         \A h \in Pins : p2[h].node = p[h].node /\ p2[h].open = p[h].open
  PROVE  Counts(p2, ps, os)
<1>1. \A n \in Nodes : At(p2, n) = At(p, n) /\ OpenAt(p2, n) = OpenAt(p, n) BY DEF At, OpenAt
<1> QED BY <1>1 DEF Counts

\* Pins that are given back: forget.
Without(p, hs) == [h \in Pins |-> IF h \in hs THEN Unused ELSE p[h]]
Fewer(p, ps, hs) ==
    [n \in Nodes |-> LET k == Cardinality({h \in hs : p[h].node = n})
                     IN  IF ps[n] < k THEN 0 ELSE ps[n] - k]

LEMMA CountsForget ==
  ASSUME NEW p, NEW ps, NEW os, Counts(p, ps, os), NEW hs \in SUBSET Pins,
         \A h \in hs : p[h].open = FALSE
  PROVE  /\ Counts(Without(p, hs), Fewer(p, ps, hs), os)
         /\ \A n \in Nodes : Cardinality({h \in hs : p[h].node = n}) \in Nat
         /\ \A n \in Nodes : Fewer(p, ps, hs)[n] = ps[n] - Cardinality({h \in hs : p[h].node = n})
         /\ Fewer(p, ps, hs) \in [Nodes -> Nat]
<1> DEFINE p2 == Without(p, hs)
           G(n) == {h \in hs : p[h].node = n}
<1>1. ASSUME NEW n \in Nodes
      PROVE  /\ Cardinality(G(n)) \in Nat /\ Cardinality(G(n)) <= Cardinality(At(p, n))
             /\ Cardinality(At(p2, n)) = Cardinality(At(p, n)) - Cardinality(G(n))
             /\ OpenAt(p2, n) = OpenAt(p, n)
  <2>1. \A h \in Pins : p2[h] = (IF h \in hs THEN Unused ELSE p[h]) BY DEF Without
  <2>2. Unused.node # n /\ Unused.node \notin Nodes BY DEF Unused
  <2>3. At(p2, n) = At(p, n) \ G(n) BY <2>1, <2>2 DEF At
  <2>4. G(n) \subseteq At(p, n) BY DEF At
  <2>5. OpenAt(p2, n) = OpenAt(p, n) BY <2>1, <2>2 DEF OpenAt
  <2> HIDE DEF p2, G
  <2>6. IsFiniteSet(At(p, n)) BY AtFinite
  <2>7. Cardinality(G(n)) <= Cardinality(At(p, n)) /\ IsFiniteSet(G(n)) BY <2>4, <2>6, FS_Subset
  <2>8. Cardinality(At(p, n) \ G(n)) = Cardinality(At(p, n)) - Cardinality(At(p, n) \cap G(n))
    BY <2>6, FS_Difference
  <2>9. At(p, n) \cap G(n) = G(n) BY <2>4
  <2> QED BY <2>3, <2>5, <2>7, <2>8, <2>9, FS_CardinalityType
<1>2. \A n \in Nodes : ps[n] = Cardinality(At(p, n)) /\ Cardinality(At(p, n)) \in Nat
  BY AtFinite DEF Counts
<1>3. \A n \in Nodes : Fewer(p, ps, hs)[n] = IF ps[n] < Cardinality(G(n)) THEN 0
                                              ELSE ps[n] - Cardinality(G(n))
  BY DEF Fewer
<1> HIDE DEF p2, G
<1>4. \A n \in Nodes : Fewer(p, ps, hs)[n] = ps[n] - Cardinality(G(n)) BY <1>1, <1>2, <1>3
<1>5. Counts(p2, Fewer(p, ps, hs), os) BY <1>1, <1>2, <1>4 DEF Counts
<1>6. Fewer(p, ps, hs) \in [Nodes -> Nat]
  <2>1. \A n \in Nodes : Fewer(p, ps, hs)[n] \in Nat BY <1>1, <1>2, <1>4
  <2>2. Fewer(p, ps, hs) = [n \in Nodes |-> Fewer(p, ps, hs)[n]] BY DEF Fewer
  <2> QED BY <2>1, <2>2
<1> QED BY <1>1, <1>4, <1>5, <1>6 DEF p2, G

\* The driver opens a pinned node, or closes an open one.
CanOpen(p, p2, ps, os, h) ==
    /\ os \in [Nodes -> Nat] /\ Counts(p, ps, os)
    /\ h \in Pins /\ p[h].node \in Nodes /\ p[h].open = FALSE
    /\ p2[h].node = p[h].node /\ p2[h].open = TRUE
    /\ \A g \in Pins \ {h} : p2[g].node = p[g].node /\ p2[g].open = p[g].open

LEMMA CountsOpen ==
  ASSUME NEW p, NEW p2, NEW ps, NEW os, NEW h, CanOpen(p, p2, ps, os, h)
  PROVE  Counts(p2, ps, [os EXCEPT ![p[h].node] = @ + 1])
<1> USE DEF CanOpen
<1> DEFINE m == p[h].node
           os2 == [os EXCEPT ![m] = @ + 1]
<1>1. \A n \in Nodes : At(p2, n) = At(p, n) BY DEF At
<1>2. \A n \in Nodes : n # m => OpenAt(p2, n) = OpenAt(p, n) BY DEF OpenAt
<1>3. OpenAt(p2, m) = OpenAt(p, m) \cup {h} /\ h \notin OpenAt(p, m) BY DEF OpenAt
<1>4. Cardinality(OpenAt(p2, m)) = Cardinality(OpenAt(p, m)) + 1
  BY <1>3, AtFinite, FS_AddElement
<1>5. \A n \in Nodes : os2[n] = IF n = m THEN os[n] + 1 ELSE os[n] OBVIOUS
<1> HIDE DEF os2
<1>6. Counts(p2, ps, os2) BY <1>1, <1>2, <1>4, <1>5 DEF Counts
<1> QED BY <1>6 DEF os2

CanClose(p, p2, ps, os, h) ==
    /\ os \in [Nodes -> Nat] /\ Counts(p, ps, os)
    /\ h \in Pins /\ p[h].node \in Nodes /\ p[h].open = TRUE
    /\ p2[h].node = p[h].node /\ p2[h].open = FALSE
    /\ \A g \in Pins \ {h} : p2[g].node = p[g].node /\ p2[g].open = p[g].open

LEMMA CountsClose ==
  ASSUME NEW p, NEW p2, NEW ps, NEW os, NEW h, CanClose(p, p2, ps, os, h)
  PROVE  /\ Counts(p2, ps, [os EXCEPT ![p[h].node] = Less(@)])
         /\ [os EXCEPT ![p[h].node] = Less(@)] \in [Nodes -> Nat]
<1> USE DEF CanClose
<1> DEFINE m == p[h].node
           os2 == [os EXCEPT ![m] = Less(@)]
<1>1. \A n \in Nodes : At(p2, n) = At(p, n) BY DEF At
<1>2. \A n \in Nodes : n # m => OpenAt(p2, n) = OpenAt(p, n) BY DEF OpenAt
<1>3. OpenAt(p2, m) = OpenAt(p, m) \ {h} /\ h \in OpenAt(p, m) BY DEF OpenAt
<1>4. Cardinality(OpenAt(p2, m)) = Cardinality(OpenAt(p, m)) - 1
  <2> HIDE DEF m
  <2>1. IsFiniteSet(OpenAt(p, m)) BY AtFinite
  <2> QED BY <1>3, <2>1, FS_RemoveElement
<1>5. os[m] = Cardinality(OpenAt(p, m)) BY DEF Counts
<1>6. Cardinality(OpenAt(p2, m)) \in Nat BY AtFinite
<1>7. os[m] # 0 /\ Less(os[m]) = os[m] - 1 /\ Less(os[m]) \in Nat
  BY <1>4, <1>5, <1>6 DEF Less
<1>8. os2 = [os EXCEPT ![m] = Less(os[m])] OBVIOUS
<1> HIDE DEF os2, m
<1>9. m \in Nodes BY DEF m
<1>10. os2 \in [Nodes -> Nat] /\ \A n \in Nodes : os2[n] = IF n = m THEN Less(os[m]) ELSE os[n]
  BY <1>7, <1>8, <1>9
<1>11. Counts(p2, ps, os2) BY <1>1, <1>2, <1>4, <1>5, <1>7, <1>10 DEF Counts
<1> QED BY <1>10, <1>11 DEF os2, m

\* The driver pins a node for a pin that was free.
CanPin(p, p2, ps, os, h, n) ==
    /\ ps \in [Nodes -> Nat] /\ Counts(p, ps, os)
    /\ h \in Pins /\ n \in Nodes /\ p[h].node \notin Nodes
    /\ p2[h].node = n /\ p2[h].open = FALSE
    /\ \A g \in Pins \ {h} : p2[g].node = p[g].node /\ p2[g].open = p[g].open
More(ps, n) == [i \in Nodes |-> ps[i] + (IF i = n THEN 1 ELSE 0)]

LEMMA CountsPin ==
  ASSUME NEW p, NEW p2, NEW ps, NEW os, NEW h, NEW n, CanPin(p, p2, ps, os, h, n)
  PROVE  Counts(p2, More(ps, n), os)
<1> USE DEF CanPin, More
<1>1. \A i \in Nodes : OpenAt(p2, i) = OpenAt(p, i) BY DEF OpenAt
<1>2. \A i \in Nodes : i # n => At(p2, i) = At(p, i) BY DEF At
<1>3. At(p2, n) = At(p, n) \cup {h} /\ h \notin At(p, n) BY DEF At
<1>4. Cardinality(At(p2, n)) = Cardinality(At(p, n)) + 1
  <2> HIDE DEF CanPin, More
  <2>1. IsFiniteSet(At(p, n)) BY AtFinite
  <2>2. Cardinality(At(p, n) \cup {h}) = Cardinality(At(p, n)) + 1 BY <1>3, <2>1, FS_AddElement
  <2> QED BY <1>3, <2>2
<1> QED BY <1>1, <1>2, <1>4 DEF Counts

-----------------------------------------------------------------------------
(* What a step of the task inside has to show. *)

\* Pins given back are of the same type and where their records say.
LEMMA WithoutOK ==
  ASSUME NEW p \in [Pins -> PinType], PinOK(p), NEW hs \in SUBSET Pins
  PROVE  Without(p, hs) \in [Pins -> PinType] /\ PinOK(Without(p, hs))
<1>1. Unused \in PinType /\ Unused.at = "free" BY DEF Unused, PinType
<1>2. \A h \in Pins : Without(p, hs)[h] = IF h \in hs THEN Unused ELSE p[h] BY DEF Without
<1>3. Without(p, hs) \in [Pins -> PinType] BY <1>1 DEF Without
<1>4. PinOK(Without(p, hs)) BY <1>1, <1>2 DEF PinOK
<1> QED BY <1>3, <1>4

\* Only pins that are owed matter to the queue.
LEMMA QueueSame ==
  ASSUME NEW q \in Seq(OwedType), NEW p, NEW p2, QueueOK(q, p),
         \A h \in Pins : p[h].at = "owed" => p2[h] = p[h]
  PROVE  QueueOK(q, p2)
<1>0. \A i \in 1 .. Len(q) : q[i] \in OwedType OBVIOUS
<1>1. \A i \in 1 .. Len(q) : q[i].pin \in Pins BY <1>0 DEF OwedType
<1>2. \A i \in 1 .. Len(q) : p2[q[i].pin] = p[q[i].pin] BY <1>1 DEF QueueOK
<1> QED BY <1>2 DEF QueueOK

\* To a task matter the pins it holds and the file it is to close.
SameFor(k, p, p2) ==
    /\ k.held = <<>> \/ (\A h \in Pins : p[h].at = "held" => p2[h] = p[h])
    /\ \A h \in Pins : h = k.uses /\ p[h].at = "file" => p2[h].at = "file"

LEMMA HoldSame ==
  ASSUME NEW k \in TaskType, NEW p, NEW p2, HoldOK(k, p), SameFor(k, p, p2)
  PROVE  HoldOK(k, p2)
<1> USE DEF SameFor
<1>1. k.held \in Seq(Pins) /\ k.uses \in Pins \cup {NoPin} BY DEF TaskType
<1>2. \A i \in 1 .. Len(k.held) : p2[k.held[i]] = p[k.held[i]] BY <1>1 DEF HoldOK
<1>3. k.op = "close" /\ k.held = <<>> => p2[k.uses].at = "file" BY <1>1 DEF HoldOK
<1> QED BY <1>1, <1>2, <1>3 DEF HoldOK

\* A task outside holds nothing, nor does one that is done.
LEMMA HoldsNothing ==
  ASSUME NEW k \in TaskType, NEW p, HoldOK(k, p),
         k.at \notin {"resolve", "work", "truncate", "closing"}
  PROVE  k.held = <<>>
  BY DEF HoldOK

LEMMA IdleHolds ==
  ASSUME NEW p
  PROVE  HoldOK(Idle, p)
<1>1. Len(Idle.held) = 0 BY IdleType
<1> QED BY <1>1, IdleType DEF HoldOK

LEMMA LeftHolds ==
  ASSUME NEW t \in Tasks, NEW p
  PROVE  HoldOK(Left(t), p) /\ Left(t).uses = NoPin
<1>1. CASE Left(t) = Idle BY <1>1, IdleHolds, IdleType
<1>2. CASE Left(t) = [Idle EXCEPT !.at = "leaving"]
  <2> DEFINE k == [Idle EXCEPT !.at = "leaving"]
  <2>1. k.op = "none" /\ k.at = "leaving" /\ k.held = <<>> /\ k.uses = NoPin BY RestType
  <2> HIDE DEF k
  <2>2. Len(k.held) = 0 BY <2>1
  <2>3. HoldOK(k, p) BY <2>1, <2>2 DEF HoldOK
  <2> QED BY <1>2, <2>1, <2>3 DEF k
<1> QED BY <1>1, <1>2 DEF Left

\* What the step has to establish: task t becomes k.
Settles(t, k) ==
    /\ LockInv' /\ DataInv' /\ broken' = broken /\ Becomes(t, k)
    /\ k.uses \in {task[t].uses, NoPin} /\ HoldOK(k, pin')
    /\ PinOK(pin') /\ QueueOK(queue', pin') /\ Counts(pin', pins', opens')
    /\ \A h \in Pins : pin[h].at = "file" /\ h # task[t].uses => pin'[h].at = "file"

LEMMA InsideStep ==
  ASSUME VolumeInv, NEW t \in Tasks, task[t].at \in Inside, NEW k, Settles(t, k)
  PROVE  VolumeInv' /\ Quiet
<1>1. lock = t /\ ~broken /\ task \in [Tasks -> TaskType] BY Working DEF VolumeInv, LockInv
<1>2. Account BY <1>1 DEF VolumeInv
<1>4. UsesOK(task') BY <1>1, <1>2 DEF Account, UsesOK, Settles, Becomes
<1>5. ASSUME NEW u \in Tasks \ {t} PROVE HoldOK(task'[u], pin')
  <2>1. task[u].at \in Outside /\ task[u] \in TaskType BY <1>1 DEF VolumeInv, LockInv
  <2>2. HoldOK(task[u], pin) BY <1>2 DEF Account
  <2>3. task[u].held = <<>> BY <2>1, <2>2, HoldsNothing DEF Outside
  <2>4. \A h \in Pins : h = task[u].uses /\ pin[h].at = "file" => pin'[h].at = "file"
    <3>1. ASSUME NEW h \in Pins, h = task[u].uses, h = task[t].uses PROVE FALSE
      BY <1>2, <3>1 DEF Account, UsesOK
    <3> QED BY <3>1 DEF Settles
  <2>5. HoldOK(task[u], pin')
    <3>1. PICK k1, p2 : k1 = task[u] /\ p2 = pin' OBVIOUS
    <3>2. k1 \in TaskType /\ HoldOK(k1, pin) /\ k1.held = <<>> BY <2>1, <2>2, <2>3, <3>1
    <3>3. \A h \in Pins : h = k1.uses /\ pin[h].at = "file" => p2[h].at = "file" BY <2>4, <3>1
    <3>4. SameFor(k1, pin, p2) BY <3>2, <3>3 DEF SameFor
    <3>5. HoldOK(k1, p2) BY <3>2, <3>4, HoldSame
    <3> QED BY <3>1, <3>5
  <2>6. task'[u] = task[u] BY DEF Settles, Becomes
  <2> QED BY <2>5, <2>6
<1>6. HoldOK(task'[t], pin') BY DEF Settles, Becomes
<1>7. \A u \in Tasks : HoldOK(task'[u], pin') BY <1>5, <1>6
<1>8. Account' BY <1>4, <1>7 DEF Account, Settles
<1> QED BY <1>1, <1>8 DEF VolumeInv, Settles, Quiet

\* The step gives the pins hs back.
Gives(t, k, hs) ==
    /\ LockInv' /\ broken' = broken /\ Becomes(t, k)
    /\ queue' \in Seq(OwedType) /\ opens' = opens
    /\ DriverForget(hs) /\ pin' = Released(hs)
    /\ \A h \in hs : ~pin[h].open /\ (pin[h].at = "file" => h = task[t].uses)
    /\ k.uses \in {task[t].uses, NoPin}
    /\ HoldOK(k, Without(pin, hs)) /\ QueueOK(queue', Without(pin, hs))

LEMMA ForgetStep ==
  ASSUME VolumeInv, NEW t \in Tasks, task[t].at \in Inside, NEW k, NEW hs \in SUBSET Pins,
         Gives(t, k, hs)
  PROVE  VolumeInv' /\ Quiet
<1>1. ~broken BY Working DEF VolumeInv
<1>2. Account /\ DataInv BY <1>1 DEF VolumeInv
<1>3. pin' = Without(pin, hs) BY DEF Gives, Released, Without
<1>4. pins' = Fewer(pin, pins, hs) BY DEF Gives, DriverForget, Fewer
<1>5. \A h \in hs : pin[h].open = FALSE BY <1>2 DEF Gives, DataInv, PinType
<1>6. Counts(pin, pins, opens) BY <1>2 DEF Account
<1>7. Counts(pin', pins', opens') /\ pins' \in [Nodes -> Nat]
  <2>1. /\ Counts(Without(pin, hs), Fewer(pin, pins, hs), opens)
        /\ Fewer(pin, pins, hs) \in [Nodes -> Nat]
    BY <1>5, <1>6, CountsForget
  <2> QED BY <1>3, <1>4, <2>1 DEF Gives
<1>8. pin' \in [Pins -> PinType] /\ PinOK(pin')
  BY <1>2, <1>3, WithoutOK DEF DataInv, Account
<1>9. \A h \in Pins : pin[h].at = "file" /\ h # task[t].uses => pin'[h].at = "file"
  BY <1>3 DEF Gives, Without
<1>10. DataInv' BY <1>2, <1>7, <1>8 DEF DataInv, Gives
<1>11. Settles(t, k) BY <1>3, <1>7, <1>8, <1>9, <1>10 DEF Settles, Gives
<1> QED BY <1>11, InsideStep

\* The step leaves the driver, the queue and the pins alone.
LEMMA StillStep ==
  ASSUME VolumeInv, NEW t \in Tasks, task[t].at \in Inside, NEW k, LockInv', broken' = broken,
         Becomes(t, k), k.uses \in {task[t].uses, NoPin}, HoldOK(k, pin),
         UNCHANGED <<queue, pin, driver>>
  PROVE  VolumeInv' /\ Quiet
<1>1. ~broken BY Working DEF VolumeInv
<1>2. Account /\ DataInv BY <1>1 DEF VolumeInv
<1>3. DataInv' BY <1>2 DEF DataInv, driver
<1>4. PinOK(pin') /\ QueueOK(queue', pin') /\ Counts(pin', pins', opens')
  BY <1>2 DEF Account, driver
<1>5. Settles(t, k) BY <1>3, <1>4 DEF Settles
<1> QED BY <1>5, InsideStep

-----------------------------------------------------------------------------
(* Running what is owed, and starting a call. *)

\* Task t goes on, with these fields.
Turns(t, o, a, hs, n) ==
    \E k \in TaskType : /\ Becomes(t, k) /\ k.uses = task[t].uses
                        /\ k.op = o /\ k.at = a /\ k.held = hs /\ k.todo = n

LEMMA StepTurns ==
  ASSUME LockInv, NEW t \in Tasks, NEW a \in Inside, Step(t, a)
  PROVE  Turns(t, task[t].op, a, task[t].held, task[t].todo)
<1> DEFINE k == [task[t] EXCEPT !.at = a]
<1>1. task[t] \in TaskType /\ task \in [Tasks -> TaskType] BY DEF LockInv
<1>2. /\ k \in TaskType /\ k.uses = task[t].uses
      /\ k.op = task[t].op /\ k.at = a /\ k.held = task[t].held /\ k.todo = task[t].todo
  BY <1>1 DEF TaskType
<1>3. task' = [task EXCEPT ![t] = k] BY DEF Step
<1> HIDE DEF k
<1>4. Becomes(t, k) BY <1>1, <1>2, <1>3, SetTask
<1> QED BY <1>2, <1>4 DEF Turns

LEMMA OwedClosedStep ==
  ASSUME VolumeInv, NEW t \in Tasks, OwedClosed(t)
  PROVE  VolumeInv' /\ Quiet
<1>1. PICK a \in {"draining", "leaving"} : Step(t, a) BY DEF OwedClosed
<1>2. task[t].at \in Inside /\ task[t].at \in {"close_owed", "close_leaving"} /\ a \in Inside
  BY DEF OwedClosed, Inside
<1>3. LockInv /\ ~broken BY <1>2, Working DEF VolumeInv
<1>4. PICK k \in TaskType : /\ Becomes(t, k) /\ k.uses = task[t].uses /\ k.op = task[t].op
                            /\ k.at = a /\ k.held = task[t].held /\ k.todo = task[t].todo
  BY <1>1, <1>2, <1>3, StepTurns DEF Turns
<1>5. HoldOK(task[t], pin) BY <1>3 DEF VolumeInv, Account
<1>6. HoldOK(k, pin) BY <1>1, <1>2, <1>4, <1>5 DEF HoldOK
<1>7. LockInv' BY <1>2, <1>3, <1>4, StayStep DEF OwedClosed
<1> QED BY <1>2, <1>4, <1>6, <1>7, StillStep DEF OwedClosed

LEMMA StartStep ==
  ASSUME VolumeInv, NEW t \in Tasks, Start(t)
  PROVE  VolumeInv' /\ Quiet
<1>1. PICK op \in PathCalls \cup {"use"} : \E n \in Todo(op) :
        task' = [task EXCEPT ![t].op = op, ![t].at = First(op), ![t].todo = n]
  BY DEF Start
<1>0. PICK n \in Todo(op) :
        task' = [task EXCEPT ![t].op = op, ![t].at = First(op), ![t].todo = n]
  BY <1>1
<1>2. task[t].at = "draining" /\ task[t].at \in Inside BY DEF Start, Inside
<1>3. LockInv /\ ~broken /\ task[t] \in TaskType /\ task \in [Tasks -> TaskType]
  BY <1>2, Working DEF VolumeInv, LockInv
<1>4. op \in Ops /\ First(op) \in {"work", "guard", "resolve"} /\ n \in Nat
  <2>1. op \in Ops BY DEF Ops, Calls
  <2>2. First(op) \in {"work", "guard", "resolve"} BY DEF First
  <2>3. Todo(op) \subseteq Nat
    <3>1. 1 .. MaxDirs \subseteq Nat BY MaxDirs \in Nat
    <3> QED BY <3>1 DEF Todo
  <2> QED BY <2>1, <2>2, <2>3
<1> DEFINE k == [task[t] EXCEPT !.op = op, !.at = First(op), !.todo = n]
<1>5. k \in TaskType /\ k.uses = task[t].uses /\ k.op = op /\ k.at = First(op)
      /\ k.held = task[t].held /\ k.todo = n
  BY <1>3, <1>4 DEF TaskType, Inside
<1>6. task' = [task EXCEPT ![t] = k] BY <1>0
<1> HIDE DEF k
<1>7. Becomes(t, k) BY <1>3, <1>5, <1>6, SetTask
<1>8. HoldOK(task[t], pin) BY <1>3 DEF VolumeInv, Account
<1>9. task[t].held = <<>> BY <1>2, <1>3, <1>8, HoldsNothing
<1>10. HoldOK(k, pin)
  <2>1. Len(k.held) = 0 /\ k.held = <<>> BY <1>5, <1>9
  <2>2. k.op = "open" => k.todo = 1 BY <1>5 DEF Todo
  <2>3. k.op = "create" => k.todo = 2 BY <1>5 DEF Todo
  <2>4. k.op \in {"open", "create"} => k.at # "work" BY <1>5 DEF First
  <2>5. k.op \notin {"close", "release"} /\ k.at # "truncate" BY <1>4, <1>5 DEF PathCalls
  <2> QED BY <2>1, <2>2, <2>3, <2>4, <2>5 DEF HoldOK
<1>11. LockInv' BY <1>2, <1>3, <1>4, <1>5, <1>7, StayStep DEF Start, Inside
<1> QED BY <1>2, <1>5, <1>7, <1>10, <1>11, StillStep DEF Start

\* The call is over, and gives the lock back.
LEMMA OverStep ==
  ASSUME VolumeInv, NEW t \in Tasks, task[t].at \in Inside, HandBack(t) \/ Unlock(t)
  PROVE  VolumeInv' /\ Quiet
<1>1. task' = [task EXCEPT ![t] = Idle] /\ lock' = NoTask
      /\ UNCHANGED <<mode, failed, broken, queue, pin, driver>>
  BY DEF HandBack, Unlock
<1>2. Becomes(t, Idle) BY <1>1, SetTask, IdleType DEF VolumeInv, LockInv
<1>3. LockInv' BY <1>1, <1>2, DoneStep DEF VolumeInv
<1> QED BY <1>1, <1>2, <1>3, IdleHolds, IdleType, StillStep

LEMMA DropGuardStep ==
  ASSUME VolumeInv, NEW t \in Tasks, DropGuard(t)
  PROVE  VolumeInv' /\ Quiet
<1>1. task[t].at \in Inside BY DEF DropGuard, Inside
<1>2. LockInv' /\ Becomes(t, Left(t)) BY <1>1, LeaveBecomes DEF VolumeInv, DropGuard
<1> QED BY <1>1, <1>2, LeftHolds, StillStep DEF DropGuard

\* What follows the first owed call.
LEMMA QueueTail ==
  ASSUME NEW q \in Seq(OwedType), q # <<>>, NEW p, QueueOK(q, p)
  PROVE  /\ Tail(q) \in Seq(OwedType) /\ Len(Tail(q)) = Len(q) - 1 /\ Len(q) \in Nat \ {0}
         /\ \A i \in 1 .. Len(Tail(q)) :
              /\ Tail(q)[i] = q[i + 1] /\ i + 1 \in 1 .. Len(q) /\ q[i + 1] \in OwedType
              /\ q[i + 1].pin = Head(q).pin => Head(q).call = "close" /\ q[i + 1].call = "forget"
         /\ Head(q) = q[1] /\ 1 \in 1 .. Len(q) /\ q[1] \in OwedType
<1>1. Len(q) \in Nat \ {0} /\ Head(q) = q[1] OBVIOUS
<1>2. Tail(q) \in Seq(OwedType) /\ Len(Tail(q)) = Len(q) - 1
      /\ \A i \in 1 .. Len(q) - 1 : Tail(q)[i] = q[i + 1]
  OBVIOUS
<1>3. \A i \in 1 .. Len(q) : q[i] \in OwedType OBVIOUS
<1>4. \A i \in 1 .. Len(q) - 1 : 1 < i + 1 /\ i + 1 \in 1 .. Len(q) /\ 1 \in 1 .. Len(q) BY <1>1
<1>5. \A i \in 1 .. Len(q) - 1 : q[i + 1].pin = q[1].pin =>
        q[1].call = "close" /\ q[i + 1].call = "forget"
  BY <1>4 DEF QueueOK
<1>6. 1 \in 1 .. Len(q) BY <1>1
<1> QED BY <1>1, <1>2, <1>3, <1>4, <1>5, <1>6

\* The rest of the queue is still in order when pin h has changed to p2[h].
LEMMA QueueRest ==
  ASSUME NEW q \in Seq(OwedType), q # <<>>, NEW p, NEW p2, QueueOK(q, p),
         \A g \in Pins \ {Head(q).pin} : p2[g] = p[g],
         Head(q).call = "close" => p2[Head(q).pin].at = "owed" /\ ~p2[Head(q).pin].open
  PROVE  QueueOK(Tail(q), p2)
<1> DEFINE h == Head(q).pin
           r == Tail(q)
<1>1. /\ \A i \in 1 .. Len(r) :
              /\ r[i] = q[i + 1] /\ i + 1 \in 1 .. Len(q) /\ q[i + 1] \in OwedType
              /\ q[i + 1].pin = h => Head(q).call = "close" /\ q[i + 1].call = "forget"
      /\ Len(r) = Len(q) - 1 /\ Len(q) \in Nat \ {0} /\ Head(q) = q[1]
  BY QueueTail
<1>2. \A i \in 1 .. Len(r) : r[i].pin \in Pins BY <1>1 DEF OwedType
<1> HIDE DEF r, h
<1>3. \A i \in 1 .. Len(r) : r[i].pin # h => p2[r[i].pin] = p[r[i].pin] BY <1>2 DEF h
<1>4. \A i \in 1 .. Len(r) : r[i].pin = h => p2[h].at = "owed" /\ ~p2[h].open BY <1>1 DEF h
<1>5. \A i \in 1 .. Len(r) : p2[r[i].pin].at = "owed" BY <1>1, <1>3, <1>4 DEF QueueOK
<1>6. \A i, j \in 1 .. Len(r) :
          i < j /\ r[i].pin = r[j].pin => r[i].call = "close" /\ r[j].call = "forget"
  <2> SUFFICES ASSUME NEW i \in 1 .. Len(r), NEW j \in 1 .. Len(r), i < j, r[i].pin = r[j].pin
               PROVE  r[i].call = "close" /\ r[j].call = "forget"
    OBVIOUS
  <2>1. i + 1 < j + 1 BY <1>1
  <2>2. /\ i + 1 \in 1 .. Len(q) /\ j + 1 \in 1 .. Len(q)
        /\ r[i] = q[i + 1] /\ r[j] = q[j + 1]
    BY <1>1
  <2> QED BY <2>1, <2>2 DEF QueueOK
<1>7. \A i \in 1 .. Len(r) : r[i].call = "close" => p2[r[i].pin].open
  <2> SUFFICES ASSUME NEW i \in 1 .. Len(r), r[i].call = "close" PROVE p2[r[i].pin].open
    OBVIOUS
  <2>1. r[i].pin # h BY <1>1
  <2> QED BY <1>1, <1>3, <2>1 DEF QueueOK
<1>8. \A j \in 1 .. Len(r) : r[j].call = "forget" /\ p2[r[j].pin].open =>
          \E i \in 1 .. j - 1 : r[i].pin = r[j].pin
  <2> SUFFICES ASSUME NEW j \in 1 .. Len(r), r[j].call = "forget", p2[r[j].pin].open
               PROVE  \E i \in 1 .. j - 1 : r[i].pin = r[j].pin
    OBVIOUS
  <2>1. r[j].pin # h BY <1>4
  <2>2. p[r[j].pin].open BY <1>3, <2>1
  <2>3. PICK i \in 1 .. (j + 1) - 1 : q[i].pin = q[j + 1].pin BY <1>1, <2>2 DEF QueueOK
  <2>4. i # 1 BY <1>1, <2>1, <2>3 DEF h
  <2>5. i - 1 \in 1 .. j - 1 /\ i - 1 \in 1 .. Len(r) /\ (i - 1) + 1 = i BY <1>1, <2>4
  <2>6. r[i - 1].pin = q[i].pin BY <1>1, <2>5
  <2> QED BY <1>1, <2>3, <2>5, <2>6
<1>9. QueueOK(r, p2) BY <1>5, <1>6, <1>7, <1>8 DEF QueueOK
<1> QED BY <1>9 DEF r

LEMMA RunForgetStep ==
  ASSUME VolumeInv, NEW t \in Tasks, RunForget(t)
  PROVE  VolumeInv' /\ Quiet
<1> DEFINE h == Head(queue).pin
           p2 == Without(pin, {h})
<1>1. task[t].at \in Inside /\ task[t].at \in {"draining", "leaving"}
  BY DEF RunForget, Draining, Inside
<1>2. LockInv /\ ~broken /\ task[t] \in TaskType BY <1>1, Working DEF VolumeInv
<1>3. Account /\ queue \in Seq(OwedType) BY <1>2 DEF VolumeInv, DataInv
<1>4. QueueOK(queue, pin) /\ HoldOK(task[t], pin) BY <1>3 DEF Account
<1>5. queue # <<>> /\ Head(queue).call = "forget" /\ queue' = Tail(queue) BY DEF RunForget
<1>6. /\ Head(queue) = queue[1] /\ 1 \in 1 .. Len(queue) /\ queue[1] \in OwedType
      /\ queue' \in Seq(OwedType)
  BY <1>3, <1>4, <1>5, QueueTail
<1>7. h \in Pins BY <1>6 DEF OwedType
<1>8. pin[h].at = "owed" /\ ~pin[h].open
  <2>1. pin[h].at = "owed" BY <1>4, <1>6 DEF QueueOK
  <2>2. 1 .. 1 - 1 = {} OBVIOUS
  <2> QED BY <1>4, <1>5, <1>6, <2>1, <2>2 DEF QueueOK
<1>9. \A g \in Pins : g # h => p2[g] = pin[g] BY DEF Without
<1> HIDE DEF h, p2
<1>10. QueueOK(queue', p2) BY <1>3, <1>4, <1>5, <1>9, QueueRest DEF h
<1>11. HoldOK(task[t], p2)
  <2>1. task[t].held = <<>> BY <1>1, <1>2, <1>4, HoldsNothing
  <2>2. SameFor(task[t], pin, p2) BY <1>8, <1>9, <2>1 DEF SameFor
  <2> QED BY <1>2, <1>4, <2>2, HoldSame
<1>12. Becomes(t, task[t]) BY <1>2 DEF Becomes, RunForget, LockInv
<1>13. LockInv' BY <1>1, <1>2, <1>12, StayStep DEF RunForget
<1>14. Gives(t, task[t], {h})
  BY <1>6, <1>8, <1>10, <1>11, <1>12, <1>13 DEF Gives, RunForget, h, p2
<1> QED BY <1>1, <1>7, <1>14, ForgetStep

\* A close of the driver ends the open of pin h.
LEMMA CloseOK ==
  ASSUME DataInv, Account, NEW h \in Pins, pin[h].open, DriverClose(h)
  PROVE  /\ opens' \in [Nodes -> Nat] /\ pin[h].node \in Nodes /\ pin[h].open = TRUE
         /\ \A p2 : /\ p2[h].node = pin[h].node /\ p2[h].open = FALSE
                    /\ \A g \in Pins \ {h} : p2[g] = pin[g]
                    => Counts(p2, pins, opens')
<1>1. pin[h] \in PinType BY DEF DataInv
<1>2. pin[h].open = TRUE BY <1>1 DEF PinType
<1>3. pin[h].at # "free" BY <1>2 DEF Account, PinOK, Unused
<1>4. pin[h].node \in Nodes BY <1>3 DEF Account, PinOK
<1>5. Counts(pin, pins, opens) /\ opens \in [Nodes -> Nat] BY DEF Account, DataInv
<1>6. opens' = [opens EXCEPT ![pin[h].node] = Less(@)] BY DEF DriverClose
<1>7. ASSUME NEW p2, p2[h].node = pin[h].node, p2[h].open = FALSE,
             \A g \in Pins \ {h} : p2[g] = pin[g]
      PROVE  Counts(p2, pins, opens') /\ opens' \in [Nodes -> Nat]
  <2>1. \A g \in Pins \ {h} : p2[g].node = pin[g].node /\ p2[g].open = pin[g].open BY <1>7
  <2>2. CanClose(pin, p2, pins, opens, h) BY <1>2, <1>4, <1>5, <1>7, <2>1 DEF CanClose
  <2>3. /\ Counts(p2, pins, [opens EXCEPT ![pin[h].node] = Less(@)])
        /\ [opens EXCEPT ![pin[h].node] = Less(@)] \in [Nodes -> Nat]
    BY <2>2, CountsClose
  <2> QED BY <1>6, <2>3
<1>8. opens' \in [Nodes -> Nat]
  <2> DEFINE p2 == [g \in Pins |-> IF g = h THEN [pin[g] EXCEPT !.open = FALSE] ELSE pin[g]]
  <2>1. p2[h].node = pin[h].node /\ p2[h].open = FALSE BY <1>1 DEF PinType
  <2>2. \A g \in Pins \ {h} : p2[g] = pin[g] OBVIOUS
  <2> HIDE DEF p2
  <2> QED BY <1>7, <2>1, <2>2
<1> QED BY <1>2, <1>4, <1>7, <1>8

\* The driver ends the open of pin h, which stays where it is or goes to `at`.
Shut(p, h, at) == [p EXCEPT ![h].open = FALSE, ![h].at = at]
Shuts(t, k, h, at) ==
    /\ LockInv' /\ broken' = broken /\ Becomes(t, k)
    /\ queue' \in Seq(OwedType) /\ pins' = pins /\ h \in Pins /\ pin[h].open
    /\ DriverClose(h) /\ pin' = Shut(pin, h, at)
    /\ at \in {"held", "owed"} /\ (pin[h].at = "file" => h = task[t].uses)
    /\ k.uses \in {task[t].uses, NoPin} /\ HoldOK(k, pin') /\ QueueOK(queue', pin')

\* What such a pin looks like.
IsShut(p, p2, h, at) ==
    /\ p2 \in [Pins -> PinType]
    /\ p2[h].node = p[h].node /\ p2[h].open = FALSE /\ p2[h].at = at
    /\ \A g \in Pins \ {h} : p2[g] = p[g]

LEMMA ShutPin ==
  ASSUME NEW p \in [Pins -> PinType], NEW h \in Pins, NEW at \in {"held", "owed"}
  PROVE  IsShut(p, Shut(p, h, at), h, at)
<1> DEFINE p2 == Shut(p, h, at)
<1> DEFINE k == [p[h] EXCEPT !.open = FALSE, !.at = at]
<1>1. p[h] \in PinType OBVIOUS
<1>2. k \in PinType /\ k.node = p[h].node /\ k.open = FALSE /\ k.at = at BY <1>1 DEF PinType
<1>3. p2 = [p EXCEPT ![h] = k] BY DEF Shut
<1> HIDE DEF k, p2
<1>4. /\ p2 \in [Pins -> PinType]
      /\ p2[h].node = p[h].node /\ p2[h].open = FALSE /\ p2[h].at = at
      /\ \A g \in Pins \ {h} : p2[g] = p[g]
  BY <1>2, <1>3
<1> QED BY <1>4 DEF p2, IsShut

LEMMA CloseStep ==
  ASSUME VolumeInv, NEW t \in Tasks, task[t].at \in Inside, NEW k, NEW h, NEW at, Shuts(t, k, h, at)
  PROVE  VolumeInv' /\ Quiet
<1>1. ~broken BY Working DEF VolumeInv
<1>2. Account /\ DataInv /\ pin \in [Pins -> PinType] /\ PinOK(pin)
  BY <1>1 DEF VolumeInv, DataInv, Account
<1>3. PICK p2 : p2 = pin' OBVIOUS
<1>4. /\ p2 \in [Pins -> PinType] /\ p2[h].node = pin[h].node /\ p2[h].open = FALSE /\ p2[h].at = at
      /\ \A g \in Pins \ {h} : p2[g] = pin[g]
  <2>1. p2 = Shut(pin, h, at) BY <1>3 DEF Shuts
  <2>2. h \in Pins /\ at \in {"held", "owed"} BY DEF Shuts
  <2>3. IsShut(pin, p2, h, at) BY <1>2, <2>1, <2>2, ShutPin
  <2> QED BY <2>3 DEF IsShut
<1>5. h \in Pins /\ pin[h].open /\ DriverClose(h) BY DEF Shuts
<1>6. opens' \in [Nodes -> Nat] /\ pin[h].node \in Nodes BY <1>2, <1>5, CloseOK
<1>7. Counts(p2, pins, opens') BY <1>2, <1>4, <1>5, CloseOK
<1>8. at \in {"held", "owed"} BY DEF Shuts
<1>9. PinOK(p2) BY <1>2, <1>4, <1>6, <1>8 DEF PinOK
<1>10. \A g \in Pins : pin[g].at = "file" /\ g # task[t].uses => p2[g].at = "file"
  BY <1>4 DEF Shuts
<1>11. DataInv' BY <1>2, <1>3, <1>4, <1>6 DEF DataInv, Shuts
<1>12. Settles(t, k) BY <1>3, <1>7, <1>9, <1>10, <1>11 DEF Settles, Shuts
<1> QED BY <1>12, InsideStep

LEMMA RunCloseStep ==
  ASSUME VolumeInv, NEW t \in Tasks, RunClose(t)
  PROVE  VolumeInv' /\ Quiet
<1> DEFINE h == Head(queue).pin
<1>1. task[t].at \in Inside /\ task[t].at \in {"draining", "leaving"}
  BY DEF RunClose, Draining, Inside
<1>2. LockInv /\ ~broken /\ task[t] \in TaskType BY <1>1, Working DEF VolumeInv
<1>3. Account /\ queue \in Seq(OwedType) /\ pin \in [Pins -> PinType]
  BY <1>2 DEF VolumeInv, DataInv
<1>4. QueueOK(queue, pin) /\ HoldOK(task[t], pin) BY <1>3 DEF Account
<1>5. queue # <<>> /\ Head(queue).call = "close" /\ queue' = Tail(queue) BY DEF RunClose
<1>6. /\ Head(queue) = queue[1] /\ 1 \in 1 .. Len(queue) /\ queue[1] \in OwedType
      /\ queue' \in Seq(OwedType)
  BY <1>3, <1>4, <1>5, QueueTail
<1>7. h \in Pins BY <1>6 DEF OwedType
<1>8. pin[h].at = "owed" /\ pin[h].open BY <1>4, <1>5, <1>6 DEF QueueOK
<1>9. pin' = Shut(pin, h, "owed")
  <2>1. pin' = [pin EXCEPT ![h].open = FALSE] BY DEF RunClose
  <2>2. pin[h] \in PinType BY <1>3, <1>7
  <2>3. [pin[h] EXCEPT !.open = FALSE] = [pin[h] EXCEPT !.open = FALSE, !.at = "owed"]
    BY <1>8, <2>2 DEF PinType
  <2> HIDE DEF h
  <2> QED BY <1>3, <1>7, <2>1, <2>3 DEF Shut
<1> HIDE DEF h
<1>10. PICK p2 : p2 = pin' OBVIOUS
<1>11. /\ p2[h].open = FALSE /\ p2[h].at = "owed" /\ \A g \in Pins \ {h} : p2[g] = pin[g]
  <2>1. IsShut(pin, p2, h, "owed") BY <1>3, <1>7, <1>9, <1>10, ShutPin
  <2> QED BY <2>1 DEF IsShut
<1>12. QueueOK(queue', p2) BY <1>3, <1>4, <1>5, <1>11, QueueRest DEF h
<1>13. PICK a \in {"close_owed", "close_leaving"} : Step(t, a) BY DEF RunClose
<1>14. PICK k \in TaskType : /\ Becomes(t, k) /\ k.uses = task[t].uses /\ k.op = task[t].op
                             /\ k.at = a /\ k.held = task[t].held /\ k.todo = task[t].todo
  BY <1>2, <1>13, StepTurns DEF Turns, Inside
<1>15. task[t].held = <<>> BY <1>1, <1>2, <1>4, HoldsNothing
<1>16. HoldOK(k, p2)
  <2>1. SameFor(task[t], pin, p2) BY <1>8, <1>11, <1>15 DEF SameFor
  <2>2. HoldOK(task[t], p2) BY <1>2, <1>4, <2>1, HoldSame
  <2> QED BY <1>1, <1>13, <1>14, <1>15, <2>2 DEF HoldOK
<1>17. LockInv' BY <1>1, <1>2, <1>13, <1>14, StayStep DEF RunClose, Inside
<1>18. DriverClose(h) BY DEF RunClose, h
<1>19. Shuts(t, k, h, "owed")
  BY <1>6, <1>7, <1>8, <1>9, <1>10, <1>12, <1>14, <1>16, <1>17, <1>18 DEF Shuts, RunClose
<1> QED BY <1>1, <1>19, CloseStep

-----------------------------------------------------------------------------
(* A call's own part. *)

LEMMA HeldPins ==
  ASSUME NEW t \in Tasks, task[t] \in TaskType, HoldOK(task[t], pin)
  PROVE  /\ HeldBy(t) \in SUBSET Pins /\ task[t].held \in Seq(Pins)
         /\ \A h \in HeldBy(t) : pin[h].at = "held" /\ (task[t].at # "truncate" => ~pin[h].open)
         /\ \A i \in 1 .. Len(task[t].held) : task[t].held[i] \in HeldBy(t)
<1>1. task[t].held \in Seq(Pins) BY DEF TaskType
<1>2. HeldBy(t) = {task[t].held[i] : i \in 1 .. Len(task[t].held)} BY <1>1 DEF HeldBy, ToSet
<1> QED BY <1>1, <1>2 DEF HoldOK

\* Inside, the account is in order.
LEMMA InsideFacts ==
  ASSUME VolumeInv, NEW t \in Tasks, task[t].at \in Inside
  PROVE  /\ LockInv /\ DataInv /\ Account /\ ~broken /\ ~failed /\ lock = t
         /\ task[t] \in TaskType /\ task \in [Tasks -> TaskType]
         /\ HoldOK(task[t], pin) /\ QueueOK(queue, pin) /\ PinOK(pin)
         /\ queue \in Seq(OwedType) /\ pin \in [Pins -> PinType]
<1>1. LockInv /\ ~broken /\ ~failed /\ lock = t /\ task[t] \in TaskType BY Working DEF VolumeInv
<1>2. Account /\ DataInv BY <1>1 DEF VolumeInv
<1> QED BY <1>1, <1>2 DEF Account, DataInv, LockInv

\* The pins given back are not owed.
LEMMA QueueWithout ==
  ASSUME NEW q \in Seq(OwedType), NEW p, QueueOK(q, p), NEW hs \in SUBSET Pins,
         \A h \in hs : p[h].at # "owed"
  PROVE  QueueOK(q, Without(p, hs))
<1> DEFINE p2 == Without(p, hs)
<1>1. \A h \in Pins : p[h].at = "owed" => p2[h] = p[h] BY DEF Without
<1> HIDE DEF p2
<1>2. QueueOK(q, p2) BY <1>1, QueueSame
<1> QED BY <1>2 DEF p2

\* A call forgets the pins it holds and is over.
LEMMA ForgetAndLeaveStep ==
  ASSUME VolumeInv, NEW t \in Tasks, task[t].at \in Inside, task[t].at # "truncate",
         ForgetAndLeave(t), UNCHANGED <<mode, failed, broken, queue, opens>>
  PROVE  VolumeInv' /\ Quiet
<1> DEFINE hs == HeldBy(t)
<1>1. /\ LockInv /\ task[t] \in TaskType /\ HoldOK(task[t], pin) /\ QueueOK(queue, pin)
      /\ queue \in Seq(OwedType)
  BY InsideFacts
<1>2. hs \in SUBSET Pins /\ \A h \in hs : pin[h].at = "held" /\ ~pin[h].open BY <1>1, HeldPins
<1>3. LockInv' /\ Becomes(t, Left(t)) BY <1>1, LeaveBecomes DEF ForgetAndLeave
<1> HIDE DEF hs
<1>4. QueueOK(queue, Without(pin, hs)) BY <1>1, <1>2, QueueWithout
<1>5. HoldOK(Left(t), Without(pin, hs)) /\ Left(t).uses = NoPin BY LeftHolds
<1>6. DriverForget(hs) /\ pin' = Released(hs) BY DEF ForgetAndLeave, hs
<1>7. Gives(t, Left(t), hs) BY <1>1, <1>2, <1>3, <1>4, <1>5, <1>6 DEF Gives
<1> QED BY <1>2, <1>7, ForgetStep

LEMMA EndStep ==
  ASSUME VolumeInv, NEW t \in Tasks, ResolveFails(t) \/ WorkEnds(t) \/ Closed(t)
  PROVE  VolumeInv' /\ Quiet
<1>1. task[t].at \in Inside /\ task[t].at # "truncate" BY DEF ResolveFails, WorkEnds, Closed, Inside
<1>2. ForgetAndLeave(t) /\ UNCHANGED <<mode, failed, broken, queue, opens>>
  BY DEF ResolveFails, WorkEnds, Closed
<1> QED BY <1>1, <1>2, ForgetAndLeaveStep

LEMMA StartForgetStep ==
  ASSUME VolumeInv, NEW t \in Tasks, StartForget(t)
  PROVE  VolumeInv' /\ Quiet
<1> DEFINE h == task[t].uses
<1>0. task[t].at \in Inside BY DEF StartForget, Inside
<1>1. /\ LockInv /\ task[t] \in TaskType /\ HoldOK(task[t], pin) BY <1>0, InsideFacts
<1>2. h \in Pins /\ ~pin[h].open BY <1>1 DEF StartForget, HoldOK
<1>3. LockInv' /\ Becomes(t, Left(t)) BY <1>0, <1>1, LeaveBecomes DEF StartForget
<1>4. QueueOK(queue', Without(pin, {h})) /\ queue' \in Seq(OwedType)
  <2>1. queue' = <<>> /\ Len(<<>>) = 0 BY DEF StartForget
  <2> QED BY <2>1 DEF QueueOK
<1>5. HoldOK(Left(t), Without(pin, {h})) /\ Left(t).uses = NoPin BY LeftHolds
<1>6. DriverForget({h}) /\ pin' = Released({h}) /\ opens' = opens /\ broken' = broken
  BY DEF StartForget
<1>7. h = task[t].uses OBVIOUS
<1> HIDE DEF h
<1>8. Gives(t, Left(t), {h}) BY <1>2, <1>3, <1>4, <1>5, <1>6, <1>7 DEF Gives
<1> QED BY <1>0, <1>2, <1>8, ForgetStep

LEMMA StartCloseStep ==
  ASSUME VolumeInv, NEW t \in Tasks, StartClose(t)
  PROVE  VolumeInv' /\ Quiet
<1> DEFINE h == task[t].uses
           k == [task[t] EXCEPT !.at = "closing", !.held = <<h>>]
<1>0. task[t].at \in Inside BY DEF StartClose, Inside
<1>1. /\ LockInv /\ task[t] \in TaskType /\ task \in [Tasks -> TaskType]
      /\ HoldOK(task[t], pin) /\ pin \in [Pins -> PinType]
  BY <1>0, InsideFacts
<1>2. h \in Pins /\ pin[h].open BY <1>1 DEF StartClose, HoldOK
<1>3. <<h>> \in Seq(Pins) /\ Len(<<h>>) = 1 BY <1>2
<1>4. /\ k \in TaskType /\ k.uses = h /\ k.op = task[t].op /\ k.at = "closing"
      /\ k.held = <<h>>
  BY <1>1, <1>3 DEF TaskType, Inside
<1>5. task' = [task EXCEPT ![t] = k] BY DEF StartClose
<1>6. pin' = Shut(pin, h, "held") /\ DriverClose(h) /\ pins' = pins /\ broken' = broken
  BY DEF StartClose, Shut
<1>7. queue' = <<>> /\ Len(<<>>) = 0 /\ task[t].op \in {"close", "release"} BY DEF StartClose
<1>8. h = task[t].uses OBVIOUS
<1> HIDE DEF k, h
<1>9. Becomes(t, k) BY <1>1, <1>4, <1>5, SetTask
<1>10. LockInv' BY <1>0, <1>1, <1>4, <1>9, StayStep DEF StartClose, Inside
<1>11. PICK p2 : p2 = pin' OBVIOUS
<1>12. p2[h].open = FALSE /\ p2[h].at = "held"
  <2>1. IsShut(pin, p2, h, "held") BY <1>1, <1>2, <1>6, <1>11, ShutPin
  <2> QED BY <2>1 DEF IsShut
<1>13. HoldOK(k, p2)
  <2>1. \A i \in 1 .. Len(k.held) : i = 1 /\ k.held[i] = h BY <1>3, <1>4
  <2> QED BY <1>2, <1>4, <1>7, <1>12, <2>1 DEF HoldOK
<1>14. QueueOK(queue', p2) /\ queue' \in Seq(OwedType) BY <1>7 DEF QueueOK
<1>15. Shuts(t, k, h, "held")
  BY <1>2, <1>4, <1>6, <1>8, <1>9, <1>10, <1>11, <1>13, <1>14 DEF Shuts
<1> QED BY <1>0, <1>15, CloseStep

LEMMA FollowLinkStep ==
  ASSUME VolumeInv, NEW t \in Tasks, FollowLink(t)
  PROVE  VolumeInv' /\ Quiet
<1> DEFINE hs == HeldBy(t)
           k == [task[t] EXCEPT !.op = "open", !.held = <<>>, !.at = "resolve", !.todo = 1]
<1>0. task[t].at \in Inside /\ task[t].at # "truncate" BY DEF FollowLink, Inside
<1>1. /\ LockInv /\ task[t] \in TaskType /\ HoldOK(task[t], pin) /\ QueueOK(queue, pin)
      /\ queue \in Seq(OwedType) /\ task \in [Tasks -> TaskType]
  BY <1>0, InsideFacts
<1>2. hs \in SUBSET Pins /\ \A h \in hs : pin[h].at = "held" /\ ~pin[h].open BY <1>0, <1>1, HeldPins
<1>3. /\ k \in TaskType /\ k.uses = task[t].uses /\ k.op = "open" /\ k.at = "resolve"
      /\ k.held = <<>> /\ k.todo = 1
  <2>1. <<>> \in Seq(Pins) /\ 1 \in Nat OBVIOUS
  <2>2. "open" \in Ops /\ "resolve" \in Inside BY DEF Ops, PathCalls, Inside
  <2>3. k.uses = task[t].uses /\ k.op = "open" /\ k.at = "resolve" /\ k.held = <<>> /\ k.todo = 1
    BY <1>1 DEF TaskType
  <2> QED BY <1>1, <2>1, <2>2, <2>3 DEF TaskType
<1>4. task' = [task EXCEPT ![t] = k] BY DEF FollowLink
<1>5. DriverForget(hs) /\ pin' = Released(hs) BY DEF FollowLink
<1> HIDE DEF k, hs
<1>6. Becomes(t, k) BY <1>1, <1>3, <1>4, SetTask
<1>7. LockInv' BY <1>0, <1>1, <1>3, <1>6, StayStep DEF FollowLink, Inside
<1>8. QueueOK(queue, Without(pin, hs)) BY <1>1, <1>2, QueueWithout
<1>9. Len(k.held) = 0 BY <1>3
<1>10. HoldOK(k, Without(pin, hs)) BY <1>3, <1>9 DEF HoldOK
<1>11. Gives(t, k, hs)
  BY <1>1, <1>2, <1>3, <1>5, <1>6, <1>7, <1>8, <1>10 DEF Gives, FollowLink
<1> QED BY <1>0, <1>2, <1>11, ForgetStep

LEMMA EmptiedDirStep ==
  ASSUME VolumeInv, NEW t \in Tasks, EmptiedDir(t)
  PROVE  VolumeInv' /\ Quiet
<1> DEFINE hs == task[t].held
           h == Last(hs)
           o == IF Len(hs) = 1 THEN "path" ELSE "tree"
           n == IF Len(hs) = 1 THEN 1 ELSE task[t].todo
           k == [task[t] EXCEPT !.held = Front(hs), !.op = o, !.todo = n]
<1>0. task[t].at \in Inside /\ task[t].at = "resolve" /\ hs # <<>> BY DEF EmptiedDir, Inside
<1>1. /\ LockInv /\ task[t] \in TaskType /\ HoldOK(task[t], pin) /\ QueueOK(queue, pin)
      /\ queue \in Seq(OwedType) /\ task \in [Tasks -> TaskType]
  BY <1>0, InsideFacts
<1>2. hs \in Seq(Pins) /\ Len(hs) \in Nat \ {0}
  <2>1. hs \in Seq(Pins) BY <1>1 DEF TaskType
  <2> QED BY <1>0, <2>1
<1>3. /\ h = hs[Len(hs)] /\ h \in Pins /\ Len(hs) \in 1 .. Len(hs)
      /\ Front(hs) \in Seq(Pins) /\ Len(Front(hs)) = Len(hs) - 1
      /\ \A i \in 1 .. Len(hs) - 1 : Front(hs)[i] = hs[i]
  BY <1>2 DEF Last, Front
<1>4. pin[h].at = "held" /\ ~pin[h].open BY <1>0, <1>1, <1>3 DEF HoldOK
<1>5. o \in Ops /\ n \in Nat /\ o \in {"path", "tree"} BY <1>1 DEF TaskType, Ops, PathCalls
<1>6. task' = [task EXCEPT ![t] = k]
  BY DEF EmptiedDir
<1>7. DriverForget({h}) /\ pin' = Released({h}) BY DEF EmptiedDir
<1> HIDE DEF o, n
<1>8. /\ k \in TaskType /\ k.uses = task[t].uses /\ k.op = o /\ k.at = "resolve"
      /\ k.held = Front(hs)
  BY <1>0, <1>1, <1>3, <1>5 DEF TaskType
<1> HIDE DEF k, h
<1>9. Becomes(t, k) BY <1>1, <1>6, <1>8, SetTask
<1>10. LockInv' BY <1>0, <1>1, <1>8, <1>9, StayStep DEF EmptiedDir
<1>11. QueueOK(queue, Without(pin, {h})) BY <1>1, <1>3, <1>4, QueueWithout
<1>12. HoldOK(k, Without(pin, {h}))
  <2> DEFINE p2 == Without(pin, {h})
  <2>1. \A i \in 1 .. Len(k.held) : i \in 1 .. Len(hs) /\ i # Len(hs) /\ k.held[i] = hs[i]
    BY <1>2, <1>3, <1>8
  <2>2. \A i \in 1 .. Len(k.held) : k.held[i] \in Pins /\ k.held[i] # h
    <3>1. \A i \in 1 .. Len(hs) : hs[i] \in Pins BY <1>2
    <3>2. \A i \in 1 .. Len(hs) : hs[i] = hs[Len(hs)] => i = Len(hs) BY <1>1, <1>3 DEF HoldOK
    <3> HIDE DEF hs
    <3> QED BY <1>3, <2>1, <3>1, <3>2
  <2>3. \A g \in Pins : g # h => p2[g] = pin[g] BY DEF Without
  <2> HIDE DEF p2
  <2>4. \A i \in 1 .. Len(k.held) : p2[k.held[i]] = pin[hs[i]] BY <2>1, <2>2, <2>3
  <2>5. \A i \in 1 .. Len(k.held) : p2[k.held[i]].at = "held" /\ ~p2[k.held[i]].open
    BY <1>0, <1>1, <2>1, <2>4 DEF HoldOK
  <2>6. \A i, j \in 1 .. Len(k.held) : k.held[i] = k.held[j] => i = j
    BY <1>1, <2>1 DEF HoldOK
  <2>7. HoldOK(k, p2) BY <1>5, <1>8, <2>5, <2>6 DEF HoldOK
  <2> QED BY <2>7 DEF p2
<1>13. Gives(t, k, {h})
  BY <1>1, <1>4, <1>7, <1>8, <1>9, <1>10, <1>11, <1>12 DEF Gives, EmptiedDir
<1> QED BY <1>0, <1>3, <1>13, ForgetStep

\* The pins a call holds go to the handle it returns.
LEMMA HandleStep ==
  ASSUME VolumeInv, NEW t \in Tasks, task[t].at \in Inside, NEW where,
         (where = "dir" /\ task[t].at = "work") \/ (where = "file" /\ task[t].at = "truncate"),
         pin' = Moved(HeldBy(t), where), Leave(t),
         UNCHANGED <<mode, failed, broken, queue, driver>>
  PROVE  VolumeInv' /\ Quiet
<1> DEFINE hs == HeldBy(t)
<1>1. /\ LockInv /\ DataInv /\ Account /\ task[t] \in TaskType /\ HoldOK(task[t], pin)
      /\ PinOK(pin) /\ QueueOK(queue, pin) /\ queue \in Seq(OwedType) /\ pin \in [Pins -> PinType]
  BY InsideFacts
<1>2. hs \in SUBSET Pins /\ \A h \in hs : pin[h].at = "held" BY <1>1, HeldPins
<1>3. \A h \in hs : pin[h].open <=> where = "file"
  <2>1. hs = {task[t].held[i] : i \in 1 .. Len(task[t].held)} /\ task[t].held \in Seq(Pins)
    BY <1>1 DEF HeldBy, ToSet, TaskType
  <2> HIDE DEF hs
  <2>2. \A i \in 1 .. Len(task[t].held) : pin[task[t].held[i]].open <=> where = "file"
    BY <1>1, <2>1 DEF HoldOK
  <2> QED BY <2>1, <2>2
<1> HIDE DEF hs
<1>4. PICK p2 : p2 = pin' OBVIOUS
<1>5. /\ p2 \in [Pins -> PinType]
      /\ \A h \in Pins \ hs : p2[h] = pin[h]
      /\ \A h \in hs : p2[h].node = pin[h].node /\ p2[h].open = pin[h].open /\ p2[h].at = where
  <2>1. p2 = [h \in Pins |-> IF h \in hs THEN [pin[h] EXCEPT !.at = where] ELSE pin[h]]
    BY <1>4 DEF Moved, hs
  <2>2. where \in {"dir", "file"} OBVIOUS
  <2>3. ASSUME NEW h \in Pins PROVE [pin[h] EXCEPT !.at = where] \in PinType
    BY <1>1, <2>2 DEF PinType
  <2>4. ASSUME NEW h \in Pins
        PROVE  LET k == [pin[h] EXCEPT !.at = where]
               IN  k.node = pin[h].node /\ k.open = pin[h].open /\ k.at = where
    BY <1>1, <2>2 DEF PinType
  <2> QED BY <1>1, <1>2, <2>1, <2>3, <2>4
<1>6. LockInv' /\ Becomes(t, Left(t)) BY <1>1, LeaveBecomes
<1>7. Counts(p2, pins, opens)
  <2>1. \A h \in Pins : p2[h].node = pin[h].node /\ p2[h].open = pin[h].open BY <1>5
  <2>2. Counts(pin, pins, opens) BY <1>1 DEF Account
  <2> QED BY <2>1, <2>2, CountsSame
<1>8. QueueOK(queue, p2)
  <2>1. \A h \in Pins : pin[h].at = "owed" => p2[h] = pin[h] BY <1>2, <1>5
  <2> QED BY <1>1, <2>1, QueueSame
<1>9. PinOK(p2) BY <1>1, <1>2, <1>3, <1>5 DEF PinOK
<1>10. HoldOK(Left(t), p2) /\ Left(t).uses = NoPin BY LeftHolds
<1>11. \A h \in Pins : pin[h].at = "file" => p2[h].at = "file" BY <1>2, <1>5
<1>12. DataInv' BY <1>1, <1>4, <1>5 DEF DataInv, driver
<1>13. Settles(t, Left(t))
  BY <1>4, <1>6, <1>7, <1>8, <1>9, <1>10, <1>11, <1>12 DEF Settles, driver
<1> QED BY <1>13, InsideStep

LEMMA ReturnStep ==
  ASSUME VolumeInv, NEW t \in Tasks, Listed(t) \/ Truncated(t)
  PROVE  VolumeInv' /\ Quiet
<1>1. task[t].at \in Inside BY DEF Listed, Truncated, Inside
<1>2. CASE Listed(t)
  <2>1. /\ task[t].at = "work" /\ pin' = Moved(HeldBy(t), "dir") /\ Leave(t)
        /\ UNCHANGED <<mode, failed, broken, queue, driver>>
    BY <1>2 DEF Listed
  <2> QED BY <1>1, <2>1, HandleStep
<1>3. CASE Truncated(t)
  <2>1. /\ task[t].at = "truncate" /\ pin' = Moved(HeldBy(t), "file") /\ Leave(t)
        /\ UNCHANGED <<mode, failed, broken, queue, driver>>
    BY <1>3 DEF Truncated
  <2> QED BY <1>1, <2>1, HandleStep
<1> QED BY <1>2, <1>3

\* The driver opens the node of pin h, which stays held or becomes a file.
Wide(p, h, at) == [p EXCEPT ![h].open = TRUE, ![h].at = at]
IsWide(p, p2, h, at) ==
    /\ p2 \in [Pins -> PinType]
    /\ p2[h].node = p[h].node /\ p2[h].open = TRUE /\ p2[h].at = at
    /\ \A g \in Pins \ {h} : p2[g] = p[g]

LEMMA WidePin ==
  ASSUME NEW p \in [Pins -> PinType], NEW h \in Pins, NEW at \in {"held", "file"}
  PROVE  IsWide(p, Wide(p, h, at), h, at)
<1> DEFINE p2 == Wide(p, h, at)
           k == [p[h] EXCEPT !.open = TRUE, !.at = at]
<1>1. p[h] \in PinType OBVIOUS
<1>2. k \in PinType /\ k.node = p[h].node /\ k.open = TRUE /\ k.at = at BY <1>1 DEF PinType
<1>3. p2 = [p EXCEPT ![h] = k] BY DEF Wide
<1> HIDE DEF k, p2
<1>4. /\ p2 \in [Pins -> PinType]
      /\ p2[h].node = p[h].node /\ p2[h].open = TRUE /\ p2[h].at = at
      /\ \A g \in Pins \ {h} : p2[g] = p[g]
  BY <1>2, <1>3
<1> QED BY <1>4 DEF p2, IsWide

LEMMA OpenedStep ==
  ASSUME VolumeInv, NEW t \in Tasks, Opened(t)
  PROVE  VolumeInv' /\ Quiet
<1> DEFINE h == task[t].held[1]
<1>0. task[t].at \in Inside /\ task[t].at = "work" /\ task[t].op \in {"open", "create"}
  BY DEF Opened, Inside
<1>1. /\ LockInv /\ DataInv /\ Account /\ task[t] \in TaskType /\ HoldOK(task[t], pin)
      /\ PinOK(pin) /\ QueueOK(queue, pin) /\ queue \in Seq(OwedType) /\ pin \in [Pins -> PinType]
  BY <1>0, InsideFacts
<1>2. Len(task[t].held) = 1 /\ task[t].held \in Seq(Pins) BY <1>0, <1>1 DEF HoldOK, TaskType
<1>3. h \in Pins /\ 1 \in 1 .. Len(task[t].held) BY <1>2
<1>4. pin[h].at = "held" /\ ~pin[h].open BY <1>0, <1>1, <1>3 DEF HoldOK
<1>5. pin[h].open = FALSE /\ pin[h].node \in Nodes
  <2>1. pin[h] \in PinType BY <1>1, <1>3
  <2> QED BY <1>1, <1>3, <1>4, <2>1 DEF PinType, PinOK
<1>6. opens' = [opens EXCEPT ![pin[h].node] = @ + 1] /\ pins' = pins /\ queue' = queue
      /\ broken' = broken /\ failed' = failed /\ mode' = mode
  BY DEF Opened
<1>7. ASSUME NEW p2, NEW at \in {"held", "file"}, IsWide(pin, p2, h, at)
      PROVE  /\ Counts(p2, pins, opens') /\ PinOK(p2) /\ QueueOK(queue, p2)
             /\ p2 \in [Pins -> PinType] /\ opens' \in [Nodes -> Nat]
             /\ \A g \in Pins : pin[g].at = "file" => p2[g].at = "file"
  <2> HIDE DEF h
  <2>1. /\ p2 \in [Pins -> PinType]
        /\ p2[h].node = pin[h].node /\ p2[h].open = TRUE /\ p2[h].at = at
        /\ \A g \in Pins \ {h} : p2[g] = pin[g]
    BY <1>7 DEF IsWide
  <2>2. CanOpen(pin, p2, pins, opens, h) BY <1>1, <1>3, <1>5, <2>1 DEF CanOpen, DataInv, Account
  <2>3. Counts(p2, pins, opens') BY <1>6, <2>2, CountsOpen
  <2>4. PinOK(p2) BY <1>1, <1>5, <2>1 DEF PinOK
  <2>5. \A g \in Pins : pin[g].at = "owed" => p2[g] = pin[g] BY <1>4, <2>1
  <2>6. QueueOK(queue, p2) BY <1>1, <2>5, QueueSame
  <2>7. \A g \in Pins : pin[g].at = "file" => p2[g].at = "file" BY <1>4, <2>1
  <2>8. opens' \in [Nodes -> Nat] BY <1>1, <1>5, <1>6 DEF DataInv
  <2> QED BY <2>1, <2>3, <2>4, <2>6, <2>7, <2>8
<1>8. CASE pin' = [pin EXCEPT ![h].open = TRUE] /\ Step(t, "truncate") /\ UNCHANGED lock
  <2>1. pin' = Wide(pin, h, "held")
    <3>1. pin[h] \in PinType BY <1>1, <1>3
    <3>2. [pin[h] EXCEPT !.open = TRUE] = [pin[h] EXCEPT !.open = TRUE, !.at = "held"]
      BY <1>4, <3>1 DEF PinType
    <3> HIDE DEF h
    <3> QED BY <1>1, <1>3, <1>8, <3>2 DEF Wide
  <2>2. PICK p2 : p2 = pin' OBVIOUS
  <2>3. IsWide(pin, p2, h, "held") BY <1>1, <1>3, <2>1, <2>2, WidePin
  <2>4. /\ Counts(p2, pins, opens') /\ PinOK(p2) /\ QueueOK(queue, p2)
        /\ p2 \in [Pins -> PinType] /\ opens' \in [Nodes -> Nat]
        /\ \A g \in Pins : pin[g].at = "file" => p2[g].at = "file"
    BY <1>7, <2>3
  <2>5. PICK k \in TaskType : /\ Becomes(t, k) /\ k.uses = task[t].uses /\ k.op = task[t].op
                              /\ k.at = "truncate" /\ k.held = task[t].held
    BY <1>1, <1>8, StepTurns DEF Turns, Inside
  <2>6. LockInv' BY <1>0, <1>1, <1>6, <1>8, <2>5, StayStep DEF Inside
  <2>7. HoldOK(k, p2)
    <3>0. Len(k.held) = 1 /\ k.held[1] = h BY <1>2, <2>5
    <3>1. \A i \in 1 .. Len(k.held) : i = 1 /\ k.held[i] = h
      <4> HIDE DEF h
      <4> QED BY <3>0
    <3>2. p2[h].at = "held" /\ p2[h].open BY <2>3 DEF IsWide
    <3>3. k.held # <<>> BY <1>2, <2>5
    <3> QED BY <1>0, <1>2, <2>5, <3>1, <3>2, <3>3 DEF HoldOK
  <2>8. DataInv' BY <1>1, <1>6, <2>2, <2>4 DEF DataInv
  <2>9. Settles(t, k) BY <1>6, <2>2, <2>4, <2>5, <2>6, <2>7, <2>8 DEF Settles
  <2> QED BY <1>0, <2>9, InsideStep
<1>9. CASE pin' = [pin EXCEPT ![h].open = TRUE, ![h].at = "file"] /\ Leave(t)
  <2>1. pin' = Wide(pin, h, "file") BY <1>9 DEF Wide
  <2>2. PICK p2 : p2 = pin' OBVIOUS
  <2>3. IsWide(pin, p2, h, "file") BY <1>1, <1>3, <2>1, <2>2, WidePin
  <2>4. /\ Counts(p2, pins, opens') /\ PinOK(p2) /\ QueueOK(queue, p2)
        /\ p2 \in [Pins -> PinType] /\ opens' \in [Nodes -> Nat]
        /\ \A g \in Pins : pin[g].at = "file" => p2[g].at = "file"
    BY <1>7, <2>3
  <2>5. LockInv' /\ Becomes(t, Left(t)) BY <1>0, <1>1, <1>6, <1>9, LeaveBecomes
  <2>6. HoldOK(Left(t), p2) /\ Left(t).uses = NoPin BY LeftHolds
  <2>7. DataInv' BY <1>1, <1>6, <2>2, <2>4 DEF DataInv
  <2>8. Settles(t, Left(t)) BY <1>6, <2>2, <2>4, <2>5, <2>6, <2>7 DEF Settles
  <2> QED BY <1>0, <2>8, InsideStep
<1> QED BY <1>8, <1>9 DEF Opened

LEMMA TruncateFailsStep ==
  ASSUME VolumeInv, NEW t \in Tasks, TruncateFails(t)
  PROVE  VolumeInv' /\ Quiet
<1> DEFINE h == task[t].held[1]
<1>0. task[t].at \in Inside /\ task[t].at = "truncate" BY DEF TruncateFails, Inside
<1>1. /\ LockInv /\ task[t] \in TaskType /\ HoldOK(task[t], pin) /\ QueueOK(queue, pin)
      /\ queue \in Seq(OwedType) /\ pin \in [Pins -> PinType]
  BY <1>0, InsideFacts
<1>2. Len(task[t].held) = 1 /\ task[t].held \in Seq(Pins) BY <1>0, <1>1 DEF HoldOK, TaskType
<1>3. h \in Pins /\ 1 \in 1 .. Len(task[t].held) BY <1>2
<1>4. pin[h].at = "held" /\ pin[h].open BY <1>0, <1>1, <1>3 DEF HoldOK
<1>5. pin' = Shut(pin, h, "held")
  <2>1. pin[h] \in PinType BY <1>1, <1>3
  <2>2. [pin[h] EXCEPT !.open = FALSE] = [pin[h] EXCEPT !.open = FALSE, !.at = "held"]
    BY <1>4, <2>1 DEF PinType
  <2>3. pin' = [pin EXCEPT ![h].open = FALSE] BY DEF TruncateFails
  <2> HIDE DEF h
  <2> QED BY <1>1, <1>3, <2>2, <2>3 DEF Shut
<1>6. DriverClose(h) /\ Step(t, "closing") BY DEF TruncateFails
<1> HIDE DEF h
<1>7. PICK p2 : p2 = pin' OBVIOUS
<1>8. IsShut(pin, p2, h, "held") BY <1>1, <1>3, <1>5, <1>7, ShutPin
<1>9. PICK k \in TaskType : /\ Becomes(t, k) /\ k.uses = task[t].uses /\ k.op = task[t].op
                            /\ k.at = "closing" /\ k.held = task[t].held
  BY <1>1, <1>6, StepTurns DEF Turns, Inside
<1>10. LockInv' BY <1>0, <1>1, <1>9, StayStep DEF Inside, TruncateFails
<1>11. HoldOK(k, p2)
  <2>0. Len(k.held) = 1 /\ k.held[1] = h BY <1>2, <1>9 DEF h
  <2>1. \A i \in 1 .. Len(k.held) : i = 1 /\ k.held[i] = h BY <2>0
  <2>2. p2[h].at = "held" /\ ~p2[h].open BY <1>8 DEF IsShut
  <2>3. k.held # <<>>
    <3>1. k.held \in Seq(Pins) BY <1>2, <1>9
    <3> QED BY <2>0, <3>1
  <2>4. k.op \in {"close", "release"} => k.uses \in Pins BY <1>1, <1>9 DEF HoldOK
  <2> QED BY <1>9, <2>1, <2>2, <2>3, <2>4 DEF HoldOK
<1>12. QueueOK(queue, p2)
  <2>1. \A g \in Pins : pin[g].at = "owed" => p2[g] = pin[g] BY <1>4, <1>8 DEF IsShut
  <2> QED BY <1>1, <2>1, QueueSame
<1>13. Shuts(t, k, h, "held")
  BY <1>1, <1>3, <1>4, <1>5, <1>6, <1>7, <1>9, <1>10, <1>11, <1>12 DEF Shuts, TruncateFails
<1> QED BY <1>0, <1>13, CloseStep

\* A call pins one more node, and may give back those it held so far.
LEMMA ResolveStep ==
  ASSUME VolumeInv, NEW t \in Tasks, Resolve(t)
  PROVE  VolumeInv' /\ Quiet
<1> DEFINE h == CHOOSE g \in Pins : pin[g].at = "free"
           done == IF task[t].op \in {"create", "dirs"} THEN HeldBy(t) ELSE {}
           more == task[t].op = "tree" \/ task[t].todo > 1
           hs == IF done = {} THEN Append(task[t].held, h) ELSE <<h>>
           a == IF more THEN "resolve" ELSE "work"
           k == [task[t] EXCEPT !.held = hs, !.todo = task[t].todo - 1, !.at = a]
           p1 == Without(pin, done)
           p2 == pin'
<1>0. task[t].at \in Inside /\ task[t].at = "resolve" /\ task[t].todo > 0 BY DEF Resolve, Inside
<1>1. /\ LockInv /\ DataInv /\ Account /\ task[t] \in TaskType /\ HoldOK(task[t], pin)
      /\ PinOK(pin) /\ QueueOK(queue, pin) /\ queue \in Seq(OwedType) /\ pin \in [Pins -> PinType]
      /\ task \in [Tasks -> TaskType]
  BY <1>0, InsideFacts
<1>2. h \in Pins /\ pin[h].at = "free" BY DEF Resolve
<1>3. PICK n \in Nodes :
        /\ pin' = [Released(done) EXCEPT ![h] = [node |-> n, at |-> "held", open |-> FALSE]]
        /\ pins' = [i \in Nodes |-> pins[i] + (IF i = n THEN 1 ELSE 0)
                          - Cardinality({g \in done : pin[g].node = i})]
        /\ task' = [task EXCEPT ![t].held = IF done = {} THEN Append(@, h) ELSE <<h>>,
                                ![t].todo = @ - 1, ![t].at = IF more THEN "resolve" ELSE "work"]
  BY DEF Resolve
<1>4. /\ HeldBy(t) \in SUBSET Pins /\ task[t].held \in Seq(Pins)
      /\ \A g \in HeldBy(t) : pin[g].at = "held" /\ ~pin[g].open
      /\ \A i \in 1 .. Len(task[t].held) : task[t].held[i] \in HeldBy(t)
  BY <1>0, <1>1, HeldPins
<1>5. /\ done \in SUBSET Pins /\ h \notin HeldBy(t) /\ h \notin done
      /\ \A g \in done : pin[g].at = "held" /\ ~pin[g].open
  BY <1>2, <1>4
<1>7. Released(done) = p1 BY DEF Released, Without
<1>8. task[t].op \in {"create", "dirs"} => done = HeldBy(t) OBVIOUS
<1>9. task[t].op \notin {"create", "dirs"} => done = {} OBVIOUS
<1> HIDE DEF h, done, p1
<1>6. task' = [task EXCEPT ![t] = k] BY <1>3
<1>10. pin[h] = Unused /\ \A g \in Pins : p1[g] = IF g \in done THEN Unused ELSE pin[g]
  BY <1>1, <1>2 DEF PinOK, p1, Without
<1>11. p1 \in [Pins -> PinType] /\ PinOK(p1) BY <1>1, <1>5, WithoutOK DEF p1
<1>12. /\ p2 \in [Pins -> PinType] /\ \A g \in Pins \ {h} : p2[g] = p1[g]
       /\ p2[h].node = n /\ p2[h].at = "held" /\ p2[h].open = FALSE
  <2> DEFINE new == [node |-> n, at |-> "held", open |-> FALSE]
  <2>1. new \in PinType /\ new.node = n /\ new.at = "held" /\ new.open = FALSE BY DEF PinType
  <2>2. pin' = [p1 EXCEPT ![h] = new] BY <1>3, <1>7
  <2> HIDE DEF new
  <2> QED BY <1>2, <1>11, <2>1, <2>2
<1> HIDE DEF p2
<1>13. Counts(p2, pins', opens) /\ pins' \in [Nodes -> Nat]
  <2> DEFINE G(i) == Cardinality({g \in done : pin[g].node = i})
             ps == Fewer(pin, pins, done)
  <2>1. \A g \in done : pin[g].open = FALSE
    <3>1. \A g \in done : pin[g] \in PinType BY <1>1, <1>5
    <3> QED BY <1>5, <3>1 DEF PinType
  <2>2. Counts(pin, pins, opens) BY <1>1 DEF Account
  <2>3. /\ Counts(p1, ps, opens) /\ ps \in [Nodes -> Nat]
        /\ \A i \in Nodes : G(i) \in Nat
        /\ \A i \in Nodes : ps[i] = pins[i] - G(i)
    <3>1. /\ Counts(Without(pin, done), Fewer(pin, pins, done), opens)
          /\ \A i \in Nodes : Cardinality({g \in done : pin[g].node = i}) \in Nat
          /\ \A i \in Nodes : Fewer(pin, pins, done)[i]
                              = pins[i] - Cardinality({g \in done : pin[g].node = i})
          /\ Fewer(pin, pins, done) \in [Nodes -> Nat]
      BY <1>5, <2>1, <2>2, CountsForget
    <3> QED BY <3>1 DEF p1
  <2> HIDE DEF ps
  <2>4. p1[h].node \notin Nodes BY <1>2, <1>5, <1>10 DEF Unused
  <2>5. CanPin(p1, p2, ps, opens, h, n) BY <1>2, <1>12, <2>3, <2>4 DEF CanPin
  <2>6. Counts(p2, More(ps, n), opens) BY <2>5, CountsPin
  <2>7. pins' = [i \in Nodes |-> pins[i] + (IF i = n THEN 1 ELSE 0) - G(i)] BY <1>3
  <2> HIDE DEF G
  <2>8. pins \in [Nodes -> Nat] BY <1>1 DEF DataInv
  <2>9. \A i \in Nodes : pins[i] + (IF i = n THEN 1 ELSE 0) - G(i) = ps[i] + (IF i = n THEN 1 ELSE 0)
    BY <2>3, <2>8
  <2>10. pins' = More(ps, n) BY <2>7, <2>9 DEF More
  <2>11. More(ps, n) \in [Nodes -> Nat] BY <2>3 DEF More
  <2> QED BY <2>6, <2>10, <2>11
<1>14. PinOK(p2) BY <1>11, <1>12 DEF PinOK
<1>15. QueueOK(queue, p2)
  <2>1. \A g \in Pins : pin[g].at = "owed" => p2[g] = pin[g] BY <1>2, <1>5, <1>10, <1>12
  <2> QED BY <1>1, <2>1, QueueSame
<1>16. \A g \in Pins : pin[g].at = "file" => p2[g].at = "file" BY <1>2, <1>5, <1>10, <1>12
<1>17. hs \in Seq(Pins) /\ a \in {"resolve", "work"} /\ task[t].todo - 1 \in Nat
  <2>1. hs \in Seq(Pins) BY <1>2, <1>4
  <2>2. task[t].todo \in Nat BY <1>1 DEF TaskType
  <2> QED BY <1>0, <2>1, <2>2
<1>18. /\ done = {} => Len(hs) = Len(task[t].held) + 1 /\ hs[Len(hs)] = h
                    /\ \A i \in 1 .. Len(hs) - 1 : hs[i] = task[t].held[i]
       /\ done # {} => Len(hs) = 1 /\ hs[1] = h
       /\ hs # <<>>
  BY <1>4
<1>19. /\ task[t].op = "open" => done = {} /\ task[t].held = <<>> /\ task[t].todo = 1 /\ a = "work"
       /\ task[t].op = "create" =>
            \/ (task[t].todo = 2 /\ done = {} /\ task[t].held = <<>> /\ a = "resolve")
            \/ (task[t].todo = 1 /\ done # {} /\ a = "work")
  <2>1. task[t].op = "open" => task[t].held = <<>> /\ task[t].todo = 1 BY <1>0, <1>1 DEF HoldOK
  <2>2. task[t].op = "create" => \/ task[t].todo = 2 /\ task[t].held = <<>>
                                 \/ task[t].todo = 1 /\ Len(task[t].held) = 1
    BY <1>0, <1>1 DEF HoldOK
  <2>3. Len(task[t].held) = 1 => HeldBy(t) # {} BY <1>4
  <2>4. task[t].held = <<>> => HeldBy(t) = {} BY DEF HeldBy, ToSet
  <2> QED BY <1>8, <1>9, <2>1, <2>2, <2>3, <2>4
<1> HIDE DEF hs, a
<1>20. /\ k \in TaskType /\ k.uses = task[t].uses /\ k.op = task[t].op /\ k.at = a
       /\ k.held = hs /\ k.todo = task[t].todo - 1
  BY <1>1, <1>17 DEF TaskType, Inside
<1> HIDE DEF k
<1>21. Becomes(t, k) BY <1>1, <1>6, <1>20, SetTask
<1>22. LockInv' BY <1>0, <1>1, <1>17, <1>20, <1>21, StayStep DEF Resolve, Inside
<1>23. HoldOK(k, p2)
  <2>1. \A i \in 1 .. Len(hs) : p2[hs[i]].at = "held" /\ ~p2[hs[i]].open
    <3>1. CASE done = {}
      <4>1. \A i \in 1 .. Len(hs) - 1 : hs[i] \in HeldBy(t) BY <1>4, <1>18, <3>1
      <4>2. \A g \in HeldBy(t) : p2[g] = pin[g] BY <1>4, <1>5, <1>10, <1>12, <3>1
      <4>3. \A i \in 1 .. Len(hs) : i = Len(hs) \/ i \in 1 .. Len(hs) - 1 BY <1>17
      <4> QED BY <1>4, <1>12, <1>18, <3>1, <4>1, <4>2, <4>3
    <3>2. CASE done # {}
      <4>1. \A i \in 1 .. Len(hs) : i = 1 BY <1>18, <3>2
      <4> QED BY <1>12, <1>18, <3>2, <4>1
    <3> QED BY <3>1, <3>2
  <2>2. \A i, j \in 1 .. Len(hs) : hs[i] = hs[j] => i = j
    <3>1. CASE done = {}
      <4>1. \A i \in 1 .. Len(hs) - 1 : hs[i] \in HeldBy(t) BY <1>4, <1>18, <3>1
      <4>2. \A i \in 1 .. Len(hs) : i = Len(hs) \/ i \in 1 .. Len(hs) - 1 BY <1>17
      <4>3. \A i, j \in 1 .. Len(hs) - 1 : hs[i] = hs[j] => i = j
        <5>1. \A i, j \in 1 .. Len(task[t].held) : task[t].held[i] = task[t].held[j] => i = j
          BY <1>1 DEF HoldOK
        <5>2. Len(hs) - 1 = Len(task[t].held) BY <1>4, <1>18, <3>1
        <5>3. \A i \in 1 .. Len(hs) - 1 : hs[i] = task[t].held[i] BY <1>18, <3>1
        <5> QED BY <5>1, <5>2, <5>3
      <4> QED BY <1>5, <1>18, <3>1, <4>1, <4>2, <4>3
    <3>2. CASE done # {} BY <1>18, <3>2
    <3> QED BY <3>1, <3>2
  <2>0. task[t].op \in {"open", "create"} => Len(hs) = 1
    <3>1. CASE done # {} BY <1>18, <3>1
    <3>2. CASE task[t].op \in {"open", "create"} /\ done = {}
      <4>1. task[t].held = <<>> BY <1>19, <3>2
      <4>2. Len(task[t].held) = 0 BY <4>1
      <4>3. Len(hs) = Len(task[t].held) + 1 BY <1>18, <3>2
      <4> QED BY <4>2, <4>3
    <3> QED BY <3>1, <3>2
  <2>3. k.op \in {"open", "create"} /\ k.at = "work" => Len(k.held) = 1
    BY <1>19, <1>20, <2>0
  <2>4. k.op # "open" \/ k.at # "resolve" BY <1>19, <1>20
  <2>5. k.op = "create" /\ k.at = "resolve" => k.todo = 1 /\ Len(k.held) = 1
    BY <1>19, <1>20, <2>0
  <2>6. k.op \in {"close", "release"} => k.uses \in Pins BY <1>1, <1>20 DEF HoldOK
  <2> QED BY <1>17, <1>18, <1>20, <2>1, <2>2, <2>3, <2>4, <2>5, <2>6 DEF HoldOK
<1>24. DataInv'
  <2>1. queue' = queue /\ opens' = opens /\ pin' = p2 BY DEF Resolve, p2
  <2> QED BY <1>1, <1>12, <1>13, <2>1 DEF DataInv
<1>25. pin' = p2 /\ queue' = queue /\ opens' = opens /\ broken' = broken BY DEF Resolve, p2
<1>26. Settles(t, k)
  BY <1>13, <1>14, <1>15, <1>16, <1>20, <1>21, <1>22, <1>23, <1>24, <1>25 DEF Settles
<1> QED BY <1>0, <1>26, InsideStep

-----------------------------------------------------------------------------
(* Calls that begin, and steps that take the lock. *)

LEMMA BeginStep ==
  ASSUME VolumeInv, NEW t \in Tasks, NEW op \in Calls, Begin(t, op)
  PROVE  VolumeInv' /\ Quiet
<1>1. /\ LockInv /\ DataInv /\ task \in [Tasks -> TaskType] /\ task[t].at = "idle"
      /\ UNCHANGED <<mode, lock, failed, broken, queue, pin, driver>>
  BY DEF VolumeInv, LockInv, Begin
<1>2. PICK k \in TaskType :
        /\ task' = [task EXCEPT ![t] = k] /\ k.op = op /\ k.at = "entering" /\ k.held = <<>>
        /\ k.uses # NoPin => ~InUse(k.uses) /\ (op = "close" => pin[k.uses].at = "file")
        /\ op \in {"close", "release"} => k.uses \in Pins
  <2>0. op \in Ops /\ op # "release" BY DEF Ops, Calls
  <2>1. CASE op = "call" /\ task' = [task EXCEPT ![t] = [Idle EXCEPT !.op = op, !.at = "entering"]]
    <3> DEFINE k == [Idle EXCEPT !.op = op, !.at = "entering"]
    <3>1. k \in TaskType /\ k.op = op /\ k.at = "entering" /\ k.uses = NoPin /\ k.held = <<>>
      BY <2>0, IdleType DEF TaskType, Outside
    <3> HIDE DEF k
    <3> QED BY <2>1, <3>1 DEF k
  <2>2. ASSUME NEW h \in Pins, ~InUse(h), op = "close" => pin[h].at = "file",
               task' = [task EXCEPT ![t] =
                 [Idle EXCEPT !.op = op, !.at = "entering", !.uses = h]]
        PROVE  \E k \in TaskType :
                 /\ task' = [task EXCEPT ![t] = k] /\ k.op = op /\ k.at = "entering" /\ k.held = <<>>
                 /\ k.uses # NoPin => ~InUse(k.uses) /\ (op = "close" => pin[k.uses].at = "file")
                 /\ op \in {"close", "release"} => k.uses \in Pins
    <3> DEFINE k == [Idle EXCEPT !.op = op, !.at = "entering", !.uses = h]
    <3>1. k \in TaskType /\ k.op = op /\ k.at = "entering" /\ k.uses = h /\ k.held = <<>>
      BY <2>0, IdleType DEF TaskType, Outside
    <3> HIDE DEF k
    <3> QED BY <2>2, <3>1 DEF k
  <2> QED BY <2>1, <2>2 DEF Begin
<1>4. Becomes(t, k) BY <1>1, <1>2, SetTask
<1>5. LockInv' BY <1>1, <1>2, <1>4 DEF LockInv, Becomes, Outside
<1>6. DataInv' /\ (broken' => Counts(pin, pins, opens)')
  BY <1>1 DEF DataInv, VolumeInv, driver, Counts
<1>7. Quiet BY <1>1 DEF Quiet
<1>8. ASSUME ~broken' PROVE Account'
  <2>1. Account BY <1>1, <1>8 DEF VolumeInv
  <2>2. Len(k.held) = 0 BY <1>2
  <2>3. HoldOK(k, pin) BY <1>2, <2>2 DEF HoldOK
  <2>4. \A u \in Tasks : HoldOK(task'[u], pin) BY <1>4, <2>1, <2>3 DEF Becomes, Account
  <2>5. UsesOK(task') BY <1>2, <1>4, <2>1 DEF Becomes, Account, UsesOK, InUse
  <2> QED BY <1>1, <2>1, <2>4, <2>5 DEF Account, driver
<1> QED BY <1>5, <1>6, <1>7, <1>8 DEF VolumeInv

\* A task outside takes the lock of a whole volume.
Enters(t, k) ==
    /\ Becomes(t, k) /\ k.at = "draining" /\ lock = NoTask /\ lock' = t /\ ~failed
    /\ task[t].at \in Outside /\ k.held = <<>> /\ UsesOK(task') /\ HoldOK(k, pin)
    /\ UNCHANGED <<mode, failed, broken, queue, pin, driver>>

LEMMA EnterStep ==
  ASSUME VolumeInv, NEW t \in Tasks, NEW k, ~broken => Enters(t, k), ~broken
  PROVE  VolumeInv' /\ Quiet
<1>1. Enters(t, k) /\ LockInv /\ DataInv /\ Account BY DEF VolumeInv
<1>2. LockInv' BY <1>1 DEF LockInv, Enters, Becomes, Outside
<1>3. DataInv' /\ ~broken' BY <1>1 DEF DataInv, driver, Enters
<1>4. \A u \in Tasks : HoldOK(task'[u], pin) BY <1>1 DEF Becomes, Account, Enters
<1>5. Account' BY <1>1, <1>4 DEF Account, driver, Enters
<1> QED BY <1>2, <1>3, <1>5 DEF VolumeInv, Quiet

\* With the lock free, only a failed volume is broken.
LEMMA FreeMeansWhole ==
  ASSUME VolumeInv, lock = NoTask, ~failed
  PROVE  ~broken /\ Account
<1>1. ~broken BY DEF VolumeInv, LockInv
<1> QED BY <1>1 DEF VolumeInv

LEMMA ReleaseLockedStep ==
  ASSUME VolumeInv, NEW t \in Tasks, NEW h \in Pins, ReleaseLocked(t, h)
  PROVE  VolumeInv' /\ Quiet
<1> DEFINE k == [Idle EXCEPT !.op = "release", !.at = "draining", !.uses = h]
<1>1. ~broken /\ Account BY FreeMeansWhole DEF ReleaseLocked
<1>2. /\ k \in TaskType /\ k.op = "release" /\ k.at = "draining" /\ k.uses = h /\ k.held = <<>>
  BY IdleType DEF TaskType, Ops, Inside
<1>3. task' = [task EXCEPT ![t] = k] BY DEF ReleaseLocked
<1> HIDE DEF k
<1>4. Becomes(t, k) BY <1>2, <1>3, SetTask DEF VolumeInv, LockInv
<1>5. Len(k.held) = 0 BY <1>2
<1>6. HoldOK(k, pin) BY <1>2, <1>5 DEF HoldOK
<1>7. UsesOK(task') BY <1>1, <1>2, <1>4 DEF Becomes, Account, UsesOK, InUse, ReleaseLocked
<1>8. Enters(t, k) BY <1>2, <1>4, <1>6, <1>7 DEF Enters, ReleaseLocked, Outside
<1> QED BY <1>1, <1>8, EnterStep

LEMMA IntoInnerStep ==
  ASSUME VolumeInv, NEW t \in Tasks, IntoInner(t)
  PROVE  VolumeInv' /\ Quiet
<1> DEFINE k == [Idle EXCEPT !.op = "into_inner", !.at = "draining"]
<1>1. ~broken /\ Account BY FreeMeansWhole DEF IntoInner
<1>2. /\ k \in TaskType /\ k.op = "into_inner" /\ k.at = "draining" /\ k.uses = NoPin /\ k.held = <<>>
  BY IdleType DEF TaskType, Ops, Inside
<1>3. task' = [task EXCEPT ![t] = k] BY DEF IntoInner
<1> HIDE DEF k
<1>4. Becomes(t, k) BY <1>2, <1>3, SetTask DEF VolumeInv, LockInv
<1>5. Len(k.held) = 0 BY <1>2
<1>6. HoldOK(k, pin) BY <1>2, <1>5 DEF HoldOK
<1>7. UsesOK(task') BY <1>1, <1>2, <1>4 DEF Becomes, Account, UsesOK
<1>8. Enters(t, k) BY <1>2, <1>4, <1>6, <1>7 DEF Enters, IntoInner, Sole, Outside
<1> QED BY <1>1, <1>8, EnterStep

\* The pins are counted, broken or not.
LEMMA Counted ==
  ASSUME VolumeInv
  PROVE  Counts(pin, pins, opens)
  BY DEF VolumeInv, Account

\* The step leaves the driver alone and moves pins at most, and the volume is
\* failed or being so.
SamePins(p2) ==
    /\ p2 \in [Pins -> PinType]
    /\ \A h \in Pins : p2[h].node = pin[h].node /\ p2[h].open = pin[h].open

LEMMA BrokenStep ==
  ASSUME VolumeInv, LockInv', broken', UNCHANGED driver, SamePins(pin')
  PROVE  VolumeInv' /\ Quiet
<1>1. PICK p2 : p2 = pin' OBVIOUS
<1>2. p2 \in [Pins -> PinType] /\ Counts(p2, pins, opens) BY <1>1, Counted, CountsSame DEF SamePins
<1>3. DataInv' BY <1>1, <1>2 DEF VolumeInv, DataInv, driver
<1>4. Counts(pin, pins, opens)' BY <1>1, <1>2 DEF driver
<1> QED BY <1>3, <1>4 DEF VolumeInv, Quiet

\* Pins that go where a call or a drop sends them.
LEMMA MovedType ==
  ASSUME NEW hs, NEW where \in {"lost", "owed", "releasing"}, pin \in [Pins -> PinType]
  PROVE  /\ Moved(hs, where) \in [Pins -> PinType]
         /\ \A g \in Pins \ hs : Moved(hs, where)[g] = pin[g]
         /\ \A g \in Pins \cap hs : /\ Moved(hs, where)[g].at = where
                                    /\ Moved(hs, where)[g].node = pin[g].node
                                    /\ Moved(hs, where)[g].open = pin[g].open
         /\ SamePins(Moved(hs, where))
<1>1. ASSUME NEW g \in Pins
      PROVE  LET k == [pin[g] EXCEPT !.at = where]
             IN  k \in PinType /\ k.node = pin[g].node /\ k.open = pin[g].open /\ k.at = where
  <2>1. pin[g] \in PinType OBVIOUS
  <2> QED BY <2>1 DEF PinType
<1>2. \A g \in Pins : Moved(hs, where)[g] = IF g \in hs THEN [pin[g] EXCEPT !.at = where] ELSE pin[g]
  BY DEF Moved
<1>3. Moved(hs, where) \in [Pins -> PinType] BY <1>1 DEF Moved
<1>4. /\ \A g \in Pins \ hs : Moved(hs, where)[g] = pin[g]
      /\ \A g \in Pins \cap hs : /\ Moved(hs, where)[g].at = where
                                 /\ Moved(hs, where)[g].node = pin[g].node
                                 /\ Moved(hs, where)[g].open = pin[g].open
  BY <1>1, <1>2
<1> QED BY <1>3, <1>4 DEF SamePins

LEMMA AcquireStep ==
  ASSUME VolumeInv, NEW t \in Tasks, Acquire(t)
  PROVE  VolumeInv' /\ Quiet
<1>1. /\ LockInv /\ DataInv /\ task \in [Tasks -> TaskType] /\ task[t] \in TaskType
      /\ task[t].at = "entering" /\ lock = NoTask /\ pin \in [Pins -> PinType]
      /\ UNCHANGED <<mode, failed, broken, queue, driver>>
  BY DEF VolumeInv, LockInv, Acquire, DataInv
<1>2. CASE failed
  <2>1. task' = [task EXCEPT ![t] = Idle] /\ lock' = lock BY <1>2 DEF Acquire
  <2>2. Becomes(t, Idle) BY <1>1, <2>1, IdleType, SetTask
  <2>3. LockInv' BY <1>1, <1>2, <2>1, <2>2, IdleType DEF LockInv, Becomes, Outside
  <2>4. SamePins(pin')
    <3>1. PICK hs : pin' = Moved(hs, "lost") BY <1>2 DEF Acquire
    <3> QED BY <1>1, <3>1, MovedType
  <2>5. broken' BY <1>1, <1>2 DEF LockInv
  <2> QED BY <1>1, <2>3, <2>4, <2>5, BrokenStep DEF DataInv
<1>3. CASE ~failed
  <2>1. ~broken /\ Account BY <1>1, <1>3, FreeMeansWhole
  <2>2. lock' = t /\ Step(t, "draining") /\ pin' = pin BY <1>3 DEF Acquire
  <2>3. PICK k \in TaskType : /\ Becomes(t, k) /\ k.uses = task[t].uses /\ k.op = task[t].op
                              /\ k.at = "draining" /\ k.held = task[t].held
    BY <1>1, <2>2, StepTurns DEF Turns, Inside
  <2>4. HoldOK(task[t], pin) BY <2>1 DEF Account
  <2>5. task[t].held = <<>> BY <1>1, <2>4, HoldsNothing
  <2>6. HoldOK(k, pin) BY <1>1, <2>3, <2>4, <2>5 DEF HoldOK
  <2>7. UsesOK(task') BY <2>1, <2>3 DEF Becomes, Account, UsesOK
  <2>8. Enters(t, k) BY <1>1, <1>3, <2>2, <2>3, <2>5, <2>6, <2>7 DEF Enters, Outside
  <2> QED BY <2>1, <2>8, EnterStep
<1> QED BY <1>2, <1>3

LEMMA UnwoundStep ==
  ASSUME VolumeInv, NEW t \in Tasks, Unwound(t)
  PROVE  VolumeInv' /\ Quiet
<1>1. /\ LockInv /\ DataInv /\ task \in [Tasks -> TaskType] /\ task[t].at = "unwinding"
      /\ UNCHANGED <<mode, broken, queue, pin, driver>> /\ failed' = TRUE
      /\ task' = [task EXCEPT ![t] = Idle]
  BY DEF VolumeInv, LockInv, Unwound
<1>2. lock = t /\ broken BY <1>1 DEF LockInv, Outside
<1>3. lock' = NoTask BY <1>2 DEF Unwound
<1>4. Becomes(t, Idle) BY <1>1, IdleType, SetTask
<1>5. \A u \in Tasks \ {t} : task[u].at \in Outside BY <1>1, <1>2 DEF LockInv
<1>6. LockInv' BY <1>1, <1>2, <1>3, <1>4, <1>5, IdleType DEF LockInv, Becomes, Outside
<1>7. SamePins(pin') BY <1>1 DEF SamePins, DataInv
<1> QED BY <1>1, <1>2, <1>6, <1>7, BrokenStep

LEMMA ReplaceStep ==
  ASSUME VolumeInv, Replace
  PROVE  VolumeInv' /\ Quiet
<1>1. /\ LockInv /\ failed /\ UNCHANGED <<mode, lock, task>> /\ failed' = FALSE /\ broken' = FALSE
      /\ \A t \in Tasks : task[t].at = "idle"
  BY DEF VolumeInv, Replace, Sole
<1>2. LockInv' BY <1>1 DEF LockInv, Outside
<1>3. PICK p2 : p2 = pin' OBVIOUS
<1>4. p2 = [h \in Pins |-> Unused] /\ queue' = <<>> BY <1>3 DEF Replace
<1>5. Unused \in PinType /\ Unused.at = "free" /\ Unused.node \notin Nodes
  BY DEF Unused, PinType
<1>6. p2 \in [Pins -> PinType] /\ PinOK(p2) BY <1>4, <1>5 DEF PinOK
<1>7. \A n \in Nodes : At(p2, n) = {} /\ OpenAt(p2, n) = {} BY <1>4, <1>5 DEF At, OpenAt
<1>8. pins' = [n \in Nodes |-> 0] /\ opens' = [n \in Nodes |-> 0] BY DEF Replace
<1>9. Counts(p2, pins', opens') BY <1>7, <1>8, FS_EmptySet DEF Counts
<1>10. DataInv' BY <1>3, <1>4, <1>6, <1>8 DEF DataInv
<1>11. QueueOK(queue', p2)
  <2>1. Len(<<>>) = 0 OBVIOUS
  <2> QED BY <1>4, <2>1 DEF QueueOK
<1>12. \A t \in Tasks : task[t] = Idle BY <1>1 DEF LockInv
<1>13. UsesOK(task') BY <1>1, <1>12, IdleType DEF UsesOK
<1>14. \A t \in Tasks : HoldOK(task'[t], p2) BY <1>1, <1>12, IdleHolds
<1>15. Account' BY <1>3, <1>6, <1>9, <1>11, <1>13, <1>14 DEF Account
<1> QED BY <1>1, <1>2, <1>10, <1>15 DEF VolumeInv, Quiet

-----------------------------------------------------------------------------
(* What is owed joins the queue. *)

\* Two queues about different pins.
LEMMA QueueJoin ==
  ASSUME NEW q \in Seq(OwedType), NEW r \in Seq(OwedType), NEW p, QueueOK(q, p), QueueOK(r, p),
         \A i \in 1 .. Len(q), j \in 1 .. Len(r) : q[i].pin # r[j].pin
  PROVE  q \o r \in Seq(OwedType) /\ QueueOK(q \o r, p)
<1> DEFINE s == q \o r
           m == Len(q)
<1>1. /\ s \in Seq(OwedType) /\ Len(s) = m + Len(r) /\ m \in Nat /\ Len(r) \in Nat
      /\ \A i \in 1 .. Len(s) : s[i] = IF i <= m THEN q[i] ELSE r[i - m]
  OBVIOUS
<1>0. \A i \in 1 .. Len(s) : i \in 1 .. m \/ (i > m /\ i - m \in 1 .. Len(r)) BY <1>1
<1> HIDE DEF s, m
<1>7. ASSUME NEW i \in 1 .. Len(s)
      PROVE  p[s[i].pin].at = "owed" /\ (s[i].call = "close" => p[s[i].pin].open)
  <2>1. CASE i <= m
    <3>1. i \in 1 .. m /\ s[i] = q[i] BY <1>0, <1>1, <2>1
    <3> QED BY <3>1 DEF QueueOK, m
  <2>2. CASE i > m
    <3>1. i - m \in 1 .. Len(r) /\ s[i] = r[i - m] BY <1>0, <1>1, <2>2
    <3> QED BY <3>1 DEF QueueOK
  <2> QED BY <1>1, <2>1, <2>2
<1>4. ASSUME NEW i \in 1 .. Len(s), NEW j \in 1 .. Len(s), i < j, s[i].pin = s[j].pin
      PROVE  s[i].call = "close" /\ s[j].call = "forget"
  <2>1. CASE j <= m
    <3>1. i \in 1 .. m /\ j \in 1 .. m /\ s[i] = q[i] /\ s[j] = q[j] BY <1>0, <1>1, <1>4, <2>1
    <3> QED BY <1>4, <3>1 DEF QueueOK, m
  <2>2. CASE i > m
    <3>1. /\ i - m \in 1 .. Len(r) /\ j - m \in 1 .. Len(r) /\ i - m < j - m
          /\ s[i] = r[i - m] /\ s[j] = r[j - m]
      BY <1>0, <1>1, <1>4, <2>2
    <3> QED BY <1>4, <3>1 DEF QueueOK
  <2>3. CASE i <= m /\ j > m
    <3>1. i \in 1 .. m /\ j - m \in 1 .. Len(r) /\ s[i] = q[i] /\ s[j] = r[j - m]
      BY <1>0, <1>1, <1>4, <2>3
    <3> QED BY <1>4, <3>1 DEF m
  <2> QED BY <1>1, <1>4, <2>1, <2>2, <2>3
<1>5. ASSUME NEW j \in 1 .. Len(s), s[j].call = "forget", p[s[j].pin].open
      PROVE  \E i \in 1 .. j - 1 : s[i].pin = s[j].pin
  <2>1. CASE j <= m
    <3>1. j \in 1 .. m /\ s[j] = q[j] BY <1>0, <1>1, <1>5, <2>1
    <3>2. PICK i \in 1 .. j - 1 : q[i].pin = q[j].pin BY <1>5, <3>1 DEF QueueOK, m
    <3>3. i \in 1 .. Len(s) /\ i <= m BY <1>1, <2>1
    <3>4. s[i] = q[i] BY <1>1, <3>3
    <3> QED BY <3>1, <3>2, <3>4
  <2>2. CASE j > m
    <3>1. j - m \in 1 .. Len(r) /\ s[j] = r[j - m] BY <1>0, <1>1, <1>5, <2>2
    <3>2. PICK i \in 1 .. (j - m) - 1 : r[i].pin = r[j - m].pin BY <1>5, <3>1 DEF QueueOK
    <3>3. i + m \in 1 .. Len(s) /\ i + m > m /\ (i + m) - m = i /\ i + m \in 1 .. j - 1
      BY <1>1, <2>2, <3>1
    <3>4. s[i + m] = r[i] BY <1>1, <3>3
    <3> QED BY <3>1, <3>2, <3>3, <3>4
  <2> QED BY <1>1, <2>1, <2>2
<1>6. QueueOK(s, p) BY <1>4, <1>5, <1>7 DEF QueueOK
<1> QED BY <1>1, <1>6 DEF s

\* r is a queue about pins of hs, in order with the pins p.
OwedAbout(r, hs, p) ==
    r \in Seq(OwedType) /\ QueueOK(r, p) /\ \A j \in 1 .. Len(r) : r[j].pin \in hs

\* A close and a forget of one pin, or the forget alone.
LEMMA PairAbout ==
  ASSUME NEW h \in Pins, NEW p, p[h].at = "owed", NEW r,
         \/ p[h].open /\ r = <<[call |-> "close", pin |-> h], [call |-> "forget", pin |-> h]>>
         \/ ~p[h].open /\ r = <<[call |-> "forget", pin |-> h]>>
  PROVE  OwedAbout(r, {h}, p)
<1> DEFINE c == [call |-> "close", pin |-> h]
           f == [call |-> "forget", pin |-> h]
<1>1. /\ c \in OwedType /\ c.call = "close" /\ c.pin = h
      /\ f \in OwedType /\ f.call = "forget" /\ f.pin = h
  BY DEF OwedType
<1> HIDE DEF c, f
<1>2. CASE p[h].open /\ r = <<c, f>>
  <2>1. r \in Seq(OwedType) /\ Len(r) = 2 /\ r[1] = c /\ r[2] = f BY <1>1, <1>2
  <2>2. \A i \in 1 .. 2 : i = 1 \/ i = 2 OBVIOUS
  <2>3. \A i \in 1 .. Len(r) : r[i].pin = h BY <1>1, <2>1, <2>2
  <2>4. \A i, j \in 1 .. Len(r) : i < j => r[i].call = "close" /\ r[j].call = "forget"
    BY <1>1, <2>1, <2>2
  <2>5. \A j \in 1 .. Len(r) : r[j].call = "forget" => \E i \in 1 .. j - 1 : r[i].pin = r[j].pin
    <3>1. \A j \in 1 .. Len(r) : r[j].call = "forget" => j = 2 BY <1>1, <2>1, <2>2
    <3>2. 1 \in 1 .. 2 - 1 /\ r[1].pin = r[2].pin BY <1>1, <2>1
    <3> QED BY <3>1, <3>2
  <2> QED BY <1>2, <2>1, <2>3, <2>4, <2>5 DEF QueueOK, OwedAbout
<1>3. CASE ~p[h].open /\ r = <<f>>
  <2>1. r \in Seq(OwedType) /\ Len(r) = 1 /\ r[1] = f BY <1>1, <1>3
  <2>2. \A i \in 1 .. Len(r) : i = 1 /\ r[i] = f BY <2>1
  <2> QED BY <1>1, <1>3, <2>1, <2>2 DEF QueueOK, OwedAbout
<1> QED BY <1>2, <1>3 DEF c, f

LEMMA JoinPair ==
  ASSUME NEW a, NEW b
  PROVE  <<a>> \o <<b>> = <<a, b>>
<1> DEFINE s == <<a>> \o <<b>>
           S == {a, b}
<1>1. <<a>> \in Seq(S) /\ <<b>> \in Seq(S) /\ Len(<<a>>) = 1 /\ Len(<<b>>) = 1 OBVIOUS
<1>2. s \in Seq(S) /\ Len(s) = 2 BY <1>1
<1>3. s[1] = a /\ s[2] = b BY <1>1
<1> HIDE DEF s, S
<1>4. s = [i \in 1 .. 2 |-> s[i]] BY <1>2
<1>5. \A i \in 1 .. 2 : i = 1 \/ i = 2 OBVIOUS
<1>6. <<a, b>> = [i \in 1 .. 2 |-> IF i = 1 THEN a ELSE b] OBVIOUS
<1>7. s = <<a, b>> BY <1>3, <1>4, <1>5, <1>6
<1> QED BY <1>7 DEF s

LEMMA OwedIs ==
  ASSUME NEW h, NEW open \in BOOLEAN
  PROVE  Owed(h, open) = IF open THEN <<[call |-> "close", pin |-> h], [call |-> "forget", pin |-> h]>>
                         ELSE <<[call |-> "forget", pin |-> h]>>
<1>1. CASE open
  <2> DEFINE c == [call |-> "close", pin |-> h]
             f == [call |-> "forget", pin |-> h]
  <2>1. Owed(h, open) = <<c>> \o <<f>> BY <1>1 DEF Owed
  <2> HIDE DEF c, f
  <2>2. <<c>> \o <<f>> = <<c, f>> BY JoinPair
  <2>3. Owed(h, open) = <<c, f>> BY <2>1, <2>2
  <2> QED BY <1>1, <2>3 DEF c, f
<1>2. CASE ~open
  <2> DEFINE f == [call |-> "forget", pin |-> h]
  <2>1. Owed(h, open) = <<>> \o <<f>> BY <1>2 DEF Owed
  <2> HIDE DEF f
  <2>2. <<>> \o <<f>> = <<f>> OBVIOUS
  <2>3. Owed(h, open) = <<f>> BY <2>1, <2>2
  <2> QED BY <1>2, <2>3 DEF f
<1> QED BY <1>1, <1>2

\* The guards of a call, when the pins they hold have become owed.
LEMMA HeldAbout ==
  ASSUME NEW t \in Tasks, task[t] \in TaskType, HoldOK(task[t], pin), task[t].at # "closing",
         NEW p2, \A h \in HeldBy(t) : p2[h].at = "owed" /\ p2[h].open = pin[h].open
  PROVE  OwedAbout(OwedByHeld(t), HeldBy(t), p2)
<1> DEFINE hs == task[t].held
           f(h) == [call |-> "forget", pin |-> h]
           c(h) == [call |-> "close", pin |-> h]
           r == [i \in 1 .. Len(hs) |-> f(hs[Len(hs) + 1 - i])]
<1>1. /\ HeldBy(t) \in SUBSET Pins /\ hs \in Seq(Pins)
      /\ \A i \in 1 .. Len(hs) : hs[i] \in HeldBy(t)
  BY HeldPins
<1>2. \A h \in Pins : /\ f(h) \in OwedType /\ f(h).call = "forget" /\ f(h).pin = h
                      /\ c(h) \in OwedType /\ c(h).call = "close" /\ c(h).pin = h
  BY DEF OwedType
<1>3. Len(<<>>) = 0 /\ <<>> \in Seq(OwedType) OBVIOUS
<1>4. OwedAbout(<<>>, HeldBy(t), p2) BY <1>3 DEF OwedAbout, QueueOK
<1>5. CASE task[t].op = "release" \/ hs = <<>>
  <2>1. OwedByHeld(t) = <<>>
    <3>1. OwedByHeld(t) = <<>> \o [i \in 1 .. 0 |-> f((<<>>)[Len(<<>>) + 1 - i])]
      BY <1>3, <1>5 DEF OwedByHeld
    <3>2. [i \in 1 .. 0 |-> f((<<>>)[Len(<<>>) + 1 - i])] = <<>> OBVIOUS
    <3>3. <<>> \o <<>> = <<>> OBVIOUS
    <3> QED BY <3>1, <3>2, <3>3
  <2> QED BY <1>4, <2>1
<1>6. CASE task[t].op # "release" /\ hs # <<>> /\ task[t].at # "truncate"
  <2>1. Len(hs) \in Nat \ {0} /\ Last(hs) = hs[Len(hs)] /\ Len(hs) \in 1 .. Len(hs)
    BY <1>1, <1>6 DEF Last
  <2>2. ~pin[Last(hs)].open BY <1>6, <2>1 DEF HoldOK
  <2>3. OwedByHeld(t) = <<>> \o r BY <1>6, <2>2 DEF OwedByHeld
  <2>4. \A i \in 1 .. Len(hs) : Len(hs) + 1 - i \in 1 .. Len(hs) BY <2>1
  <2>5. \A i \in 1 .. Len(hs) : r[i] = f(hs[Len(hs) + 1 - i]) OBVIOUS
  <2>6. r \in Seq(OwedType) /\ Len(r) = Len(hs)
    <3>1. \A i \in 1 .. Len(hs) : f(hs[Len(hs) + 1 - i]) \in OwedType BY <1>1, <1>2, <2>4
    <3> HIDE DEF f
    <3>2. r \in [1 .. Len(hs) -> OwedType] BY <3>1
    <3> HIDE DEF r
    <3> QED BY <2>1, <3>2
  <2> HIDE DEF r, f
  <2>7. <<>> \o r = r BY <2>6
  <2>8. \A i \in 1 .. Len(r) : /\ r[i].call = "forget" /\ r[i].pin \in HeldBy(t)
                               /\ r[i].pin = hs[Len(hs) + 1 - i]
    <3> SUFFICES ASSUME NEW i \in 1 .. Len(r)
                 PROVE  /\ r[i].call = "forget" /\ r[i].pin \in HeldBy(t)
                        /\ r[i].pin = hs[Len(hs) + 1 - i]
      OBVIOUS
    <3>1. PICK g : g = hs[Len(hs) + 1 - i] OBVIOUS
    <3>2. g \in HeldBy(t) /\ g \in Pins BY <1>1, <2>4, <2>6, <3>1
    <3>3. r[i] = f(g) BY <2>5, <2>6, <3>1
    <3>4. f(g).call = "forget" /\ f(g).pin = g BY DEF f
    <3> QED BY <3>1, <3>2, <3>3, <3>4
  <2>9. \A i \in 1 .. Len(r) : p2[r[i].pin].at = "owed" BY <2>8
  <2>10. \A i \in 1 .. Len(r) : ~p2[r[i].pin].open
    <3>0. \A i \in 1 .. Len(hs) : ~pin[hs[i]].open BY <1>6 DEF HoldOK
    <3>1. \A i \in 1 .. Len(r) : ~pin[hs[Len(hs) + 1 - i]].open BY <2>4, <2>6, <3>0
    <3> QED BY <2>8, <3>1
  <2>11. ASSUME NEW i \in 1 .. Len(r), NEW j \in 1 .. Len(r), r[i].pin = r[j].pin PROVE i = j
    <3>1. hs[Len(hs) + 1 - i] = hs[Len(hs) + 1 - j] BY <2>8, <2>11
    <3>2. \A m, n \in 1 .. Len(hs) : hs[m] = hs[n] => m = n BY DEF HoldOK
    <3>3. Len(hs) + 1 - i \in 1 .. Len(hs) /\ Len(hs) + 1 - j \in 1 .. Len(hs) BY <2>4, <2>6
    <3>4. Len(hs) + 1 - i = Len(hs) + 1 - j BY <3>1, <3>2, <3>3
    <3> QED BY <2>1, <2>6, <3>4
  <2>12. QueueOK(r, p2) BY <2>8, <2>9, <2>10, <2>11 DEF QueueOK
  <2> QED BY <2>3, <2>6, <2>7, <2>8, <2>12 DEF OwedAbout
<1>7. CASE task[t].op # "release" /\ hs # <<>> /\ task[t].at = "truncate"
  <2> DEFINE h == hs[1]
  <2>1. Len(hs) = 1 /\ pin[h].open BY <1>7 DEF HoldOK
  <2>2. Last(hs) = h /\ h \in HeldBy(t) /\ h \in Pins /\ 1 \in 1 .. Len(hs) BY <1>1, <2>1 DEF Last
  <2>3. OwedByHeld(t) = <<c(h)>> \o r BY <1>7, <2>1, <2>2 DEF OwedByHeld
  <2>4. r = <<f(h)>>
    <3>1. r = [i \in 1 .. 1 |-> f(hs[1 + 1 - i])] BY <2>1
    <3>2. \A i \in 1 .. 1 : 1 + 1 - i = 1 OBVIOUS
    <3>3. PICK e : e = f(h) OBVIOUS
    <3> HIDE DEF f, r
    <3>4. r = [i \in 1 .. 1 |-> e] BY <3>1, <3>2, <3>3
    <3>5. <<e>> = [i \in 1 .. 1 |-> e] OBVIOUS
    <3> QED BY <3>3, <3>4, <3>5
  <2>5. p2[h].at = "owed" /\ p2[h].open BY <2>1, <2>2
  <2>6. <<c(h)>> \o <<f(h)>> = <<c(h), f(h)>> BY JoinPair
  <2>7. OwedByHeld(t) = <<[call |-> "close", pin |-> h], [call |-> "forget", pin |-> h]>>
    BY <2>3, <2>4, <2>6
  <2>8. OwedAbout(OwedByHeld(t), {h}, p2) BY <2>2, <2>5, <2>7, PairAbout
  <2> QED BY <2>2, <2>8 DEF OwedAbout
<1> QED BY <1>5, <1>6, <1>7

-----------------------------------------------------------------------------
(* Handles dropped, calls cut, panics. *)

\* Pins that become owed, with what is owed of them, at the end of the queue.
Queues(hs, r, p2) ==
    /\ hs \in SUBSET Pins /\ p2 \in [Pins -> PinType] /\ OwedAbout(r, hs, p2)
    /\ \A g \in Pins \ hs : p2[g] = pin[g]
    /\ \A g \in hs : /\ pin[g].at \notin {"free", "owed"} /\ p2[g].at = "owed"
                     /\ p2[g].node = pin[g].node /\ p2[g].open = pin[g].open

LEMMA QueuesOK ==
  ASSUME DataInv, Account, ~broken, NEW hs, NEW r, NEW p2, Queues(hs, r, p2)
  PROVE  /\ queue \o r \in Seq(OwedType) /\ QueueOK(queue \o r, p2)
         /\ PinOK(p2) /\ Counts(p2, pins, opens)
<1>1. queue \in Seq(OwedType) /\ QueueOK(queue, pin) /\ PinOK(pin) /\ Counts(pin, pins, opens)
  BY DEF DataInv, Account
<1>2. \A g \in Pins : pin[g].at = "owed" => p2[g] = pin[g] BY DEF Queues
<1>3. QueueOK(queue, p2) BY <1>1, <1>2, QueueSame
<1>4. r \in Seq(OwedType) /\ QueueOK(r, p2) /\ \A j \in 1 .. Len(r) : r[j].pin \in hs
  BY DEF Queues, OwedAbout
<1>5. \A i \in 1 .. Len(queue), j \in 1 .. Len(r) : queue[i].pin # r[j].pin
  BY <1>1, <1>4 DEF Queues, QueueOK
<1>6. queue \o r \in Seq(OwedType) /\ QueueOK(queue \o r, p2) BY <1>1, <1>3, <1>4, <1>5, QueueJoin
<1>7. PinOK(p2) BY <1>1 DEF PinOK, Queues
<1>8. \A g \in Pins : p2[g].node = pin[g].node /\ p2[g].open = pin[g].open BY DEF Queues
<1>9. Counts(p2, pins, opens) BY <1>1, <1>8, CountsSame
<1> QED BY <1>6, <1>7, <1>9

\* A handle that nobody holds and that is no file of a call changes.
LEMMA OthersHold ==
  ASSUME LockInv, Account, task' = task, NEW h \in Pins, pin[h].at # "held",
         pin[h].at # "file" \/ ~InUse(h), NEW p2, \A g \in Pins \ {h} : p2[g] = pin[g]
  PROVE  UsesOK(task') /\ \A u \in Tasks : HoldOK(task'[u], p2)
<1>1. \A u \in Tasks : HoldOK(task[u], pin) /\ task[u] \in TaskType BY DEF Account, LockInv
<1>2. \A u \in Tasks : SameFor(task[u], pin, p2) BY DEF SameFor, InUse
<1>3. ASSUME NEW u \in Tasks PROVE HoldOK(task[u], p2) BY <1>1, <1>2, HoldSame
<1> QED BY <1>3 DEF Account

\* A handle is dropped: its release begins, and on a failed volume is over.
LEMMA DropHandleStep ==
  ASSUME VolumeInv, NEW h \in Pins, DropHandle(h)
  PROVE  VolumeInv' /\ Quiet
<1> DEFINE where == IF failed THEN "lost" ELSE "releasing"
<1>1. /\ LockInv /\ DataInv /\ IsHandle(h) /\ ~InUse(h) /\ pin \in [Pins -> PinType]
      /\ UNCHANGED <<mode, lock, failed, broken, queue, task, driver>>
      /\ pin' = Moved({h}, where) /\ where \in {"lost", "owed", "releasing"}
  BY DEF VolumeInv, DropHandle, DataInv
<1> HIDE DEF where
<1>2. LockInv' BY <1>1 DEF LockInv
<1>3. PICK p2 : p2 = pin' OBVIOUS
<1>4. /\ SamePins(p2) /\ \A g \in Pins \ {h} : p2[g] = pin[g]
      /\ p2[h].at = where /\ p2[h].node = pin[h].node /\ p2[h].open = pin[h].open
  BY <1>1, <1>3, MovedType
<1>5. CASE broken BY <1>1, <1>2, <1>3, <1>4, <1>5, BrokenStep
<1>6. CASE ~broken
  <2>1. Account /\ queue \in Seq(OwedType) /\ ~failed
    BY <1>1, <1>6 DEF VolumeInv, DataInv, LockInv
  <2>2. where = "releasing" BY <2>1 DEF where
  <2>3. PinOK(p2) BY <1>1, <1>4, <2>1, <2>2 DEF Account, PinOK, IsHandle
  <2>4. QueueOK(queue, p2)
    <3>1. \A g \in Pins : pin[g].at = "owed" => p2[g] = pin[g] BY <1>1, <1>4 DEF IsHandle
    <3> QED BY <2>1, <3>1, QueueSame DEF Account
  <2>5. Counts(p2, pins, opens) BY <1>4, <2>1, CountsSame DEF Account, SamePins
  <2>6. UsesOK(task') /\ \A u \in Tasks : HoldOK(task'[u], p2) BY <1>1, <1>4, <2>1, OthersHold DEF IsHandle
  <2>7. Account' BY <1>1, <1>3, <2>3, <2>4, <2>5, <2>6 DEF Account, driver
  <2>8. DataInv' BY <1>1, <1>3, <1>4 DEF DataInv, driver, SamePins
  <2> QED BY <1>1, <1>2, <1>6, <2>7, <2>8 DEF VolumeInv, Quiet
<1> QED BY <1>5, <1>6

\* The call that a release owes joins the queue.
LEMMA ReleaseLaterStep ==
  ASSUME VolumeInv, NEW h \in Pins, ReleaseLater(h)
  PROVE  VolumeInv' /\ Quiet
<1>1. /\ LockInv /\ DataInv /\ pin[h].at = "releasing" /\ ~InUse(h) /\ pin \in [Pins -> PinType]
      /\ UNCHANGED <<mode, lock, failed, broken, driver, task>>
      /\ queue' = queue \o Owed(h, pin[h].open) /\ pin' = Moved({h}, "owed")
  BY DEF VolumeInv, ReleaseLater, DataInv
<1>2. LockInv' BY <1>1 DEF LockInv
<1>3. PICK p2 : p2 = pin' OBVIOUS
<1>4. /\ SamePins(p2) /\ \A g \in Pins \ {h} : p2[g] = pin[g]
      /\ p2[h].at = "owed" /\ p2[h].node = pin[h].node /\ p2[h].open = pin[h].open
  BY <1>1, <1>3, MovedType
<1> DEFINE r == Owed(h, pin[h].open)
<1>5. OwedAbout(r, {h}, p2)
  <2>0. pin[h].open \in BOOLEAN
    <3>1. pin[h] \in PinType BY <1>1
    <3> QED BY <3>1 DEF PinType
  <2>1. CASE pin[h].open
    <3>1. r = <<[call |-> "close", pin |-> h], [call |-> "forget", pin |-> h]>>
      BY <2>0, <2>1, OwedIs
    <3> HIDE DEF r
    <3> QED BY <1>4, <2>1, <3>1, PairAbout
  <2>2. CASE ~pin[h].open
    <3>1. r = <<[call |-> "forget", pin |-> h]>> BY <2>0, <2>2, OwedIs
    <3> HIDE DEF r
    <3> QED BY <1>4, <2>2, <3>1, PairAbout
  <2> QED BY <2>1, <2>2
<1> HIDE DEF r
<1>6. CASE broken BY <1>1, <1>2, <1>3, <1>4, <1>6, BrokenStep
<1>7. CASE ~broken
  <2>1. Account BY <1>7 DEF VolumeInv
  <2>2. Queues({h}, r, p2) BY <1>1, <1>4, <1>5 DEF Queues, SamePins
  <2>3. /\ queue' \in Seq(OwedType) /\ QueueOK(queue', p2)
        /\ PinOK(p2) /\ Counts(p2, pins, opens)
    BY <1>1, <1>7, <2>1, <2>2, QueuesOK DEF r
  <2>4. UsesOK(task') /\ \A u \in Tasks : HoldOK(task'[u], p2) BY <1>1, <1>4, <2>1, OthersHold
  <2>5. Account' BY <1>1, <1>3, <2>3, <2>4 DEF Account, driver
  <2>6. DataInv' BY <1>1, <1>3, <1>4, <2>3 DEF DataInv, driver, SamePins
  <2> QED BY <1>1, <1>2, <1>7, <2>5, <2>6 DEF VolumeInv, Quiet
<1> QED BY <1>6, <1>7

\* A listing is forgotten at once, be the volume whole or not.
LEMMA ReleaseNowStep ==
  ASSUME VolumeInv, NEW h \in Pins, ReleaseNow(h)
  PROVE  VolumeInv' /\ Quiet
<1>1. /\ LockInv /\ DataInv /\ pin[h].at = "releasing" /\ ~pin[h].open /\ pin \in [Pins -> PinType]
      /\ UNCHANGED <<mode, lock, failed, broken, queue, opens, task>>
      /\ DriverForget({h}) /\ pin' = Released({h})
  BY DEF VolumeInv, ReleaseNow, DataInv
<1>2. LockInv' BY <1>1 DEF LockInv
<1>3. PICK p2 : p2 = pin' OBVIOUS
<1>4. p2 = Without(pin, {h}) /\ pins' = Fewer(pin, pins, {h})
  BY <1>1, <1>3 DEF Released, Without, DriverForget, Fewer
<1>5. pin[h].open = FALSE
  <2>1. pin[h] \in PinType BY <1>1
  <2> QED BY <1>1, <2>1 DEF PinType
<1>6. Counts(p2, pins', opens) /\ pins' \in [Nodes -> Nat]
  <2>1. /\ Counts(Without(pin, {h}), Fewer(pin, pins, {h}), opens)
        /\ Fewer(pin, pins, {h}) \in [Nodes -> Nat]
    BY <1>5, Counted, CountsForget
  <2> QED BY <1>4, <2>1
<1>7. p2 \in [Pins -> PinType]
  <2>1. Unused \in PinType BY DEF Unused, PinType
  <2> QED BY <1>1, <1>4, <2>1 DEF Without
<1>8. DataInv' BY <1>1, <1>3, <1>6, <1>7 DEF DataInv
<1>9. LateRelease BY <1>1 DEF LateRelease
<1>10. Counts(pin, pins, opens)' BY <1>1, <1>3, <1>6
<1>11. ASSUME ~broken PROVE Account'
  <2>1. Account /\ queue \in Seq(OwedType) BY <1>11 DEF VolumeInv, DataInv
  <2>2. PinOK(p2) BY <1>1, <1>4, <2>1, WithoutOK DEF Account
  <2>3. QueueOK(queue, p2)
    <3>1. \A g \in {h} : pin[g].at # "owed" BY <1>1
    <3>2. QueueOK(queue, Without(pin, {h})) BY <2>1, <3>1, QueueWithout DEF Account
    <3> QED BY <1>4, <3>2
  <2>4. \A g \in Pins \ {h} : p2[g] = pin[g] BY <1>4 DEF Without
  <2>5. UsesOK(task') /\ \A u \in Tasks : HoldOK(task'[u], p2) BY <1>1, <2>1, <2>4, OthersHold
  <2> QED BY <1>1, <1>3, <1>6, <2>2, <2>3, <2>5 DEF Account
<1> QED BY <1>1, <1>2, <1>8, <1>9, <1>10, <1>11 DEF VolumeInv, Quiet

LEMMA PanicStep ==
  ASSUME VolumeInv, NEW t \in Tasks, Panic(t), Windows = {}
  PROVE  VolumeInv' /\ Quiet
<1>1. /\ LockInv /\ DataInv /\ task \in [Tasks -> TaskType] /\ task[t] \in TaskType
      /\ lock = t /\ broken' = TRUE /\ mode' = mode /\ UNCHANGED driver /\ task[t].at \in Inside
      /\ pin \in [Pins -> PinType]
  BY DEF VolumeInv, LockInv, DataInv, Panic, Inside
<1>2. ~failed /\ \A u \in Tasks \ {t} : task[u].at \in Outside BY <1>1, Working DEF LockInv
<1>4. SamePins(pin')
  <2>1. ASSUME NEW h \in Pins, NEW a \in {"lost", "owed"}
        PROVE  LET k == [pin[h] EXCEPT !.at = a]
               IN  k \in PinType /\ k.node = pin[h].node /\ k.open = pin[h].open
    <3>1. pin[h] \in PinType BY <1>1
    <3> QED BY <3>1 DEF PinType
  <2>2. \A h \in Pins : pin[h] \in PinType BY <1>1
  <2>3. pin' = [h \in Pins |->
         CASE h \in HeldBy(t) /\ task[t].op # "release" -> [pin[h] EXCEPT !.at = "owed"]
           [] h \in HeldBy(t) \cup Given(t) -> [pin[h] EXCEPT !.at = "lost"]
           [] OTHER -> pin[h]]
    BY DEF Panic
  <2>4. ASSUME NEW h \in Pins
        PROVE  pin'[h] \in PinType /\ pin'[h].node = pin[h].node /\ pin'[h].open = pin[h].open
    <3>1. \/ pin'[h] = [pin[h] EXCEPT !.at = "owed"]
          \/ pin'[h] = [pin[h] EXCEPT !.at = "lost"]
          \/ pin'[h] = pin[h]
      BY <2>3
    <3> QED BY <2>1, <2>2, <3>1
  <2>5. pin' = [h \in Pins |-> pin'[h]] BY <2>3
  <2>6. pin' \in [Pins -> PinType] BY <2>4, <2>5
  <2> QED BY <2>4, <2>6 DEF SamePins
<1>5. LockInv'
  <2>1. CASE mode = "async" /\ task[t].at = "close_owed"
    <3> DEFINE k == [Idle EXCEPT !.at = "unwinding"]
    <3>1. k \in TaskType /\ k.at = "unwinding" BY RestType
    <3>2. task' = [task EXCEPT ![t] = k] /\ failed' = failed /\ lock' = lock BY <2>1 DEF Panic
    <3> HIDE DEF k
    <3>3. Becomes(t, k) BY <1>1, <3>1, <3>2, SetTask
    <3> QED BY <1>1, <1>2, <3>1, <3>2, <3>3 DEF LockInv, Becomes, Outside
  <2>2. CASE ~(mode = "async" /\ task[t].at = "close_owed")
    <3>1. task' = [task EXCEPT ![t] = Idle] /\ failed' = TRUE /\ lock' = NoTask BY <2>2 DEF Panic
    <3>2. Becomes(t, Idle) BY <1>1, <3>1, IdleType, SetTask
    <3> QED BY <1>1, <1>2, <3>1, <3>2, IdleType DEF LockInv, Becomes, Outside
  <2> QED BY <2>1, <2>2
<1> QED BY <1>1, <1>4, <1>5, BrokenStep

LEMMA CutStep ==
  ASSUME VolumeInv, NEW t \in Tasks, Cut(t), Windows = {}
  PROVE  VolumeInv' /\ Quiet
<1> DEFINE ds == Dropped(t)
           hs == HeldBy(t) \cup ds
           own == IF ds # {} /\ ~failed THEN Owed(task[t].uses, TRUE) ELSE <<>>
           r == OwedByHeld(t) \o own
<1>1. /\ LockInv /\ DataInv /\ task \in [Tasks -> TaskType] /\ task[t] \in TaskType
      /\ UNCHANGED <<mode, failed, broken, driver>> /\ task' = [task EXCEPT ![t] = Idle]
      /\ lock' = (IF lock = t THEN NoTask ELSE lock)
      /\ pin \in [Pins -> PinType]
      /\ task[t].at \in {"entering", "close_owed", "resolve", "work", "truncate"}
      /\ queue' = queue \o r
  BY DEF VolumeInv, LockInv, DataInv, Cut, Suspended
<1>2. Becomes(t, Idle) BY <1>1, IdleType, SetTask
<1>3. LockInv'
  <2>1. CASE lock = t
    <3>1. \A u \in Tasks \ {t} : task[u].at \in Outside BY <1>1, <2>1 DEF LockInv
    <3>2. ~failed /\ ~broken BY <1>1, <2>1 DEF LockInv
    <3> QED BY <1>1, <1>2, <2>1, <3>1, <3>2, IdleType DEF LockInv, Becomes, Outside
  <2>2. CASE lock # t
    <3>1. task[t].at # "unwinding" BY <1>1
    <3> QED BY <1>1, <1>2, <2>2, <3>1, IdleType DEF LockInv, Becomes, Outside
  <2> QED BY <2>1, <2>2
<1>4. /\ \A h \in Pins \ hs : pin'[h] = pin[h]
      /\ pin' \in [Pins -> PinType]
      /\ \A h \in Pins : pin'[h].node = pin[h].node /\ pin'[h].open = pin[h].open
      /\ ~failed => \A h \in Pins \cap hs : pin'[h].at = "owed"
  <2>1. pin' = [h \in Pins |->
                CASE h \in ds /\ failed -> [pin[h] EXCEPT !.at = "lost"]
                  [] h \in HeldBy(t) \cup ds -> [pin[h] EXCEPT !.at = "owed"]
                  [] OTHER -> pin[h]]
    BY DEF Cut
  <2>2. ASSUME NEW h \in Pins, NEW a \in {"lost", "owed"}
        PROVE  LET k == [pin[h] EXCEPT !.at = a]
               IN  k \in PinType /\ k.at = a /\ k.node = pin[h].node /\ k.open = pin[h].open
    <3>1. pin[h] \in PinType BY <1>1
    <3> QED BY <3>1 DEF PinType
  <2>3. \A h \in Pins : pin[h] \in PinType BY <1>1
  <2> HIDE DEF ds
  <2>4. ASSUME NEW h \in Pins
        PROVE  /\ pin'[h] \in PinType /\ (h \notin hs => pin'[h] = pin[h])
               /\ pin'[h].node = pin[h].node /\ pin'[h].open = pin[h].open
               /\ ~failed /\ h \in hs => pin'[h].at = "owed"
    <3>1. pin'[h] = CASE h \in ds /\ failed -> [pin[h] EXCEPT !.at = "lost"]
                      [] h \in HeldBy(t) \cup ds -> [pin[h] EXCEPT !.at = "owed"]
                      [] OTHER -> pin[h]
      BY <2>1
    <3>2. CASE h \in ds /\ failed BY <2>2, <3>1, <3>2
    <3>3. CASE h \in hs /\ ~(h \in ds /\ failed) BY <2>2, <3>1, <3>3
    <3>4. CASE h \notin hs BY <2>3, <3>1, <3>4
    <3> QED BY <3>2, <3>3, <3>4
  <2>5. pin' = [h \in Pins |-> pin'[h]] BY <2>1
  <2>6. pin' \in [Pins -> PinType] BY <2>4, <2>5
  <2> QED BY <2>4, <2>6
<1> HIDE DEF hs
<1>5. CASE broken
  <2>1. broken' /\ UNCHANGED driver BY <1>1, <1>5
  <2> QED BY <1>3, <1>4, <2>1, BrokenStep DEF SamePins
<1>6. CASE ~broken
  <2>1. ~failed /\ Account BY <1>1, <1>6 DEF LockInv, VolumeInv
  <2>2. HoldOK(task[t], pin) /\ PinOK(pin) BY <2>1 DEF Account
  <2>3. PICK p2 : p2 = pin' OBVIOUS
  <2>4. HeldBy(t) \in SUBSET Pins /\ \A h \in HeldBy(t) : pin[h].at = "held"
    BY <1>1, <2>2, HeldPins
  <2>5. ds # {} => /\ task[t].op = "close" /\ task[t].held = <<>> /\ ds = {task[t].uses}
                   /\ task[t].uses \in Pins /\ pin[task[t].uses].at = "file"
    BY <2>2 DEF Dropped, HoldOK
  <2> HIDE DEF ds
  <2>6. hs \in SUBSET Pins /\ \A h \in hs : pin[h].at \in {"held", "file"} BY <2>4, <2>5 DEF hs
  <2>7. /\ \A h \in Pins \ hs : p2[h] = pin[h]
        /\ p2 \in [Pins -> PinType]
        /\ \A h \in hs : p2[h].at = "owed" /\ p2[h].node = pin[h].node /\ p2[h].open = pin[h].open
    BY <1>4, <2>1, <2>3, <2>6
  <2>8. OwedAbout(OwedByHeld(t), HeldBy(t), p2)
    <3>1. \A h \in HeldBy(t) : p2[h].at = "owed" /\ p2[h].open = pin[h].open BY <2>7 DEF hs
    <3> QED BY <1>1, <2>2, <3>1, HeldAbout
  <2>9. OwedAbout(r, hs, p2)
    <3>1. CASE ds = {}
      <4>1. r = OwedByHeld(t) \o <<>> BY <3>1
      <4> HIDE DEF r, own
      <4>2. r = OwedByHeld(t) BY <2>8, <4>1 DEF OwedAbout
      <4> QED BY <2>8, <4>2 DEF OwedAbout, hs
    <3>2. CASE ds # {}
      <4> DEFINE h == task[t].uses
      <4>1. own = <<[call |-> "close", pin |-> h], [call |-> "forget", pin |-> h]>>
        BY <2>1, <3>2, OwedIs
      <4>2. p2[h].at = "owed" /\ p2[h].open /\ h \in Pins
        BY <2>2, <2>5, <2>7, <3>2 DEF hs, PinOK
      <4> HIDE DEF own, h
      <4>3. OwedAbout(own, {h}, p2) BY <4>1, <4>2, PairAbout
      <4>4. HeldBy(t) = {} BY <2>5, <3>2 DEF HeldBy, ToSet
      <4>5. own \in Seq(OwedType) /\ OwedByHeld(t) \in Seq(OwedType) BY <2>8, <4>3 DEF OwedAbout
      <4>6. Len(OwedByHeld(t)) = 0
        <5>1. Len(OwedByHeld(t)) \in Nat BY <4>5
        <5>2. 1 \notin 1 .. Len(OwedByHeld(t)) BY <2>8, <4>4 DEF OwedAbout
        <5> QED BY <5>1, <5>2
      <4>7. OwedByHeld(t) = <<>> BY <4>5, <4>6
      <4>8. r = own BY <4>5, <4>7 DEF r
      <4> QED BY <2>5, <3>2, <4>3, <4>8 DEF OwedAbout, hs, h
    <3> QED BY <3>1, <3>2
  <2> HIDE DEF r
  <2>10. Queues(hs, r, p2) BY <2>6, <2>7, <2>9 DEF Queues
  <2>11. /\ queue' \in Seq(OwedType) /\ QueueOK(queue', p2) /\ PinOK(p2)
         /\ Counts(p2, pins, opens)
    BY <1>1, <1>6, <2>1, <2>10, QueuesOK DEF r
  <2>12. UsesOK(task') BY <1>2, <2>1, IdleType DEF Becomes, Account, UsesOK
  <2>13. ASSUME NEW u \in Tasks PROVE HoldOK(task'[u], p2)
    <3>1. CASE u = t BY <1>2, <3>1, IdleHolds DEF Becomes
    <3>2. CASE u # t
      <4>1. PICK k1 : k1 = task[u] OBVIOUS
      <4>2. k1 \in TaskType /\ HoldOK(k1, pin) /\ task'[u] = k1
        BY <1>1, <1>2, <2>1, <3>2, <4>1 DEF Account, Becomes
      <4>3. k1.held = <<>> \/ HeldBy(t) = {}
        <5>1. CASE task[t].held = <<>> BY <5>1 DEF HeldBy, ToSet
        <5>2. CASE task[t].held # <<>>
          <6>1. task[t].at \notin Outside BY <2>2, <5>2 DEF HoldOK, Outside
          <6>2. k1.at \in Outside BY <1>1, <3>2, <4>1, <6>1 DEF LockInv
          <6> QED BY <4>2, <6>2, HoldsNothing DEF Outside
        <5> QED BY <5>1, <5>2
      <4>4. \A h \in Pins : h = k1.uses /\ pin[h].at = "file" => h \notin hs
        <5>1. \A h \in HeldBy(t) : pin[h].at # "file" BY <2>4
        <5>2. \A h \in Pins : h = k1.uses => h # task[t].uses
          BY <2>1, <3>2, <4>1 DEF Account, UsesOK
        <5> QED BY <2>5, <5>1, <5>2 DEF hs
      <4>5. HeldBy(t) = {} => \A h \in Pins : pin[h].at = "held" => h \notin hs
        BY <2>5 DEF hs
      <4>6. SameFor(k1, pin, p2) BY <2>7, <4>3, <4>4, <4>5 DEF SameFor
      <4> QED BY <4>2, <4>6, HoldSame
    <3> QED BY <3>1, <3>2
  <2>14. Account' BY <1>1, <2>3, <2>11, <2>12, <2>13 DEF Account, driver
  <2>15. DataInv' BY <1>1, <2>3, <2>7, <2>11 DEF DataInv, driver
  <2> QED BY <1>1, <1>3, <1>6, <2>14, <2>15 DEF VolumeInv, Quiet
<1> QED BY <1>5, <1>6

-----------------------------------------------------------------------------
(* The invariant, and what it shows. *)

LEMMA VolumeInit ==
  ASSUME Init
  PROVE  VolumeInv
<1>1. lock = NoTask /\ failed = FALSE /\ broken = FALSE /\ queue = <<>>
      /\ task = [t \in Tasks |-> Idle] /\ pin = [h \in Pins |-> Unused]
      /\ pins = [n \in Nodes |-> 0] /\ opens = [n \in Nodes |-> 0] /\ mode \in {"sync", "async"}
  BY DEF Init
<1>2. task \in [Tasks -> TaskType] /\ \A t \in Tasks : task[t] = Idle /\ task[t].at = "idle"
  BY <1>1, IdleType
<1>3. LockInv BY <1>1, <1>2 DEF LockInv, Outside
<1>4. Unused \in PinType /\ Unused.at = "free" /\ Unused.node \notin Nodes
  BY DEF Unused, PinType
<1>5. pin \in [Pins -> PinType] /\ PinOK(pin) BY <1>1, <1>4 DEF PinOK
<1>6. \A n \in Nodes : At(pin, n) = {} /\ OpenAt(pin, n) = {} BY <1>1, <1>4 DEF At, OpenAt
<1>7. Counts(pin, pins, opens) BY <1>1, <1>6, FS_EmptySet DEF Counts
<1>8. Len(<<>>) = 0 /\ <<>> \in Seq(OwedType) OBVIOUS
<1>9. DataInv BY <1>1, <1>5, <1>8 DEF DataInv
<1>10. QueueOK(queue, pin) BY <1>1, <1>8 DEF QueueOK
<1>11. UsesOK(task) BY <1>2, IdleType DEF UsesOK
<1>12. \A t \in Tasks : HoldOK(task[t], pin) BY <1>2, IdleHolds
<1>13. Account BY <1>5, <1>7, <1>10, <1>11, <1>12 DEF Account
<1> QED BY <1>1, <1>3, <1>9, <1>13 DEF VolumeInv

LEMMA VolumeStutter ==
  ASSUME VolumeInv, UNCHANGED vars
  PROVE  VolumeInv'
<1> USE DEF vars, driver
<1>1. LockInv' BY DEF VolumeInv, LockInv
<1>2. DataInv' BY DEF VolumeInv, DataInv
<1>3. ~broken' => Account' BY DEF VolumeInv, Account
<1>4. broken' => Counts(pin, pins, opens)' BY DEF VolumeInv, Counts
<1> QED BY <1>1, <1>2, <1>3, <1>4 DEF VolumeInv

LEMMA VolumeStep ==
  ASSUME VolumeInv, Next, Windows = {}
  PROVE  VolumeInv' /\ Quiet
<1>1. ASSUME NEW t \in Tasks, Progress(t) PROVE VolumeInv' /\ Quiet
  <2>1. CASE Acquire(t) BY <2>1, AcquireStep
  <2>2. CASE RunForget(t) BY <2>2, RunForgetStep
  <2>3. CASE RunClose(t) BY <2>3, RunCloseStep
  <2>4. CASE OwedClosed(t) BY <2>4, OwedClosedStep
  <2>5. CASE Start(t) BY <2>5, StartStep
  <2>6. CASE StartClose(t) BY <2>6, StartCloseStep
  <2>7. CASE StartForget(t) BY <2>7, StartForgetStep
  <2>8. CASE HandBack(t) \/ Unlock(t)
    <3>1. task[t].at \in Inside BY <2>8 DEF HandBack, Unlock, Inside
    <3> QED BY <2>8, <3>1, OverStep
  <2>9. CASE DropGuard(t) BY <2>9, DropGuardStep
  <2>10. CASE Resolve(t) BY <2>10, ResolveStep
  <2>11. CASE ResolveFails(t) \/ WorkEnds(t) \/ Closed(t) BY <2>11, EndStep
  <2>12. CASE FollowLink(t) BY <2>12, FollowLinkStep
  <2>13. CASE EmptiedDir(t) BY <2>13, EmptiedDirStep
  <2>14. CASE Listed(t) \/ Truncated(t) BY <2>14, ReturnStep
  <2>15. CASE Opened(t) BY <2>15, OpenedStep
  <2>16. CASE TruncateFails(t) BY <2>16, TruncateFailsStep
  <2>17. CASE Unwound(t) BY <2>17, UnwoundStep
  <2> QED BY <1>1, <2>1, <2>2, <2>3, <2>4, <2>5, <2>6, <2>7, <2>8, <2>9, <2>10, <2>11, <2>12,
             <2>13, <2>14, <2>15, <2>16, <2>17 DEF Progress
<1>2. ASSUME NEW t \in Tasks, Cut(t) PROVE VolumeInv' /\ Quiet BY <1>2, CutStep
<1>3. ASSUME NEW t \in Tasks, Panic(t) PROVE VolumeInv' /\ Quiet BY <1>3, PanicStep
<1>4. ASSUME NEW t \in Tasks, IntoInner(t) PROVE VolumeInv' /\ Quiet BY <1>4, IntoInnerStep
<1>5. ASSUME NEW t \in Tasks, NEW op \in Calls, Begin(t, op) PROVE VolumeInv' /\ Quiet
  BY <1>5, BeginStep
<1>6. ASSUME NEW h \in Pins, DropHandle(h) PROVE VolumeInv' /\ Quiet BY <1>6, DropHandleStep
<1>7. ASSUME NEW h \in Pins, ReleaseLater(h) PROVE VolumeInv' /\ Quiet BY <1>7, ReleaseLaterStep
<1>8. ASSUME NEW h \in Pins, ReleaseNow(h) PROVE VolumeInv' /\ Quiet BY <1>8, ReleaseNowStep
<1>9. ASSUME NEW t \in Tasks, NEW h \in Pins, ReleaseLocked(t, h) PROVE VolumeInv' /\ Quiet
  BY <1>9, ReleaseLockedStep
<1>10. CASE Replace BY <1>10, ReplaceStep
<1> QED BY <1>1, <1>2, <1>3, <1>4, <1>5, <1>6, <1>7, <1>8, <1>9, <1>10 DEF Next

LEMMA VolumeInvariant ==
  ASSUME Windows = {}
  PROVE  Init /\ [][Next]_vars => []VolumeInv
<1>1. Init => VolumeInv BY VolumeInit
<1>2. VolumeInv /\ [Next]_vars => VolumeInv' BY VolumeStep, VolumeStutter
<1> QED BY <1>1, <1>2, PTL

\* Every pin and every open of the driver is one that a call, a handle or the
\* queue accounts for, and a close never runs after the forget of the same
\* pin, whatever the tasks do: calls cut where they wait, handles dropped with
\* the lock taken or free, panics, volumes taken apart (volume.rs:46,
\* handle.rs:13).  No early step is taken: the driver ends an open before the
\* first await of its close.
THEOREM PinsStayAccounted ==
  ASSUME Windows = {}
  PROVE  Spec => []PinsAccounted
<1>1. VolumeInv => PinsAccounted
  <2> SUFFICES ASSUME VolumeInv PROVE PinsAccounted OBVIOUS
  <2>1. \A n \in Nodes : pins[n] = Cardinality(At(pin, n)) /\ opens[n] = Cardinality(OpenAt(pin, n))
    BY Counted DEF Counts
  <2>2. \A n \in Nodes : opens[n] <= pins[n] BY <2>1, AtFinite
  <2> QED BY <2>1, <2>2 DEF At, OpenAt, PinsAccounted
<1> QED BY <1>1, VolumeInvariant, PTL DEF Spec

\* Nothing reaches a driver that a panic has left in the middle of a change:
\* neither a call that was waiting for the lock, nor one that begins, nor what
\* the guards and handles dropped meanwhile owe (volume.rs:113).  The forget
\* of a release that looked at the flag before the panic is the exception
\* (LateRelease).  Windows = {} leaves out the panics that give the lock back
\* before the volume is failed: those in an owed call that a call of another
\* task makes, and all of a build without std.
THEOREM BrokenDriverIsQuiet ==
  ASSUME Windows = {}
  PROVE  Spec => FailedIsQuiet
<1>1. VolumeInv /\ [Next]_vars => [broken /\ broken' => UNCHANGED driver \/ LateRelease]_vars
  BY VolumeStep DEF Quiet
<1> QED BY <1>1, VolumeInvariant, PTL DEF Spec, FailedIsQuiet
=============================================================================
