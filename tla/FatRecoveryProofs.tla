-------------------------- MODULE FatRecoveryProofs -------------------------
(***************************************************************************)
(* Proofs about FatChains: what recovery restores, wherever an operation   *)
(* is cut.  As in FatChainsProofs, an operation is judged by the writes it *)
(* has left: in each state they lead to, an invariant of what is on disk,  *)
(* in memory and pending holds before the write, after it while nobody     *)
(* knows, and after it.                                                    *)
(*                                                                         *)
(* No cluster is lost while the driver runs (SpaceInv).  Every cluster in  *)
(* use is in every set that has the files' first clusters and the pending  *)
(* ones and is closed under the table's links, unless it was lost at the   *)
(* mount (Covered).  Where recovery would free nothing, the files' first   *)
(* clusters are enough (Snug).                                             *)
(*                                                                         *)
(*   plans          composition of plans whose steps are in a set          *)
(*   allocation     its writes, from a chain's end to its start            *)
(*   cover          which changes of the table leave no cluster out        *)
(*   freeing        what is left is found from the first cluster left      *)
(*   operations     create, unlink, truncation, flush, growth              *)
(*   recovery       frees what no file reaches, and may itself be cut      *)
(*   the steps      each action keeps the invariant                        *)
(*                                                                         *)
(* Sizes stay within chains, nodes agree with entries, and files keep      *)
(* their clusters (SizeInv).  The chains hold the sizes in the entries and *)
(* those still to be written, also when recovery cuts the pending chain    *)
(* off, and what a node has against its entry is what recovery mends       *)
(* (Fit).  This one needs that no cut falls behind the three kinds of      *)
(* write that recovery does not get right (EarlySteps; Windows = {}).      *)
(*                                                                         *)
(*   chains         paths, and which changes of the table keep them        *)
(*   sizes          Fit and Saves, and the steps that keep both            *)
(*   operations     the same, each plan once more                          *)
(*   recovery       mends the nodes, and may itself be cut                 *)
(*   the steps      each action keeps the invariant                        *)
(***************************************************************************)
EXTENDS FatChainsProofs

-----------------------------------------------------------------------------
(* Plans whose steps are all in a set. *)

\* The steps of s lead from w to z, each of them, with the state it is taken
\* in, an element of A.
Goes(A, w, s, z) ==
    /\ s \in Seq(AllSteps) /\ z \in Worlds
    /\ \E W \in [0 .. Len(s) -> Worlds] :
          /\ W[0] = w /\ W[Len(s)] = z
          /\ \A i \in 1 .. Len(s) : <<W[i - 1], s[i]>> \in A /\ W[i] = Landed(W[i - 1], s[i])

\* A plan without steps.
LEMMA GoesNone ==
  ASSUME NEW A, NEW w \in Worlds
  PROVE  Goes(A, w, <<>>, w)
<1> DEFINE W == [i \in 0 .. 0 |-> w]
<1>1. W \in [0 .. Len(<<>>) -> Worlds] /\ W[0] = w /\ W[Len(<<>>)] = w OBVIOUS
<1>2. <<>> \in Seq(AllSteps) /\ Len(<<>>) = 0 OBVIOUS
<1> HIDE DEF W
<1> QED BY <1>1, <1>2 DEF Goes

\* A plan of one step.
LEMMA GoesOne ==
  ASSUME NEW A, NEW w \in Worlds, NEW s \in AllSteps, Landed(w, s) \in Worlds, <<w, s>> \in A
  PROVE  Goes(A, w, <<s>>, Landed(w, s))
<1> DEFINE W == [i \in 0 .. 1 |-> IF i = 0 THEN w ELSE Landed(w, s)]
           q == <<s>>
<1>1. W \in [0 .. 1 -> Worlds] /\ W[0] = w /\ W[1] = Landed(w, s) OBVIOUS
<1>2. q \in Seq(AllSteps) /\ Len(q) = 1 /\ q[1] = s OBVIOUS
<1> HIDE DEF W, q
<1>3. \A i \in 1 .. 1 : <<W[i - 1], q[i]>> \in A /\ W[i] = Landed(W[i - 1], q[i])
  BY <1>1, <1>2
<1>4. Goes(A, w, q, Landed(w, s)) BY <1>1, <1>2, <1>3, Zenon DEF Goes
<1> QED BY <1>4 DEF q

\* A plan after another.
LEMMA GoesJoin ==
  ASSUME NEW A, NEW w, NEW s, NEW x, NEW q, NEW z, Goes(A, w, s, x), Goes(A, x, q, z)
  PROVE  Goes(A, w, s \o q, z)
<1>1. PICK B \in [0 .. Len(s) -> Worlds] :
        /\ B[0] = w /\ B[Len(s)] = x
        /\ \A i \in 1 .. Len(s) : <<B[i - 1], s[i]>> \in A /\ B[i] = Landed(B[i - 1], s[i])
  BY Zenon DEF Goes
<1>2. PICK C \in [0 .. Len(q) -> Worlds] :
        /\ C[0] = x /\ C[Len(q)] = z
        /\ \A i \in 1 .. Len(q) : <<C[i - 1], q[i]>> \in A /\ C[i] = Landed(C[i - 1], q[i])
  BY Zenon DEF Goes
<1> DEFINE m == Len(s)
           l == Len(q)
           r == s \o q
           W == [i \in 0 .. m + l |-> IF i <= m THEN B[i] ELSE C[i - m]]
<1>3. m \in Nat /\ l \in Nat /\ s \in Seq(AllSteps) /\ q \in Seq(AllSteps) /\ z \in Worlds
  BY DEF Goes
<1>4. /\ r \in Seq(AllSteps) /\ Len(r) = m + l
      /\ \A i \in 1 .. m : r[i] = s[i]
      /\ \A i \in 1 .. l : r[m + i] = q[i]
  BY <1>3
<1> HIDE DEF m, l, r
<1>5. W \in [0 .. m + l -> Worlds] BY <1>1, <1>2, <1>3 DEF m, l
<1>6. \A i \in 0 .. m : W[i] = B[i] BY <1>3
<1>7. \A i \in 0 .. l : W[m + i] = C[i]
  <2> TAKE i \in 0 .. l
  <2>1. CASE i = 0
    <3>1. W[m + i] = B[m] BY <1>3, <2>1
    <3> QED BY <1>1, <1>2, <2>1, <3>1 DEF m
  <2>2. CASE i # 0
    <3>1. m + i \in 0 .. m + l /\ ~(m + i <= m) /\ (m + i) - m = i BY <1>3, <2>2
    <3> QED BY <3>1
  <2> QED BY <2>1, <2>2
<1> HIDE DEF W
<1>8. ASSUME NEW i \in 1 .. m + l
      PROVE  <<W[i - 1], r[i]>> \in A /\ W[i] = Landed(W[i - 1], r[i])
  <2>1. CASE i <= m
    <3>1. i \in 1 .. m /\ i \in 0 .. m /\ i - 1 \in 0 .. m BY <1>3, <2>1
    <3>2. W[i - 1] = B[i - 1] /\ W[i] = B[i] /\ r[i] = s[i] BY <1>4, <1>6, <3>1
    <3> QED BY <1>1, <3>1, <3>2 DEF m
  <2>2. CASE ~(i <= m)
    <3> DEFINE j == i - m
    <3>1. j \in 1 .. l /\ j \in 0 .. l /\ j - 1 \in 0 .. l /\ m + j = i /\ m + (j - 1) = i - 1
      BY <1>3, <2>2
    <3> HIDE DEF j
    <3>2. W[i - 1] = C[j - 1] /\ W[i] = C[j] /\ r[i] = q[j] BY <1>4, <1>7, <3>1, Zenon
    <3> QED BY <1>2, <3>1, <3>2 DEF l
  <2> QED BY <2>1, <2>2
<1>9. W[0] = w /\ W[m + l] = z
  <2>1. 0 \in 0 .. m /\ l \in 0 .. l BY <1>3
  <2> QED BY <1>1, <1>2, <1>6, <1>7, <2>1 DEF l
<1>10. Goes(A, w, r, z) BY <1>3, <1>4, <1>5, <1>8, <1>9, Zenon DEF Goes
<1> QED BY <1>10 DEF r

\* The first step, and the rest.
LEMMA GoesTail ==
  ASSUME NEW A, NEW w, NEW s, NEW z, Goes(A, w, s, z), s # <<>>
  PROVE  <<w, s[1]>> \in A /\ Goes(A, Landed(w, s[1]), Tail(s), z)
<1>1. PICK W \in [0 .. Len(s) -> Worlds] :
        /\ W[0] = w /\ W[Len(s)] = z
        /\ \A i \in 1 .. Len(s) : <<W[i - 1], s[i]>> \in A /\ W[i] = Landed(W[i - 1], s[i])
  BY Zenon DEF Goes
<1> DEFINE m == Len(s)
           q == Tail(s)
           V == [i \in 0 .. m - 1 |-> W[i + 1]]
<1>2. m \in Nat /\ m >= 1 /\ s \in Seq(AllSteps) /\ z \in Worlds BY DEF Goes
<1>3. /\ q \in Seq(AllSteps) /\ Len(q) = m - 1
      /\ \A i \in 1 .. m - 1 : q[i] = s[i + 1]
  BY <1>2
<1> HIDE DEF m, q
<1>4. V \in [0 .. m - 1 -> Worlds] /\ \A i \in 0 .. m - 1 : V[i] = W[i + 1] BY <1>1, <1>2 DEF m
<1> HIDE DEF V
<1>5. <<w, s[1]>> \in A /\ W[1] = Landed(w, s[1])
  <2>1. 1 \in 1 .. m /\ 1 - 1 = 0 BY <1>2
  <2> QED BY <1>1, <2>1 DEF m
<1>6. V[0] = Landed(w, s[1]) /\ V[m - 1] = z
  <2>1. 0 \in 0 .. m - 1 /\ m - 1 \in 0 .. m - 1 /\ (m - 1) + 1 = m /\ 0 + 1 = 1 BY <1>2
  <2> QED BY <1>1, <1>4, <1>5, <2>1 DEF m
<1>7. ASSUME NEW i \in 1 .. m - 1
      PROVE  <<V[i - 1], q[i]>> \in A /\ V[i] = Landed(V[i - 1], q[i])
  <2> DEFINE j == i + 1
  <2>1. j \in 1 .. m /\ j - 1 = i /\ i - 1 \in 0 .. m - 1 /\ i \in 0 .. m - 1 /\ (i - 1) + 1 = i
    BY <1>2
  <2>2. V[i - 1] = W[j - 1] /\ V[i] = W[j] /\ q[i] = s[j] BY <1>3, <1>4, <2>1
  <2> HIDE DEF j
  <2> QED BY <1>1, <2>1, <2>2 DEF m
<1>8. Goes(A, Landed(w, s[1]), q, z)
  BY <1>2, <1>3, <1>4, <1>6, <1>7, Zenon DEF Goes
<1> QED BY <1>5, <1>8 DEF q

\* A step that ends its operation.
Last(s) == [s EXCEPT !.post = NoPending]

\* It has the same effect.
LEMMA LastFields ==
  ASSUME NEW s \in AllSteps
  PROVE  /\ Last(s) \in AllSteps /\ Last(s).kind = s.kind /\ Last(s).pre = s.pre
         /\ Last(s).post = NoPending
         /\ s.kind = "fat" => Last(s).patch = s.patch
         /\ s.kind # "fat" => Last(s).file = s.file /\ Last(s).node = s.node
         /\ s.kind = "entry" => Last(s).to = s.to
         /\ \A w : Written(w, Last(s)) = Written(w, s) /\ Landed(w, Last(s)) = Landed(w, s)
<1> DEFINE q == Last(s)
<1>1. q \in AllSteps /\ q.kind = s.kind /\ q.pre = s.pre /\ q.post = NoPending
  BY PendingType DEF Last, AllSteps, FatSteps, EntrySteps, DataSteps
<1>2. /\ s.kind = "fat" => q.patch = s.patch
      /\ s.kind # "fat" => q.file = s.file /\ q.node = s.node
      /\ s.kind = "entry" => q.to = s.to
  BY DEF Last, AllSteps, FatSteps, EntrySteps, DataSteps
<1> HIDE DEF q
<1>3. ASSUME NEW w PROVE Written(w, q) = Written(w, s) /\ Landed(w, q) = Landed(w, s)
  <2>1. s.kind \in {"fat", "entry", "data"} BY DEF AllSteps, FatSteps, EntrySteps, DataSteps
  <2> QED BY <1>1, <1>2, <2>1 DEF Written, Landed
<1> QED BY <1>1, <1>2, <1>3 DEF q

\* The end of an operation clears what is pending.
LEMMA GoesFinish ==
  ASSUME NEW A, NEW w, NEW s, NEW z, Goes(A, w, s, z),
         \A v \in Worlds, d \in AllSteps : <<v, d>> \in A /\ Landed(v, d) = z => <<v, Last(d)>> \in A
  PROVE  Goes(A, w, Finished(s), z)
<1>1. PICK W \in [0 .. Len(s) -> Worlds] :
        /\ W[0] = w /\ W[Len(s)] = z
        /\ \A i \in 1 .. Len(s) : <<W[i - 1], s[i]>> \in A /\ W[i] = Landed(W[i - 1], s[i])
  BY Zenon DEF Goes
<1> DEFINE m == Len(s)
           q == Finished(s)
<1>2. m \in Nat /\ s \in Seq(AllSteps) /\ DOMAIN s = 1 .. m /\ z \in Worlds BY DEF Goes
<1>3. q = [i \in 1 .. m |-> IF i = m THEN Last(s[i]) ELSE s[i]]
  BY <1>2 DEF Finished, Last
<1> HIDE DEF m, q
<1>4. ASSUME NEW i \in 1 .. m
      PROVE  q[i] \in AllSteps /\ <<W[i - 1], q[i]>> \in A /\ W[i] = Landed(W[i - 1], q[i])
  <2>1. <<W[i - 1], s[i]>> \in A /\ W[i] = Landed(W[i - 1], s[i]) BY <1>1 DEF m
  <2>2. s[i] \in AllSteps /\ W[i - 1] \in Worlds
    <3>1. i - 1 \in 0 .. m BY <1>2
    <3> QED BY <1>1, <1>2, <3>1 DEF m
  <2>3. CASE i = m
    <3> DEFINE d == s[i]
               v == W[i - 1]
    <3>1. Landed(v, d) = z BY <1>1, <2>1, <2>3 DEF m
    <3>2. q[i] = Last(d) BY <1>3, <2>3
    <3>3. v \in Worlds /\ d \in AllSteps /\ <<v, d>> \in A /\ W[i] = Landed(v, d) BY <2>1, <2>2
    <3> HIDE DEF v, d
    <3>4. <<v, Last(d)>> \in A BY <3>1, <3>3
    <3>5. Landed(v, Last(d)) = Landed(v, d) /\ Last(d) \in AllSteps BY <3>3, LastFields
    <3> QED BY <3>2, <3>3, <3>4, <3>5 DEF v
  <2>4. CASE i # m
    <3>1. q[i] = s[i] BY <1>3, <2>4
    <3> QED BY <2>1, <2>2, <3>1
  <2> QED BY <2>3, <2>4
<1>5. q \in Seq(AllSteps) /\ Len(q) = m
  <2>1. \A i \in 1 .. m : q[i] \in AllSteps BY <1>4, Zenon
  <2>2. q \in [1 .. m -> AllSteps] BY <1>3, <2>1
  <2> QED BY <1>2, <2>2
<1>6. Goes(A, w, q, z) BY <1>1, <1>2, <1>4, <1>5, Zenon DEF Goes, m
<1> QED BY <1>6 DEF q

\* Freeing a path that nothing leads to.
LEMMA FreesGo ==
  ASSUME NEW A, NEW w, Good(w, NoPending), NEW q, Loose(w.table, w.entry, q),
         NEW keep, Kept(w.table, w.entry, q, keep), NEW s, Frees(s, q, keep),
         \A a, b \in Nat : a < b /\ b <= Len(q) /\ FreeStep(q, a, b, keep) \in AllSteps =>
            <<Freed(w, q, a), FreeStep(q, a, b, keep)>> \in A
  PROVE  Goes(A, w, s, Freed(w, q, Len(q)))
<1>1. PICK K \in Nat : \E b \in [0 .. K -> Nat] :
        /\ b[0] = 0 /\ b[K] = Len(q)
        /\ s = [k \in 1 .. K |-> FreeStep(q, b[k - 1], b[k], keep)]
        /\ \A k \in 1 .. K :
              /\ b[k - 1] < b[k] /\ b[k] <= Len(q)
              /\ \A i, j \in b[k - 1] + 1 .. b[k] : q[i] = q[j] \/ SameBlock(q[i], q[j])
  BY Zenon DEF Frees
<1>2. PICK b \in [0 .. K -> Nat] :
        /\ b[0] = 0 /\ b[K] = Len(q)
        /\ s = [k \in 1 .. K |-> FreeStep(q, b[k - 1], b[k], keep)]
        /\ \A k \in 1 .. K :
              /\ b[k - 1] < b[k] /\ b[k] <= Len(q)
              /\ \A i, j \in b[k - 1] + 1 .. b[k] : q[i] = q[j] \/ SameBlock(q[i], q[j])
  BY <1>1, Zenon
<1>3. w \in Worlds BY DEF Good
<1> DEFINE W == [k \in 0 .. K |-> Freed(w, q, b[k])]
<1>4. ASSUME NEW k \in 1 .. K
      PROVE  /\ s[k] \in AllSteps /\ <<W[k - 1], s[k]>> \in A /\ W[k] = Landed(W[k - 1], s[k])
             /\ W[k] \in Worlds
  <2>1. k - 1 \in 0 .. K /\ k \in 0 .. K OBVIOUS
  <2>2. b[k - 1] \in Nat /\ b[k] \in Nat BY <2>1
  <2>3. W[k - 1] = Freed(w, q, b[k - 1]) /\ W[k] = Freed(w, q, b[k]) BY <2>1
  <2>4. s[k] = FreeStep(q, b[k - 1], b[k], keep) BY <1>2
  <2> HIDE DEF W
  <2> DEFINE a == b[k - 1]
             c == b[k]
  <2>5. /\ a \in Nat /\ c \in Nat /\ a < c /\ c <= Len(q)
        /\ \A i, j \in a + 1 .. c : q[i] = q[j] \/ SameBlock(q[i], q[j])
    BY <1>2, <2>2, Zenon
  <2> HIDE DEF a, c
  <2>6. /\ Safe(Freed(w, q, a), FreeStep(q, a, c, keep)) /\ Good(Freed(w, q, c), NoPending)
        /\ Landed(Freed(w, q, a), FreeStep(q, a, c, keep)) = Freed(w, q, c)
    BY <2>5, FreeStepSafe
  <2>7. FreeStep(q, a, c, keep) \in AllSteps /\ Freed(w, q, c) \in Worlds BY <2>6 DEF Safe, Good
  <2>8. <<Freed(w, q, a), FreeStep(q, a, c, keep)>> \in A BY <2>5, <2>7
  <2> QED BY <2>3, <2>4, <2>6, <2>7, <2>8 DEF a, c
<1>5. W[0] = w /\ W[K] = Freed(w, q, Len(q))
  BY <1>2, <1>3, FreedNone
<1> HIDE DEF W
<1>6. \A k \in 0 .. K : W[k] \in Worlds
  <2> TAKE k \in 0 .. K
  <2>1. CASE k = 0 BY <1>3, <1>5, <2>1
  <2>2. CASE k # 0
    <3>1. k \in 1 .. K BY <2>2
    <3> QED BY <1>4, <3>1, Zenon
  <2> QED BY <2>1, <2>2
<1>7. W \in [0 .. K -> Worlds] BY <1>6 DEF W
<1>8. s \in Seq(AllSteps) /\ Len(s) = K
  <2>1. \A k \in 1 .. K : s[k] \in AllSteps BY <1>4, Zenon
  <2>2. s \in [1 .. K -> AllSteps] BY <1>2, <2>1
  <2> QED BY <2>2
<1>9. Goes(A, w, s, W[K])
  <2>1. \A i \in 1 .. Len(s) : <<W[i - 1], s[i]>> \in A /\ W[i] = Landed(W[i - 1], s[i])
    BY <1>4, <1>8
  <2>2. W \in [0 .. Len(s) -> Worlds] /\ W[0] = w /\ W[Len(s)] = W[K] BY <1>5, <1>7, <1>8
  <2>3. W[K] \in Worlds BY <1>6
  <2> QED BY <1>8, <2>1, <2>2, <2>3, Zenon DEF Goes
<1> QED BY <1>5, <1>9

\* Allocating a chain group by group.
LEMMA AllocsGo ==
  ASSUME NEW A, NEW w, Good(w, NoPending), NEW q, NEW tail, Fresh(w.table, w.entry, q, tail),
         NEW o, OwnerFor(o, tail), NEW M \in SUBSET ({tail} \ {0}), NEW s, Allocs(s, q, M, o),
         \A d, i \in 1 .. Len(q) + 1 : \A L \in SUBSET ({tail} \ {0}) :
            d < i /\ (L # {} => d = 1) /\ AllocStep(q, i, d, L, o) \in AllSteps =>
               <<AllocWorld(w, q, i, {}), AllocStep(q, i, d, L, o)>> \in A
  PROVE  Goes(A, w, s, AllocWorld(w, q, 1, M))
<1> DEFINE n == Len(q)
           N(k, K) == IF k = K THEN M ELSE {}
<1>1. PICK K \in Nat : \E b \in [0 .. K -> Nat] :
        /\ b[0] = Len(q) + 1 /\ b[K] = 1
        /\ s = [k \in 1 .. K |-> AllocStep(q, b[k - 1], b[k], IF k = K THEN M ELSE {}, o)]
        /\ \A k \in 1 .. K :
              /\ 1 <= b[k] /\ b[k] < b[k - 1] /\ b[k - 1] <= Len(q) + 1
              /\ {q[j] : j \in b[k] .. b[k - 1] - 1} \cup (IF k = K THEN M ELSE {}) \in Groups
  BY Zenon DEF Allocs
<1>2. PICK b \in [0 .. K -> Nat] :
        /\ b[0] = Len(q) + 1 /\ b[K] = 1
        /\ s = [k \in 1 .. K |-> AllocStep(q, b[k - 1], b[k], IF k = K THEN M ELSE {}, o)]
        /\ \A k \in 1 .. K :
              /\ 1 <= b[k] /\ b[k] < b[k - 1] /\ b[k - 1] <= Len(q) + 1
              /\ {q[j] : j \in b[k] .. b[k - 1] - 1} \cup (IF k = K THEN M ELSE {}) \in Groups
  BY <1>1, Zenon
<1>3. w \in Worlds /\ q \in Seq(Clusters) /\ n \in Nat /\ n >= 1 BY DEF Good, Fresh
<1>4. K # 0 BY <1>2, <1>3
<1> DEFINE W == [k \in 0 .. K |-> AllocWorld(w, q, b[k], N(k, K))]
<1>5. ASSUME NEW k \in 1 .. K
      PROVE  /\ s[k] \in AllSteps /\ W[k] \in Worlds
             /\ <<W[k - 1], s[k]>> \in A /\ W[k] = Landed(W[k - 1], s[k])
  <2>1. k - 1 \in 0 .. K /\ k \in 0 .. K /\ k - 1 # K OBVIOUS
  <2>2. b[k - 1] \in Nat /\ b[k] \in Nat BY <2>1
  <2>3. W[k - 1] = AllocWorld(w, q, b[k - 1], {}) /\ W[k] = AllocWorld(w, q, b[k], N(k, K)) BY <2>1
  <2>4. s[k] = AllocStep(q, b[k - 1], b[k], N(k, K), o) BY <1>2
  <2> HIDE DEF W
  <2> DEFINE i == b[k - 1]
             d == b[k]
             L == N(k, K)
  <2>5. /\ i \in Nat /\ d \in Nat /\ 1 <= d /\ d < i /\ i <= n + 1
        /\ {q[j] : j \in d .. i - 1} \cup L \in Groups
    BY <1>2, <2>2, Zenon
  <2>6. L \in SUBSET ({tail} \ {0}) /\ (L # {} => d = 1) BY <1>2
  <2> HIDE DEF i, d, L, n
  <2>7. /\ d \in 1 .. n /\ d \in 1 .. n + 1 /\ i \in 1 .. n + 1 /\ d <= i
        /\ {} \in SUBSET ({tail} \ {0}) /\ ({} # {} => i = 1)
    BY <1>3, <2>5
  <2> DEFINE p == Held(IF i = Len(q) + 1 THEN 0 ELSE q[i], q[d], o)
  <2>8. Good(AllocWorld(w, q, i, {}), p)
    BY <2>5, <2>7, AllocGood, Zenon DEF n
  <2>9. Good(AllocWorld(w, q, d, L), p)
    BY <2>5, <2>6, <2>7, AllocGood, Zenon DEF n
  <2> HIDE DEF p
  <2>a. Linking(q, d, i, L) \in Groups BY <2>5 DEF Linking
  <2>10. /\ Safe(AllocWorld(w, q, i, {}), FatStep(p, Links1(q, d, i, L), Held(q[d], 0, o)))
         /\ Landed(AllocWorld(w, q, i, {}), FatStep(p, Links1(q, d, i, L), Held(q[d], 0, o))) =
              AllocWorld(w, q, d, L)
    <3>1. d \in 1 .. Len(q) /\ i \in 1 .. Len(q) + 1 /\ d <= i BY <2>7 DEF n
    <3> HIDE DEF N
    <3> QED BY <3>1, <2>6, <2>8, <2>9, <2>a, AllocStepSafe
  <2> DEFINE x == AllocStep(q, i, d, L, o)
  <2>11. x = FatStep(p, Links1(q, d, i, L), Held(q[d], 0, o)) BY DEF AllocStep, p
  <2>12. s[k] = x /\ W[k - 1] = AllocWorld(w, q, i, {}) /\ W[k] = AllocWorld(w, q, d, L)
    BY <2>3, <2>4 DEF i, d, L
  <2>13. x \in AllSteps /\ AllocWorld(w, q, d, L) \in Worlds BY <2>9, <2>10, <2>11 DEF Safe, Good
  <2>14. <<AllocWorld(w, q, i, {}), x>> \in A
    <3>1. d \in 1 .. Len(q) + 1 /\ i \in 1 .. Len(q) + 1 /\ d < i BY <2>5, <2>7 DEF n
    <3> HIDE DEF N
    <3> QED BY <2>6, <2>13, <3>1
  <2> HIDE DEF x
  <2> QED BY <2>10, <2>11, <2>12, <2>13, <2>14
<1>6. W[0] = w /\ W[K] = AllocWorld(w, q, 1, M)
  BY <1>2, <1>3, <1>4, AllocNone
<1> HIDE DEF W
<1>7. W \in [0 .. K -> Worlds]
  <2>1. \A k \in 0 .. K : W[k] \in Worlds
    <3> TAKE k \in 0 .. K
    <3>1. CASE k = 0 BY <1>3, <1>6, <3>1
    <3>2. CASE k # 0
      <4>1. k \in 1 .. K BY <3>2
      <4> QED BY <1>5, <4>1, Zenon
    <3> QED BY <3>1, <3>2
  <2> QED BY <2>1 DEF W
<1>8. s \in Seq(AllSteps) /\ Len(s) = K
  <2>1. \A k \in 1 .. K : s[k] \in AllSteps BY <1>5, Zenon
  <2>2. s \in [1 .. K -> AllSteps] BY <1>2, <2>1
  <2> QED BY <2>2
<1>9. Goes(A, w, s, W[K])
  <2>1. \A i \in 1 .. Len(s) : <<W[i - 1], s[i]>> \in A /\ W[i] = Landed(W[i - 1], s[i])
    BY <1>5, <1>8
  <2>2. W \in [0 .. Len(s) -> Worlds] /\ W[0] = w /\ W[Len(s)] = W[K] BY <1>6, <1>7, <1>8
  <2>3. W[K] \in Worlds BY <1>7
  <2> QED BY <1>8, <2>1, <2>2, <2>3, Zenon DEF Goes
<1> QED BY <1>6, <1>9

\* What may be pending when the write that links the clusters of q from d up
\* to i is sent.
AllocHeld(q, i, d, o) ==
    (IF d < i THEN {Held(IF i = Len(q) + 1 THEN 0 ELSE q[i], q[d], o)} ELSE {})
    \cup (IF i \in {d, Len(q) + 1} THEN {Held(q[d], 0, o)} ELSE {})

\* A holds every write that allocates q from w.
Allocates(A, w, q, tail, o) ==
    \A d \in 1 .. Len(q), i \in 1 .. Len(q) + 1 : \A L \in SUBSET ({tail} \ {0}) :
        \A p \in AllocHeld(q, i, d, o) :
            LET s == FatStep(p, Links1(q, d, i, L), Held(q[d], 0, o))
            IN  (L # {} => d = 1) /\ s \in AllSteps => <<AllocWorld(w, q, i, {}), s>> \in A

\* One of these writes.
LEMMA AllocStepGoes ==
  ASSUME NEW A, NEW w, Good(w, NoPending), NEW q, NEW tail, Fresh(w.table, w.entry, q, tail),
         NEW o, OwnerFor(o, tail), Allocates(A, w, q, tail, o),
         NEW d \in 1 .. Len(q), NEW i \in 1 .. Len(q) + 1, d <= i,
         NEW L \in SUBSET ({tail} \ {0}), L # {} => d = 1,
         Linking(q, d, i, L) \in Groups,
         NEW p \in AllocHeld(q, i, d, o)
  PROVE  LET s == FatStep(p, Links1(q, d, i, L), Held(q[d], 0, o))
         IN  /\ Goes(A, AllocWorld(w, q, i, {}), <<s>>, AllocWorld(w, q, d, L))
             /\ s \in AllSteps
<1> DEFINE s == FatStep(p, Links1(q, d, i, L), Held(q[d], 0, o))
           v == AllocWorld(w, q, i, {})
           u == AllocWorld(w, q, d, L)
           n == Len(q)
<1>0. n \in Nat BY DEF Fresh
<1>1. d \in 1 .. n + 1 /\ {} \in SUBSET ({tail} \ {0}) /\ ({} # {} => i = 1) /\ d <= n BY <1>0
<1>2. Good(u, Held(q[d], 0, o)) BY <1>1, AllocGood
<1>3. Good(v, p) /\ Good(u, p)
  <2>1. CASE d < i /\ p = Held(IF i = n + 1 THEN 0 ELSE q[i], q[d], o)
    <3>1. Good(v, p) BY <1>1, <2>1, AllocGood
    <3>2. Good(u, p) BY <1>1, <2>1, AllocGood, Zenon
    <3> QED BY <3>1, <3>2
  <2>2. CASE p = Held(q[d], 0, o) /\ i = d BY <1>1, <1>2, <2>2, AllocGood
  <2>3. CASE p = Held(q[d], 0, o) /\ d < i BY <1>1, <1>2, <2>3, AllocGood
  <2>4. d = i \/ d < i BY <1>0
  <2> QED BY <2>1, <2>2, <2>3, <2>4 DEF AllocHeld
<1>4. Safe(v, s) /\ Landed(v, s) = u BY <1>3, AllocStepSafe
<1>5. s \in AllSteps /\ v \in Worlds /\ Landed(v, s) \in Worlds BY <1>2, <1>3, <1>4 DEF Safe, Good
<1>6. <<v, s>> \in A BY <1>5 DEF Allocates
<1> HIDE DEF s, v, u
<1>7. Goes(A, v, <<s>>, u) BY <1>4, <1>5, <1>6, GoesOne
<1> QED BY <1>5, <1>7 DEF s, v, u

\* The write that links the chain q from its tail.
LEMMA TailLinkGoes ==
  ASSUME NEW A, NEW w, Good(w, NoPending), NEW q, NEW tail, Fresh(w.table, w.entry, q, tail), tail # 0,
         NEW o, OwnerFor(o, tail), Allocates(A, w, q, tail, o)
  PROVE  LET held == Held(q[1], 0, o)
         IN  Goes(A, AllocWorld(w, q, 1, {}), <<FatStep(held, [x \in {tail} |-> q[1]], held)>>,
                  AllocWorld(w, q, 1, {tail}))
<1> DEFINE held == Held(q[1], 0, o)
           L == {tail}
<1>1. Len(q) \in Nat /\ Len(q) >= 1 /\ tail \in Clusters BY DEF Fresh
<1>2. /\ 1 \in 1 .. Len(q) /\ 1 \in 1 .. Len(q) + 1 /\ 1 <= 1
      /\ L \in SUBSET ({tail} \ {0}) /\ (L # {} => 1 = 1)
  BY <1>1
<1>3. \A j \in 1 .. 1 - 1 : FALSE OBVIOUS
<1>4. Linking(q, 1, 1, L) \in Groups
  <2>1. Linking(q, 1, 1, L) = L BY <1>3 DEF Linking
  <2> QED BY <1>1, <2>1, SingleGroup, Zenon
<1>5. Links1(q, 1, 1, L) = [x \in {tail} |-> q[1]]
  <2>1. {q[j] : j \in 1 .. 1 - 1} \cup L = {tail} BY <1>3
  <2> QED BY <2>1 DEF Links1
<1>6. held \in AllocHeld(q, 1, 1, o) BY DEF AllocHeld
<1> HIDE DEF L, held
<1>7. Goes(A, AllocWorld(w, q, 1, {}), <<FatStep(held, Links1(q, 1, 1, L), Held(q[1], 0, o))>>,
           AllocWorld(w, q, 1, L))
  BY <1>2, <1>4, <1>6, AllocStepGoes
<1> QED BY <1>5, <1>7 DEF held, L

\* allocate and allocate_after
LEMMA AllocateOneGoes ==
  ASSUME NEW A, NEW w, Good(w, NoPending), NEW q, Len(q) = 1, NEW tail, Fresh(w.table, w.entry, q, tail),
         NEW o, OwnerFor(o, tail), Allocates(A, w, q, tail, o)
  PROVE  Goes(A, w, AllocateOne(q[1], tail, o), AllocWorld(w, q, 1, {tail} \ {0}))
<1> DEFINE c == q[1]
           held == Held(c, 0, o)
<1>1. /\ q \in Seq(Clusters) /\ c \in Clusters /\ w \in Worlds /\ tail \in Clusters \cup {0}
      /\ (tail # 0 => c # tail)
  <2>1. q \in Seq(Clusters) /\ c \in Clusters /\ w \in Worlds /\ tail \in Clusters \cup {0} BY DEF Fresh, Good
  <2>2. 1 \in 1 .. Len(q) OBVIOUS
  <2> HIDE DEF c
  <2>3. w.table[c] = Free /\ (tail # 0 => w.table[tail] = EOC) BY <2>2 DEF Fresh, c
  <2> QED BY <2>1, <2>3, Numbers
<1>2. 1 \in 1 .. Len(q) /\ 2 \in 1 .. Len(q) + 1 /\ 1 <= 2 /\ Len(q) + 1 = 2 OBVIOUS
<1>3. AllocWorld(w, q, 2, {}) = w
  <2>1. AllocWorld(w, q, Len(q) + 1, {}) = w BY <1>1, AllocNone, Zenon
  <2> QED BY <1>2, <2>1
<1>4. held \in AllocHeld(q, 2, 1, o) BY <1>2 DEF AllocHeld
<1>5. ASSUME NEW L \in SUBSET ({tail} \ {0}), {c} \cup L \in Groups
      PROVE  LET s == FatStep(held, [x \in {c} \cup L |-> IF x = c THEN EOC ELSE c], held)
             IN  Goes(A, w, <<s>>, AllocWorld(w, q, 1, L)) /\ s \in AllSteps
  <2>1. L \in SUBSET Clusters /\ c \notin L BY <1>1
  <2>2. /\ Links1(q, 1, 2, L) = [x \in {q[1]} \cup L |-> IF x = q[1] THEN EOC ELSE q[1]]
        /\ {q[j] : j \in 1 .. 2 - 1} \cup L = {q[1]} \cup L
    BY <1>1, <2>1, OneLinks, Zenon
  <2>3. Linking(q, 1, 2, L) \in Groups BY <1>5, <2>2 DEF Linking
  <2>4. L # {} => 1 = 1 OBVIOUS
  <2> HIDE DEF held, c
  <2> DEFINE s == FatStep(held, Links1(q, 1, 2, L), Held(q[1], 0, o))
  <2>5. /\ Goes(A, AllocWorld(w, q, 2, {}), <<s>>, AllocWorld(w, q, 1, L)) /\ s \in AllSteps
    BY <1>2, <1>4, <2>3, <2>4, AllocStepGoes
  <2> QED BY <1>3, <2>2, <2>5 DEF held, c
<1>6. CASE tail # 0 /\ SameBlock(tail, c)
  <2>1. {c} \cup {tail} \in Groups BY <1>1, <1>6 DEF Groups, SameBlock
  <2>2. {tail} \ {0} = {tail} /\ {c} \cup {tail} = {c, tail} BY <1>6
  <2>3. AllocateOne(c, tail, o) = <<FatStep(held, [x \in {c, tail} |-> IF x = c THEN EOC ELSE c], held)>>
    BY <1>6 DEF AllocateOne
  <2> HIDE DEF c, held
  <2>4. Goes(A, w, <<FatStep(held, [x \in {c} \cup {tail} |-> IF x = c THEN EOC ELSE c], held)>>,
             AllocWorld(w, q, 1, {tail}))
    BY <1>5, <2>1, <2>2
  <2> QED BY <2>2, <2>3, <2>4 DEF c
<1>7. CASE ~(tail # 0 /\ SameBlock(tail, c))
  <2> DEFINE s == FatStep(held, [x \in {c} |-> EOC], held)
             r == IF tail = 0 THEN <<>> ELSE <<FatStep(held, [x \in {tail} |-> c], held)>>
  <2>1. AllocateOne(c, tail, o) = <<s>> \o r BY <1>7 DEF AllocateOne
  <2>2. Goes(A, w, <<s>>, AllocWorld(w, q, 1, {})) /\ s \in AllSteps
    <3>1. {c} \cup {} = {c} /\ {c} \cup {} \in Groups BY <1>1, SingleGroup
    <3>2. [x \in {c} \cup {} |-> IF x = c THEN EOC ELSE c] = [x \in {c} |-> EOC] BY <3>1
    <3> HIDE DEF c, held
    <3> DEFINE d == FatStep(held, [x \in {c} \cup {} |-> IF x = c THEN EOC ELSE c], held)
    <3>3. Goes(A, w, <<d>>, AllocWorld(w, q, 1, {})) /\ d \in AllSteps
      BY <1>5, <3>1
    <3> QED BY <3>2, <3>3
  <2>3. CASE tail = 0
    <3>1. {tail} \ {0} = {} /\ r = <<>> BY <2>3
    <3> HIDE DEF s, r
    <3>2. <<s>> \o r = <<s>> BY <3>1, <2>2
    <3> HIDE DEF c
    <3> QED BY <2>1, <2>2, <3>1, <3>2, Zenon DEF c
  <2>4. CASE tail # 0
    <3>1. {tail} \ {0} = {tail} /\ r = <<FatStep(held, [x \in {tail} |-> c], held)>> BY <2>4
    <3>2. Goes(A, AllocWorld(w, q, 1, {}), r, AllocWorld(w, q, 1, {tail})) BY <2>4, <3>1, TailLinkGoes, Zenon
    <3> HIDE DEF s, r, c
    <3>3. Goes(A, w, <<s>> \o r, AllocWorld(w, q, 1, {tail})) BY <2>2, <3>2, GoesJoin
    <3> QED BY <2>1, <3>1, <3>3 DEF c
  <2> QED BY <2>3, <2>4
<1> QED BY <1>6, <1>7

\* allocate_run and allocate_run_after
LEMMA AllocateGoes ==
  ASSUME NEW A, NEW w, Good(w, NoPending), NEW q, NEW tail, Fresh(w.table, w.entry, q, tail),
         NEW o, OwnerFor(o, tail), Allocates(A, w, q, tail, o)
  PROVE  Goes(A, w, Allocate(q, tail, o), AllocWorld(w, q, 1, {tail} \ {0}))
<1>1. CASE Len(q) = 1 BY <1>1, AllocateOneGoes DEF Allocate
<1>2. CASE Len(q) # 1
  <2> DEFINE held == Held(q[1], 0, o)
             M == Merged(q, tail)
             r == LinkLast(q, tail, o)
  <2>1. /\ q \in Seq(Clusters) /\ q # <<>> /\ tail \in Clusters \cup {0} /\ Len(q) \in Nat
        /\ \A i, j \in 1 .. Len(q) : q[i] = q[j] => i = j
    BY DEF Fresh
  <2>2. \A i \in 1 .. Len(q) : q[i] # tail BY Numbers DEF Fresh
  <2>3. PICK s : Allocs(s, q, M, o) /\ AllocateMany(q, tail, o) = s \o r
    BY <2>1, <2>2, ManyAllocs, Zenon
  <2>4. M \in SUBSET ({tail} \ {0}) BY DEF Merged
  <2> HIDE DEF M
  <2>a. ASSUME NEW d \in 1 .. Len(q) + 1, NEW i \in 1 .. Len(q) + 1, NEW L \in SUBSET ({tail} \ {0}),
               d < i, L # {} => d = 1, AllocStep(q, i, d, L, o) \in AllSteps
        PROVE  <<AllocWorld(w, q, i, {}), AllocStep(q, i, d, L, o)>> \in A
    <3> DEFINE p == Held(IF i = Len(q) + 1 THEN 0 ELSE q[i], q[d], o)
    <3>1. d \in 1 .. Len(q) BY <2>1, <2>a
    <3>2. p \in AllocHeld(q, i, d, o) BY <2>a DEF AllocHeld
    <3>3. AllocStep(q, i, d, L, o) = FatStep(p, Links1(q, d, i, L), Held(q[d], 0, o)) BY DEF AllocStep
    <3> HIDE DEF p
    <3> QED BY <2>a, <3>1, <3>2, <3>3 DEF Allocates
  <2>5. Goes(A, w, s, AllocWorld(w, q, 1, M)) BY <2>3, <2>4, <2>a, AllocsGo, Zenon
  <2>6. CASE tail = 0 \/ SameBlock(tail, q[1])
    <3>1. r = <<>> /\ M = {tail} \ {0} BY <2>6 DEF M, Merged, LinkLast
    <3>2. s \o <<>> = s
      <4>1. s \in Seq(AllSteps) BY <2>5 DEF Goes
      <4> QED BY <4>1
    <3> QED BY <1>2, <2>3, <2>5, <3>1, <3>2 DEF Allocate
  <2>7. CASE ~(tail = 0 \/ SameBlock(tail, q[1]))
    <3>1. /\ r = <<FatStep(held, [x \in {tail} |-> q[1]], held)>> /\ M = {} /\ tail # 0
          /\ {tail} \ {0} = {tail}
      BY <2>7 DEF M, Merged, LinkLast
    <3> HIDE DEF r
    <3>a. tail # 0 BY <3>1
    <3>b. Goes(A, AllocWorld(w, q, 1, {}), <<FatStep(held, [x \in {tail} |-> q[1]], held)>>,
               AllocWorld(w, q, 1, {tail}))
      BY <3>a, TailLinkGoes, Zenon
    <3>2. Goes(A, AllocWorld(w, q, 1, {}), r, AllocWorld(w, q, 1, {tail})) BY <3>1, <3>b
    <3>3. Goes(A, w, s \o r, AllocWorld(w, q, 1, {tail})) BY <2>5, <3>1, <3>2, GoesJoin
    <3> QED BY <1>2, <2>3, <3>1, <3>3, Zenon DEF Allocate, r
  <2> QED BY <2>6, <2>7
<1> QED BY <1>1, <1>2

-----------------------------------------------------------------------------
(* Cover. *)

\* The first clusters of the files.
Roots(e) == {e[f].first : f \in {f \in Files : e[f].used}} \ {0}
\* The clusters that recovery starts from.
Marked(p) == {p.head, p.extra} \ {0}

\* Every cluster in use can be reached from R, unless it is in L.
Covered(t, R, L) ==
    \A S \in SUBSET Clusters :
        R \subseteq S /\ Closed(t, S) => \A c \in Clusters : t[c] # Free => c \in S \cup L

\* Recovery finds the head from the extra cluster.
Joined(t, p) ==
    p.extra # 0 /\ t[p.extra] # Free /\ p.head # 0 /\ t[p.head] # Free => Reaches(t, p.extra, p.head)

\* Recovery has nothing to free: the entry does not record the shrink, or will
\* not once its node is written, or the entry has the chain.
Settled(w, p) ==
    LET o == p.owner
    IN  \/ /\ o.kind = "cut"
           /\ w.node[o.file].dirty \/ ~(w.entry[o.file].used /\ w.entry[o.file].size = o.size)
        \/ /\ o.kind \in {"entry", "removed"} /\ p.head # 0
           /\ w.entry[o.file].used /\ w.entry[o.file].first = p.head

\* What is pending is enough to find every cluster in use that is in no file.
Snug(w, p, L) ==
    /\ Covered(w.table, Roots(w.entry) \cup Marked(p), L)
    /\ Joined(w.table, p)
    /\ Settled(w, p) => Covered(w.table, Roots(w.entry), L)

\* Wherever a step is cut, no cluster in use is left out.
Tight(w, s, L) ==
    Snug(w, s.pre, L) /\ Snug(Written(w, s), s.pre, L) /\ Snug(Landed(w, s), s.post, L)
Tights(L) == {x \in Worlds \X AllSteps : Tight(x[1], x[2], L)}

\* The steps in question.
LEMMA TightIn ==
  ASSUME NEW w \in Worlds, NEW s \in AllSteps, NEW L
  PROVE  <<w, s>> \in Tights(L) <=> Tight(w, s, L)
  BY DEF Tights

\* Roots and marks are clusters.
LEMMA RootsType ==
  ASSUME NEW e \in [Files -> Entries]
  PROVE  Roots(e) \in SUBSET Clusters /\ \A f \in Files : e[f].used /\ e[f].first # 0 => e[f].first \in Roots(e)
<1>1. \A f \in Files : e[f].first \in Clusters \cup {0} BY DEF Entries
<1> QED BY <1>1 DEF Roots

\* More to start from covers as much.
LEMMA CoverMore ==
  ASSUME NEW t, NEW R, NEW L, Covered(t, R, L), NEW Q, R \subseteq Q
  PROVE  Covered(t, Q, L)
  BY DEF Covered

\* Q leads to c, unless c is free.
Leads(t, Q, c) == c \in Q \/ (c \in Clusters /\ t[c] = Free) \/ \E a \in Q : Reaches(t, a, c)

\* What is free, or can be reached, is not needed to start from.
LEMMA CoverLess ==
  ASSUME NEW t, NEW R, NEW L, Covered(t, R, L), NEW Q, \A c \in R : Leads(t, Q, c)
  PROVE  Covered(t, Q, L)
<1> SUFFICES ASSUME NEW S \in SUBSET Clusters, Q \subseteq S, Closed(t, S), NEW c \in Clusters, t[c] # Free
             PROVE  c \in S \cup L
  BY DEF Covered
<1> DEFINE F == {d \in Clusters : t[d] = Free}
           T == S \cup F
<1>1. T \in SUBSET Clusters OBVIOUS
<1>2. Closed(t, T)
  <2> SUFFICES ASSUME NEW d \in T, t[d] \in Clusters PROVE t[d] \in T BY DEF Closed
  <2>1. d \notin F BY Numbers
  <2> QED BY <2>1 DEF Closed
<1>3. R \subseteq T
  <2> SUFFICES ASSUME NEW d \in R PROVE d \in T OBVIOUS
  <2>1. CASE \E a \in Q : Reaches(t, a, d) BY <2>1 DEF Reaches
  <2> QED BY <2>1 DEF Leads
<1>4. c \in T \cup L BY <1>1, <1>2, <1>3 DEF Covered
<1> QED BY <1>4

\* A link is cut that leads to what is started from.
LEMMA CoverCut ==
  ASSUME NEW t, NEW u, NEW Q, NEW L, Covered(t, Q, L), NEW A,
         \A c \in Clusters : u[c] = IF c \in A THEN EOC ELSE t[c],
         \A a \in A : t[a] # Free /\ (t[a] \in Clusters => t[a] \in Q)
  PROVE  Covered(u, Q, L)
<1> SUFFICES ASSUME NEW S \in SUBSET Clusters, Q \subseteq S, Closed(u, S), NEW c \in Clusters, u[c] # Free
             PROVE  c \in S \cup L
  BY DEF Covered
<1>1. Closed(t, S)
  <2> SUFFICES ASSUME NEW d \in S, t[d] \in Clusters PROVE t[d] \in S BY DEF Closed
  <2>1. CASE d \in A BY <2>1
  <2>2. CASE d \notin A
    <3>1. u[d] = t[d] BY <2>2
    <3> QED BY <3>1 DEF Closed
  <2> QED BY <2>1, <2>2
<1>2. t[c] # Free
  <2>1. CASE c \in A BY <2>1
  <2>2. CASE c \notin A BY <2>2
  <2> QED BY <2>1, <2>2
<1> QED BY <1>1, <1>2 DEF Covered

\* Clusters are freed that lead to what is started from.
LEMMA CoverFreed ==
  ASSUME NEW t, NEW D \in SUBSET Clusters, NEW R, NEW L, Covered(t, R, L),
         NEW Q, R \subseteq Q \cup D,
         \A c \in D : t[c] \in Clusters => t[c] \in D \cup Q
  PROVE  Covered(FreedTable(t, D), Q, L)
<1> DEFINE u == FreedTable(t, D)
<1>0. \A c \in Clusters : u[c] = IF c \in D THEN Free ELSE t[c] BY DEF FreedTable
<1> HIDE DEF u
<1> SUFFICES ASSUME NEW S \in SUBSET Clusters, Q \subseteq S, Closed(u, S), NEW c \in Clusters, u[c] # Free
             PROVE  c \in S \cup L
  BY DEF Covered, u
<1> DEFINE T == S \cup D
<1>1. T \in SUBSET Clusters /\ R \subseteq T OBVIOUS
<1>2. Closed(t, T)
  <2> SUFFICES ASSUME NEW d \in T, t[d] \in Clusters PROVE t[d] \in T BY DEF Closed
  <2>1. CASE d \in D BY <2>1
  <2>2. CASE d \notin D
    <3>1. u[d] = t[d] /\ d \in S BY <1>0, <2>2
    <3> QED BY <3>1 DEF Closed
  <2> QED BY <2>1, <2>2
<1>3. c \notin D /\ t[c] # Free BY <1>0
<1>4. c \in T \cup L BY <1>1, <1>2, <1>3 DEF Covered
<1> QED BY <1>3, <1>4

\* A chain is allocated that is started from.
LEMMA CoverAlloc ==
  ASSUME NEW t, NEW e, NEW q, NEW tail, Fresh(t, e, q, tail),
         NEW d \in 1 .. Len(q) + 1, NEW M \in SUBSET ({tail} \ {0}), M # {} => d = 1,
         NEW R, NEW L, Covered(t, R, L), NEW Q, R \subseteq Q, d <= Len(q) => q[d] \in Q
  PROVE  /\ Covered(Allocated(t, q, d, M), Q, L)
         /\ \A i \in 1 .. Len(q) : d <= i => Reaches(Allocated(t, q, d, M), q[d], q[i])
<1> DEFINE u == Allocated(t, q, d, M)
           n == Len(q)
<1>1. /\ \A i \in 1 .. n : u[q[i]] = IF i < d THEN Free ELSE After(q, i)
      /\ \A c \in Clusters : (\A i \in 1 .. n : q[i] # c) => u[c] = IF c \in M THEN q[1] ELSE t[c]
  BY AllocatedFacts
<1>2. q \in Seq(Clusters) /\ n \in Nat /\ \A i \in 1 .. n : t[q[i]] = Free /\ q[i] \in Clusters BY DEF Fresh
<1>3. \A c \in M : t[c] = EOC BY DEF Fresh
<1> HIDE DEF u, n
<1>4. ASSUME NEW i \in 1 .. n, d <= i PROVE Reaches(u, q[d], q[i])
  <2>1. d \in 1 .. n BY <1>2, <1>4
  <2>2. ASSUME NEW k \in d .. i - 1 PROVE u[q[k]] = q[k + 1]
    <3>1. k \in 1 .. n /\ ~(k < d) /\ k # n BY <1>2, <1>4, <2>1
    <3> QED BY <1>1, <3>1 DEF After, n
  <2> QED BY <1>2, <1>4, <2>1, <2>2, LinksReach, Zenon DEF n
<1>5. ASSUME NEW S \in SUBSET Clusters, Q \subseteq S, Closed(u, S), NEW c \in Clusters, u[c] # Free
      PROVE  c \in S \cup L
  <2>1. Closed(t, S)
    <3> SUFFICES ASSUME NEW b \in S, t[b] \in Clusters PROVE t[b] \in S BY DEF Closed
    <3>1. \A i \in 1 .. n : q[i] # b BY <1>2, Numbers
    <3>2. b \notin M BY <1>3, Numbers
    <3>3. u[b] = t[b] BY <1>1, <3>1, <3>2
    <3> QED BY <1>5, <3>3 DEF Closed
  <2>2. CASE \E i \in 1 .. n : q[i] = c
    <3>1. PICK i \in 1 .. n : q[i] = c BY <2>2
    <3>2. ~(i < d) BY <1>1, <1>5, <3>1
    <3>3. d <= i /\ d <= n BY <1>2, <3>2
    <3>4. q[d] \in S BY <1>5, <3>3 DEF n
    <3> QED BY <1>4, <1>5, <3>1, <3>3, <3>4 DEF Reaches
  <2>3. CASE ~\E i \in 1 .. n : q[i] = c
    <3>1. u[c] = IF c \in M THEN q[1] ELSE t[c] BY <1>1, <2>3
    <3>2. t[c] # Free BY <1>3, <1>5, <3>1, Numbers
    <3>3. R \subseteq S BY <1>5
    <3> QED BY <2>1, <3>2, <3>3 DEF Covered
  <2> QED BY <2>2, <2>3
<1>6. Covered(u, Q, L) BY <1>5 DEF Covered
<1> QED BY <1>4, <1>6 DEF u, n

\* With every cluster in use in a file, what is pending does not matter.
LEMMA SnugAny ==
  ASSUME NEW w, NEW p, NEW L, Covered(w.table, Roots(w.entry), L), Joined(w.table, p)
  PROVE  Snug(w, p, L)
<1>1. Roots(w.entry) \subseteq Roots(w.entry) \cup Marked(p) OBVIOUS
<1>2. Covered(w.table, Roots(w.entry) \cup Marked(p), L) BY <1>1, CoverMore
<1> QED BY <1>2 DEF Snug

\* Without an extra cluster there is nothing to find from it.
LEMMA JoinedHead ==
  ASSUME NEW t, NEW p, p.extra = 0
  PROVE  Joined(t, p)
  BY DEF Joined

\* Nothing pending.
LEMMA SnugNone ==
  ASSUME NEW w, NEW L
  PROVE  Snug(w, NoPending, L) <=> Covered(w.table, Roots(w.entry), L)
<1>1. Marked(NoPending) = {} BY PendingType DEF Marked
<1>2. Roots(w.entry) \cup Marked(NoPending) = Roots(w.entry) BY <1>1
<1>3. Joined(w.table, NoPending) BY JoinedHead, PendingType
<1>4. ~Settled(w, NoPending) BY PendingType DEF Settled
<1> QED BY <1>2, <1>3, <1>4 DEF Snug

\* A node that no longer is to be written settles less.
LEMMA SnugNode ==
  ASSUME NEW w, NEW v, NEW p \in Pendings, NEW L, Snug(w, p, L), v.table = w.table, v.entry = w.entry,
         \A f \in Files : v.node[f].dirty => w.node[f].dirty
  PROVE  Snug(v, p, L)
<1>1. p.owner \in Owners BY DEF Pendings
<1>2. p.owner.kind = "cut" => p.owner.file \in Files BY <1>1, OwnerParts
<1>3. Settled(v, p) => Settled(w, p) BY <1>2 DEF Settled
<1> QED BY <1>3 DEF Snug

\* The last step of a plan may clear what is pending.
LEMMA TightLast ==
  ASSUME NEW L, NEW z, Snug(z, NoPending, L), NEW v \in Worlds, NEW d \in AllSteps,
         <<v, d>> \in Tights(L), Landed(v, d) = z
  PROVE  <<v, Last(d)>> \in Tights(L)
<1>1. /\ Last(d) \in AllSteps /\ Last(d).pre = d.pre /\ Last(d).post = NoPending
      /\ Written(v, Last(d)) = Written(v, d) /\ Landed(v, Last(d)) = Landed(v, d)
  BY LastFields
<1>2. Tight(v, d, L) BY TightIn
<1>3. Tight(v, Last(d), L) BY <1>1, <1>2 DEF Tight
<1> QED BY <1>1, <1>3, TightIn

\* What an entry starts.
LEMMA RootsPut ==
  ASSUME NEW e \in [Files -> Entries], NEW f \in Files, NEW to \in Entries
  PROVE  LET x == [e EXCEPT ![f] = to]
         IN  /\ x \in [Files -> Entries]
             /\ Roots(e) \subseteq Roots(x) \cup ({e[f].first} \ {0})
             /\ ~e[f].used \/ e[f].first = 0 \/ (to.used /\ to.first = e[f].first) => Roots(e) \subseteq Roots(x)
             /\ to.used /\ to.first # 0 => to.first \in Roots(x)
             /\ ~e[f].used => Roots(e) \subseteq Roots(x)
<1> DEFINE x == [e EXCEPT ![f] = to]
<1>1. x \in [Files -> Entries] /\ x[f] = to /\ \A g \in Files : g # f => x[g] = e[g] OBVIOUS
<1> HIDE DEF x
<1>2. ASSUME NEW c \in Roots(e), c \notin Roots(x) PROVE e[f].used /\ e[f].first = c /\ c # 0
  <2>1. PICK g \in Files : e[g].used /\ e[g].first = c /\ c # 0 BY DEF Roots
  <2>2. g = f
    <3> SUFFICES ASSUME g # f PROVE FALSE OBVIOUS
    <3>1. x[g] = e[g] BY <1>1
    <3> QED BY <1>2, <2>1, <3>1 DEF Roots
  <2> QED BY <2>1, <2>2
<1>3. to.used /\ to.first # 0 => to.first \in Roots(x) BY <1>1 DEF Roots
<1> QED BY <1>1, <1>2, <1>3, Zenon DEF x

-----------------------------------------------------------------------------
(* Plans that leave no cluster out. *)

\* A write of FAT entries.
LEMMA FatTight ==
  ASSUME NEW w \in Worlds, NEW p, NEW d, NEW r, NEW L, FatStep(p, d, r) \in AllSteps,
         Snug(w, p, L), Snug(Landed(w, FatStep(p, d, r)), p, L), Snug(Landed(w, FatStep(p, d, r)), r, L)
  PROVE  <<w, FatStep(p, d, r)>> \in Tights(L)
<1> DEFINE s == FatStep(p, d, r)
<1>1. s.kind = "fat" /\ s.pre = p /\ s.post = r BY FatStepFields
<1> HIDE DEF s
<1>2. Written(w, s) = Landed(w, s) BY <1>1 DEF Written, Landed
<1>3. Tight(w, s, L) BY <1>1, <1>2 DEF Tight, s
<1>4. s \in AllSteps BY DEF s
<1>5. <<w, s>> \in Tights(L) BY <1>3, <1>4, TightIn
<1> QED BY <1>5 DEF s

\* A write of an entry, ...
LEMMA EntryTight ==
  ASSUME NEW w \in Worlds, NEW p, NEW f \in Files, NEW to, NEW k, NEW r, NEW L,
         EntryStep(p, f, to, k, r) \in AllSteps,
         Snug(w, p, L), Snug(Put(w, f, to, w.node[f]), p, L), Snug(Put(w, f, to, k), r, L)
  PROVE  <<w, EntryStep(p, f, to, k, r)>> \in Tights(L)
<1> DEFINE s == EntryStep(p, f, to, k, r)
<1>1. s.kind = "entry" /\ s.pre = p /\ s.file = f /\ s.to = to /\ s.node = k /\ s.post = r BY DEF EntryStep
<1> HIDE DEF s
<1>2. [w.node EXCEPT ![f] = w.node[f]] = w.node BY SameEntry, Zenon
<1>3. Written(w, s) = Put(w, f, to, w.node[f]) BY <1>1, <1>2 DEF Written, Put
<1>4. Landed(w, s) = Put(w, f, to, k) BY <1>1 DEF Landed, Put
<1>5. Tight(w, s, L) BY <1>1, <1>3, <1>4 DEF Tight
<1>6. s \in AllSteps BY DEF s
<1>7. <<w, s>> \in Tights(L) BY <1>5, <1>6, TightIn
<1> QED BY <1>7 DEF s

\* ... and of data.
LEMMA DataTight ==
  ASSUME NEW w \in Worlds, NEW p, NEW f \in Files, NEW k, NEW r, NEW L,
         DataStep(p, f, k, r) \in AllSteps,
         Snug(w, p, L), Snug(Put(w, f, w.entry[f], k), r, L)
  PROVE  <<w, DataStep(p, f, k, r)>> \in Tights(L)
<1> DEFINE s == DataStep(p, f, k, r)
<1>1. s.kind = "data" /\ s.pre = p /\ s.file = f /\ s.node = k /\ s.post = r BY DEF DataStep
<1> HIDE DEF s
<1>2. [w.entry EXCEPT ![f] = w.entry[f]] = w.entry BY SameEntry, Zenon
<1>3. Written(w, s).table = w.table /\ Written(w, s).entry = w.entry /\ Written(w, s).node = w.node
  BY <1>1 DEF Written
<1>4. Landed(w, s) = Put(w, f, w.entry[f], k) BY <1>1, <1>2 DEF Landed, Put
<1>5. Snug(Written(w, s), p, L) BY <1>3 DEF Snug, Settled
<1>6. Tight(w, s, L) BY <1>1, <1>4, <1>5 DEF Tight
<1>7. s \in AllSteps BY DEF s
<1>8. <<w, s>> \in Tights(L) BY <1>6, <1>7, TightIn
<1> QED BY <1>8 DEF s

\* Recovery may take up what is left of q, and what it keeps.
Follows(t, q, keep) == q # <<>> /\ keep # 0 /\ t[keep] # Free => \E i \in 1 .. Len(q) : q[i] = keep

\* The clusters in use that are in no file are those of q.
Sole(w, q, L) ==
    /\ Covered(w.table, Roots(w.entry) \cup (IF q = <<>> THEN {} ELSE {q[1]}), L)
    /\ Closed(w.table, Prefix(q, Len(q)))

\* While they are freed, those left are found from the first of them.
LEMMA FreedCovered ==
  ASSUME NEW w, NEW q, IsPath(w.table, q), NEW L, Sole(w, q, L), NEW a \in 0 .. Len(q)
  PROVE  Covered(Freed(w, q, a).table, Roots(w.entry) \cup (IF a < Len(q) THEN {q[a + 1]} ELSE {}), L)
<1> DEFINE t == w.table
           D == Prefix(q, a)
           R == Roots(w.entry) \cup (IF q = <<>> THEN {} ELSE {q[1]})
           Q == Roots(w.entry) \cup (IF a < Len(q) THEN {q[a + 1]} ELSE {})
           n == Len(q)
<1>1. q \in Seq(Clusters) /\ n \in Nat /\ \A i \in 1 .. n : q[i] \in Clusters BY DEF IsPath
<1>2. \A i \in 1 .. n - 1 : t[q[i]] = q[i + 1] BY DEF IsPath
<1>3. Covered(t, R, L) /\ Closed(t, Prefix(q, n)) BY DEF Sole
<1>4. D \in SUBSET Clusters BY <1>1 DEF Prefix
<1>5. R \subseteq Q \cup D
  <2> SUFFICES ASSUME q # <<>> PROVE q[1] \in Q \cup D OBVIOUS
  <2>1. CASE a = 0 BY <1>1, <2>1
  <2>2. CASE a # 0
    <3>1. 1 \in 1 .. a BY <2>2
    <3> QED BY <3>1 DEF Prefix
  <2> QED BY <2>1, <2>2
<1> HIDE DEF n
<1>6. ASSUME NEW c \in D, t[c] \in Clusters PROVE t[c] \in D \cup Q
  <2>1. PICK i \in 1 .. a : q[i] = c BY DEF Prefix
  <2>2. CASE i < n
    <3>1. i \in 1 .. n - 1 BY <1>1, <2>2
    <3>2. t[c] = q[i + 1] BY <1>2, <2>1, <3>1
    <3>3. CASE i + 1 <= a
      <4>1. i + 1 \in 1 .. a BY <3>3
      <4> QED BY <3>2, <4>1 DEF Prefix
    <3>4. CASE ~(i + 1 <= a)
      <4>1. i = a /\ a < Len(q) BY <1>1, <2>2, <3>4 DEF n
      <4> QED BY <3>2, <4>1
    <3> QED BY <3>3, <3>4
  <2>3. CASE ~(i < n)
    <3>1. a = n BY <1>1, <2>3 DEF n
    <3> QED BY <1>3, <1>6, <3>1 DEF Closed
  <2> QED BY <2>2, <2>3
<1> HIDE DEF t, D, R, Q
<1>7. Covered(FreedTable(t, D), Q, L) BY <1>3, <1>4, <1>5, <1>6, CoverFreed
<1> QED BY <1>7 DEF t, D, Q, Freed

\* What was freed, and what was not.
LEMMA FreedLinks ==
  ASSUME NEW w, NEW q, IsPath(w.table, q), NEW a \in 0 .. Len(q)
  PROVE  LET u == Freed(w, q, a).table
         IN  /\ \A i \in 1 .. a : u[q[i]] = Free
             /\ \A c \in Clusters : u[c] = w.table[c] \/ u[c] = Free
             /\ \A i, j \in a + 1 .. Len(q) : i <= j => Reaches(u, q[i], q[j])
<1> DEFINE u == Freed(w, q, a).table
           n == Len(q)
<1>1. q \in Seq(Clusters) /\ n \in Nat BY DEF IsPath
<1>2. \A i \in 1 .. n : q[i] \in Clusters BY <1>1
<1>3. \A c \in Clusters : u[c] = IF c \in Prefix(q, a) THEN Free ELSE w.table[c] BY DEF Freed, FreedTable
<1> HIDE DEF u
<1>4. ASSUME NEW i \in a + 1 .. n PROVE q[i] \notin Prefix(q, a)
  <2> SUFFICES ASSUME NEW j \in 1 .. a, q[j] = q[i] PROVE FALSE BY DEF Prefix
  <2>1. i \in 1 .. n /\ j \in 1 .. n /\ i # j BY <1>1
  <2> QED BY <2>1 DEF IsPath
<1>5. ASSUME NEW i \in a + 1 .. n, NEW j \in a + 1 .. n, i <= j PROVE Reaches(u, q[i], q[j])
  <2>1. i \in 1 .. n /\ j \in 1 .. n BY <1>1
  <2>2. ASSUME NEW k \in i .. j - 1 PROVE u[q[k]] = q[k + 1]
    <3>1. k \in a + 1 .. n /\ k \in 1 .. n - 1 /\ k \in 1 .. n BY <1>1
    <3>2. u[q[k]] = w.table[q[k]] BY <1>2, <1>3, <1>4, <3>1
    <3> QED BY <3>1, <3>2 DEF IsPath
  <2> QED BY <1>1, <1>5, <2>1, <2>2, LinksReach, Zenon
<1>6. ASSUME NEW i \in 1 .. a PROVE u[q[i]] = Free
  <2>1. i \in 1 .. n BY <1>1
  <2> QED BY <1>2, <1>3, <2>1 DEF Prefix
<1> QED BY <1>3, <1>5, <1>6 DEF u

\* Freeing the clusters that are in no file leaves none out.
LEMMA FreesTight ==
  ASSUME NEW w, Good(w, NoPending), NEW q, Loose(w.table, w.entry, q),
         NEW keep, Kept(w.table, w.entry, q, keep), Follows(w.table, q, keep),
         NEW s, Frees(s, q, keep), NEW L, Sole(w, q, L)
  PROVE  /\ Goes(Tights(L), w, s, Freed(w, q, Len(q)))
         /\ Snug(Freed(w, q, Len(q)), NoPending, L)
<1> DEFINE n == Len(q)
<1>1. IsPath(w.table, q) /\ q \in Seq(Clusters) /\ n \in Nat /\ \A i \in 1 .. n : q[i] \in Clusters
  BY DEF Loose, IsPath
<1>2. keep \in Clusters \cup {0} BY DEF Kept
<1>3. ASSUME NEW a \in Nat, NEW b \in Nat, a < b, b <= n, FreeStep(q, a, b, keep) \in AllSteps
      PROVE  <<Freed(w, q, a), FreeStep(q, a, b, keep)>> \in Tights(L)
  <2> DEFINE next == IF b < n THEN q[b + 1] ELSE keep
             p == Held(next, q[a + 1], Nothing)
             d == [c \in {q[i] : i \in a + 1 .. b} |-> Free]
             v == Freed(w, q, a)
             u == Freed(w, q, b)
             s0 == FreeStep(q, a, b, keep)
  <2>1. s0 = FatStep(p, d, p) BY DEF FreeStep
  <2>2. p.head = next /\ p.extra = q[a + 1] /\ p.owner = Nothing BY HeldFields
  <2>3. a \in 0 .. n /\ b \in 0 .. n /\ a < n /\ a + 1 \in 1 .. n /\ a + 1 \in 1 .. b /\ a + 1 \in a + 1 .. n
    BY <1>1, <1>3
  <2>a. q[a + 1] \in Clusters /\ q[a + 1] # 0 BY <1>1, <2>3, Numbers
  <2>4. Landed(v, s0) = u
    <3>1. v.table = FreedTable(w.table, Prefix(q, a)) /\ v.entry = w.entry /\ v.node = w.node BY DEF Freed
    <3>2. u = [table |-> FreedTable(w.table, Prefix(q, b)), entry |-> w.entry, node |-> w.node] BY DEF Freed
    <3>3. s0.kind = "fat" /\ s0.patch = d BY <2>1, FatStepFields
    <3> DEFINE D == {q[i] : i \in a + 1 .. b}
    <3>4. Prefix(q, b) = Prefix(q, a) \cup D
      <4>1. 1 .. b = (1 .. a) \cup (a + 1 .. b) BY <1>3
      <4> QED BY <4>1 DEF Prefix
    <3>5. d = [c \in D |-> Free] OBVIOUS
    <3>6. Patched(v.table, d) = FreedTable(w.table, Prefix(q, b))
      <4> HIDE DEF D, d, v
      <4> QED BY <3>1, <3>4, <3>5 DEF Patched, FreedTable
    <3> HIDE DEF v, u, s0, d
    <3> QED BY <3>1, <3>2, <3>3, <3>6 DEF Landed
  <2>5. /\ Covered(v.table, Roots(w.entry) \cup {q[a + 1]}, L)
        /\ Covered(u.table, Roots(w.entry) \cup (IF b < n THEN {q[b + 1]} ELSE {}), L)
    <3>1. Covered(v.table, Roots(w.entry) \cup (IF a < n THEN {q[a + 1]} ELSE {}), L)
      BY <1>1, <2>3, FreedCovered, Zenon
    <3>2. Covered(u.table, Roots(w.entry) \cup (IF b < n THEN {q[b + 1]} ELSE {}), L)
      BY <1>1, <2>3, FreedCovered, Zenon
    <3> QED BY <2>3, <3>1, <3>2
  <2>6. /\ \A i \in 1 .. a : v.table[q[i]] = Free
        /\ \A c \in Clusters : v.table[c] = w.table[c] \/ v.table[c] = Free
        /\ \A i, j \in a + 1 .. n : i <= j => Reaches(v.table, q[i], q[j])
    BY <1>1, <2>3, FreedLinks
  <2>7. u.table[q[a + 1]] = Free
    <3>1. /\ \A i \in 1 .. b : u.table[q[i]] = Free
          /\ \A c \in Clusters : u.table[c] = w.table[c] \/ u.table[c] = Free
          /\ \A i, j \in b + 1 .. n : i <= j => Reaches(u.table, q[i], q[j])
      BY <1>1, <2>3, FreedLinks, Zenon
    <3>2. a + 1 \in 1 .. b BY <2>3
    <3> HIDE DEF u
    <3> QED BY <3>1, <3>2
  <2>8. v.entry = w.entry /\ u.entry = w.entry BY DEF Freed
  <2> HIDE DEF v, u, d, s0
  <2>9. Joined(v.table, p)
    <3> SUFFICES ASSUME next # 0, v.table[next] # Free PROVE Reaches(v.table, q[a + 1], next)
      BY <2>2 DEF Joined
    <3>1. CASE b < n
      <4>1. b + 1 \in a + 1 .. n /\ a + 1 <= b + 1 BY <1>1, <1>3, <3>1
      <4> QED BY <2>3, <2>6, <3>1, <4>1
    <3>2. CASE ~(b < n)
      <4>1. keep \in Clusters /\ w.table[keep] # Free /\ next = keep BY <1>2, <2>6, <3>2
      <4>2. q # <<>> /\ keep # 0 BY <2>3, <4>1, <3>2
      <4>3. PICK j \in 1 .. n : q[j] = keep BY <4>1, <4>2 DEF Follows
      <4>4. ~(j <= a)
        <5> SUFFICES ASSUME j <= a PROVE FALSE OBVIOUS
        <5>1. j \in 1 .. a BY <1>1, <1>3
        <5> QED BY <2>6, <4>1, <4>3, <5>1
      <4>5. j \in a + 1 .. n /\ a + 1 <= j BY <1>1, <1>3, <4>4
      <4> QED BY <2>3, <2>6, <4>1, <4>3, <4>5
    <3> QED BY <3>1, <3>2
  <2>10. Joined(u.table, p) BY <2>2, <2>7 DEF Joined
  <2>11. \A x : ~Settled(x, p) BY <2>2, PendingType DEF Settled
  <2>12. Marked(p) = {next, q[a + 1]} \ {0} BY <2>2 DEF Marked
  <2>13. Snug(v, p, L)
    <3>1. Roots(w.entry) \cup {q[a + 1]} \subseteq Roots(w.entry) \cup Marked(p) BY <2>a, <2>12
    <3>2. Covered(v.table, Roots(w.entry) \cup Marked(p), L) BY <2>5, <3>1, CoverMore
    <3> QED BY <2>8, <2>9, <2>11, <3>2 DEF Snug
  <2>14. Snug(u, p, L)
    <3>1. b < n => q[b + 1] \in Marked(p)
      <4> SUFFICES ASSUME b < n PROVE q[b + 1] \in Marked(p) OBVIOUS
      <4>1. b + 1 \in 1 .. n BY <1>1, <1>3
      <4>2. q[b + 1] # 0 BY <1>1, <4>1, Numbers
      <4> QED BY <2>12, <4>2
    <3>2. Roots(w.entry) \cup (IF b < n THEN {q[b + 1]} ELSE {}) \subseteq Roots(w.entry) \cup Marked(p) BY <3>1
    <3>3. Covered(u.table, Roots(w.entry) \cup Marked(p), L) BY <2>5, <3>2, CoverMore
    <3> QED BY <2>8, <2>10, <2>11, <3>3 DEF Snug
  <2>15. v \in Worlds
    <3>1. w.table \in [Clusters -> Values] /\ w.entry \in [Files -> Entries] /\ w.node \in [Files -> Nodes]
      BY DEF Good, Worlds
    <3>2. FreedTable(w.table, Prefix(q, a)) \in [Clusters -> Values] BY <3>1, Numbers DEF FreedTable
    <3> QED BY <3>1, <3>2 DEF v, Freed, Worlds
  <2>16. s0 \in AllSteps BY <1>3 DEF s0
  <2> HIDE DEF p
  <2>17. <<v, s0>> \in Tights(L) BY <2>1, <2>4, <2>13, <2>14, <2>15, <2>16, FatTight
  <2> QED BY <2>17 DEF v, s0
<1>4. Goes(Tights(L), w, s, Freed(w, q, n)) BY <1>3, FreesGo
<1>5. Snug(Freed(w, q, n), NoPending, L)
  <2>1. n \in 0 .. n /\ ~(n < n) BY <1>1
  <2>2. Covered(Freed(w, q, n).table, Roots(w.entry) \cup {}, L) BY <1>1, <2>1, FreedCovered, Zenon
  <2>3. Freed(w, q, n).entry = w.entry BY DEF Freed
  <2> QED BY <2>2, <2>3, SnugNone
<1> QED BY <1>4, <1>5

\* The end of an operation after which every cluster in use is in a file.
LEMMA TightsFinish ==
  ASSUME NEW L, NEW w, NEW s, NEW z, Goes(Tights(L), w, s, z), Snug(z, NoPending, L)
  PROVE  Goes(Tights(L), w, Finished(s), z)
<1>1. \A v \in Worlds, d \in AllSteps :
         <<v, d>> \in Tights(L) /\ Landed(v, d) = z => <<v, Last(d)>> \in Tights(L)
  BY TightLast
<1> DEFINE A == Tights(L)
<1> HIDE DEF A
<1> QED BY <1>1, GoesFinish DEF A

\* free_chain leaves no cluster out.
LEMMA FreeChainTight ==
  ASSUME NEW w, Good(w, NoPending), NEW q, Loose(w.table, w.entry, q), NEW L, Sole(w, q, L)
  PROVE  \E z : Goes(Tights(L), w, Finished(FreeChain(q)), z) /\ Snug(z, NoPending, L)
<1>1. q \in Seq(Clusters) BY DEF Loose, IsPath
<1>2. Frees(FreeChain(q), q, 0) BY <1>1, FreeChainFrees
<1>3. Kept(w.table, w.entry, q, 0) BY DEF Kept
<1>4. Follows(w.table, q, 0) BY DEF Follows
<1> DEFINE z == Freed(w, q, Len(q))
           s == FreeChain(q)
<1> HIDE DEF s
<1>5. Goes(Tights(L), w, s, z) /\ Snug(z, NoPending, L) BY <1>2, <1>3, <1>4, FreesTight DEF s
<1> HIDE DEF z
<1>6. Goes(Tights(L), w, Finished(s), z) BY <1>5, TightsFinish
<1> QED BY <1>5, <1>6 DEF s

\* What is pending while q is allocated leads to what is linked of it.
LEMMA AllocSnug ==
  ASSUME NEW w, Good(w, NoPending), NEW q, NEW tail, Fresh(w.table, w.entry, q, tail),
         NEW o, OwnerFor(o, tail), NEW L, Covered(w.table, Roots(w.entry), L),
         NEW d \in 1 .. Len(q) + 1, NEW M \in SUBSET ({tail} \ {0}), M # {} => d = 1,
         NEW h, NEW x, h = 0 \/ \E i \in 1 .. Len(q) : q[i] = h,
         x = 0 \/ \E i \in 1 .. Len(q) : q[i] = x /\ (i < d \/ h = 0 \/ \E j \in 1 .. Len(q) : i = d /\ d <= j /\ q[j] = h),
         d <= Len(q) => q[d] \in {h, x}
  PROVE  Snug(AllocWorld(w, q, d, M), Held(h, x, o), L)
<1> DEFINE v == AllocWorld(w, q, d, M)
           u == Allocated(w.table, q, d, M)
           p == Held(h, x, o)
           n == Len(q)
<1>1. v.table = u /\ v.entry = w.entry BY DEF AllocWorld
<1>2. p.head = h /\ p.extra = x /\ p.owner = o BY HeldFields
<1>3. q \in Seq(Clusters) /\ n \in Nat /\ \A i \in 1 .. n : w.table[q[i]] = Free /\ q[i] \in Clusters BY DEF Fresh
<1>4. Marked(p) = {h, x} \ {0} BY <1>2 DEF Marked
<1>5. d <= n => q[d] \in Roots(w.entry) \cup Marked(p)
  <2> SUFFICES ASSUME d <= n PROVE q[d] \in Marked(p) OBVIOUS
  <2>1. d \in 1 .. n BY <1>3
  <2> QED BY <1>3, <1>4, <2>1, Numbers
<1>6. /\ \A i \in 1 .. n : u[q[i]] = IF i < d THEN Free ELSE After(q, i)
  BY AllocatedFacts
<1> DEFINE R == Roots(w.entry)
           Q == R \cup Marked(p)
<1>7. Covered(u, Q, L) /\ \A i \in 1 .. n : d <= i => Reaches(u, q[d], q[i])
  <2>1. R \subseteq Q OBVIOUS
  <2>2. d <= Len(q) => q[d] \in Q BY <1>5
  <2>3. Covered(w.table, R, L) OBVIOUS
  <2> HIDE DEF R, Q
  <2> DEFINE t == w.table
             e == w.entry
  <2>4. Fresh(t, e, q, tail) /\ Covered(t, R, L) BY <2>3
  <2> HIDE DEF t, e
  <2>5. Covered(Allocated(t, q, d, M), Q, L)
    BY <2>1, <2>2, <2>4, CoverAlloc
  <2>6. \A i \in 1 .. Len(q) : d <= i => Reaches(Allocated(t, q, d, M), q[d], q[i])
    BY <2>1, <2>2, <2>4, CoverAlloc
  <2> QED BY <2>5, <2>6 DEF t
<1> HIDE DEF u, n, v, p, R, Q
<1>8. Joined(u, p)
  <2> SUFFICES ASSUME x # 0, h # 0, u[x] # Free PROVE Reaches(u, x, h) BY <1>2 DEF Joined
  <2>1. PICK i \in 1 .. n : q[i] = x /\ (i < d \/ \E j \in 1 .. n : i = d /\ d <= j /\ q[j] = h) BY DEF n
  <2>2. ~(i < d) BY <1>6, <2>1
  <2> QED BY <1>7, <2>1, <2>2
<1>9. ~Settled(v, p)
  <2> SUFFICES ASSUME Settled(v, p) PROVE FALSE OBVIOUS
  <2>1. CASE tail = 0
    <3>1. PICK f \in Files : o = EntryOf(f) BY <2>1 DEF OwnerFor
    <3>2. o.kind = "entry" /\ o.file = f BY <3>1 DEF EntryOf
    <3>3. h # 0 /\ w.entry[f].used /\ w.entry[f].first = h BY <1>1, <1>2, <3>2 DEF Settled
    <3>4. w.table[h] # Free BY <3>3 DEF Good, Sound
    <3> QED BY <1>3, <3>3, <3>4 DEF n
  <2>2. CASE tail # 0
    <3>1. o.kind = "tail" BY <2>2 DEF OwnerFor, AtTail
    <3> QED BY <1>2, <3>1 DEF Settled
  <2> QED BY <2>1, <2>2
<1>10. Snug(v, p, L) BY <1>1, <1>7, <1>8, <1>9 DEF Snug, Q, R
<1> QED BY <1>10 DEF v, p

\* The writes that allocate leave no cluster out.
LEMMA AllocatesTight ==
  ASSUME NEW w, Good(w, NoPending), NEW q, NEW tail, Fresh(w.table, w.entry, q, tail),
         NEW o, OwnerFor(o, tail), NEW L, Covered(w.table, Roots(w.entry), L)
  PROVE  Allocates(Tights(L), w, q, tail, o)
<1> SUFFICES ASSUME NEW d \in 1 .. Len(q), NEW i \in 1 .. Len(q) + 1, NEW M \in SUBSET ({tail} \ {0}),
                    NEW p \in AllocHeld(q, i, d, o), M # {} => d = 1,
                    FatStep(p, Links1(q, d, i, M), Held(q[d], 0, o)) \in AllSteps
             PROVE  <<AllocWorld(w, q, i, {}), FatStep(p, Links1(q, d, i, M), Held(q[d], 0, o))>> \in Tights(L)
  BY DEF Allocates
<1> DEFINE r == Held(q[d], 0, o)
           s == FatStep(p, Links1(q, d, i, M), r)
           v == AllocWorld(w, q, i, {})
           u == AllocWorld(w, q, d, M)
           n == Len(q)
<1>0. n \in Nat /\ q \in Seq(Clusters) BY DEF Fresh
<1>1. /\ d \in 1 .. n + 1 /\ {} \in SUBSET ({tail} \ {0}) /\ ({} # {} => i = 1) /\ d <= n /\ d <= i
      /\ d <= d /\ ~(d < d) /\ ~(i <= n) => i = n + 1
  BY <1>0 DEF AllocHeld
<1>2. Good(u, r) BY <1>1, AllocGood
<1>3. Good(v, p) /\ Good(u, p)
  <2>1. CASE d < i /\ p = Held(IF i = n + 1 THEN 0 ELSE q[i], q[d], o)
    <3>1. Good(v, p) BY <1>1, <2>1, AllocGood
    <3>2. Good(u, p) BY <1>1, <2>1, AllocGood
    <3> QED BY <3>1, <3>2
  <2>2. CASE p = Held(q[d], 0, o) /\ i = d BY <1>1, <1>2, <2>2, AllocGood
  <2>3. CASE p = Held(q[d], 0, o) /\ d < i BY <1>1, <1>2, <2>3, AllocGood
  <2>4. d = i \/ d < i BY <1>0, <1>1
  <2> QED BY <2>1, <2>2, <2>3, <2>4 DEF AllocHeld
<1>4. Linking(q, d, i, M) \in Groups
  <2>1. s.kind = "fat" /\ s.patch = Links1(q, d, i, M) BY FatStepFields
  <2> DEFINE y == Links1(q, d, i, M)
  <2>2. DOMAIN y = Linking(q, d, i, M) BY DEF Links1, Linking
  <2> HIDE DEF y
  <2>3. s \in FatSteps
    <3>1. s \in AllSteps /\ s.kind = "fat" BY <2>1
    <3> HIDE DEF s
    <3> QED BY <3>1 DEF AllSteps, EntrySteps, DataSteps
  <2>4. y \in Patches
    <3>1. s.patch = y BY <2>1 DEF y
    <3> HIDE DEF s
    <3> QED BY <2>3, <3>1 DEF FatSteps
  <2>5. PICK D \in Groups : y \in [D -> Values] BY <2>4 DEF Patches
  <2>6. DOMAIN y = D BY <2>5
  <2> QED BY <2>2, <2>6
<1>5. Landed(v, s) = u
  BY <1>1, <1>3, <1>4, AllocStepSafe
<1>6. Snug(u, r, L)
  <2>1. q[d] = 0 \/ \E j \in 1 .. Len(q) : q[j] = q[d] OBVIOUS
  <2>2. d <= Len(q) => q[d] \in {q[d], 0} OBVIOUS
  <2> HIDE DEF u
  <2> QED BY <1>1, <2>1, <2>2, AllocSnug DEF u
<1>7. Snug(v, p, L) /\ Snug(u, p, L)
  <2>1. CASE d < i /\ p = Held(IF i = n + 1 THEN 0 ELSE q[i], q[d], o)
    <3> DEFINE h == IF i = n + 1 THEN 0 ELSE q[i]
               x == q[d]
    <3>1. h = 0 \/ \E j \in 1 .. Len(q) : q[j] = h
      <4>1. i # n + 1 => i \in 1 .. n BY <1>0
      <4> QED BY <4>1
    <3>2. x = 0 \/ \E k \in 1 .. Len(q) :
             q[k] = x /\ (k < i \/ h = 0 \/ \E j \in 1 .. Len(q) : k = i /\ i <= j /\ q[j] = h)
      BY <2>1
    <3>3. i <= Len(q) => q[i] \in {h, x} BY <1>0
    <3>4. d <= Len(q) => q[d] \in {h, x} OBVIOUS
    <3>5. x = 0 \/ \E k \in 1 .. Len(q) :
             q[k] = x /\ (k < d \/ h = 0 \/ \E j \in 1 .. Len(q) : k = d /\ d <= j /\ q[j] = h)
      <4> SUFFICES ASSUME h # 0 PROVE \E j \in 1 .. Len(q) : d <= j /\ q[j] = h OBVIOUS
      <4>1. i \in 1 .. n /\ h = q[i] BY <1>0
      <4> QED BY <1>1, <4>1
    <3> HIDE DEF h, x
    <3>6. p = Held(h, x, o) BY <2>1 DEF h, x
    <3>7. Snug(v, Held(h, x, o), L) BY <1>1, <3>1, <3>2, <3>3, AllocSnug
    <3>8. Snug(u, Held(h, x, o), L) BY <1>1, <3>1, <3>4, <3>5, AllocSnug
    <3> QED BY <3>6, <3>7, <3>8
  <2>2. CASE p = r /\ i \in {d, n + 1}
    <3>1. q[d] = 0 \/ \E j \in 1 .. Len(q) : q[j] = q[d] OBVIOUS
    <3>2. i <= Len(q) => q[i] \in {q[d], 0} BY <1>0, <2>2
    <3>3. Snug(v, Held(q[d], 0, o), L) BY <1>1, <3>1, <3>2, AllocSnug
    <3> QED BY <1>6, <2>2, <3>3
  <2> QED BY <2>1, <2>2 DEF AllocHeld
<1>8. v \in Worlds /\ s \in AllSteps BY <1>3 DEF Good
<1> HIDE DEF u, v, r
<1>9. <<v, s>> \in Tights(L) BY <1>5, <1>6, <1>7, <1>8, FatTight
<1> QED BY <1>9 DEF v, r

\* A plan whose first step is in question.
LEMMA TightFirst ==
  ASSUME NEW A, NEW w, NEW s, Safe(w, s), <<w, s>> \in A
  PROVE  Goes(A, w, <<s>>, Landed(w, s))
<1>1. w \in Worlds /\ s \in AllSteps /\ Landed(w, s) \in Worlds BY DEF Safe, Good
<1> QED BY <1>1, GoesOne

\* A chain is closed under its links.
LEMMA SoleChain ==
  ASSUME NEW t, NEW e, Sound(t, e), NEW c \in Clusters, t[c] # Free
  PROVE  LET q == Chain(t, c)
         IN  q # <<>> /\ q[1] = c /\ IsPath(t, q) /\ Closed(t, Prefix(q, Len(q)))
<1> DEFINE q == Chain(t, c)
<1>1. IsPath(t, q) /\ q # <<>> /\ q[1] = c /\ Stuck(t, q) BY ChainIsPath
<1> HIDE DEF q
<1>2. Closed(t, {q[i] : i \in 1 .. Len(q)}) BY <1>1, ChainClosed
<1> QED BY <1>1, <1>2 DEF Prefix, q

\* An entry and a node in step may be written when nothing is pending.
LEMMA PutNone ==
  ASSUME NEW w, Good(w, NoPending), NEW f \in Files, NEW to \in Entries, NEW k \in Nodes, Agree(to, k),
         to.used /\ to.first # 0 =>
            w.table[to.first] # Free /\ LinkedBy(w.table, w.entry, to.first, {}, {f})
  PROVE  Good(Put(w, f, to, k), NoPending)
<1>1. NodeFits(w.table, to, k, NoPending, f) BY AgreeFits
<1>2. PendOK(w.table, [w.entry EXCEPT ![f] = to], NoPending) BY NonePending
<1>3. NoPending \in Pendings BY PendingType
<1> QED BY <1>1, <1>2, <1>3, PutReady, Zenon

\* An entry that gives up its chain, and the chain.
LEMMA DropTight ==
  ASSUME Good(World, NoPending), NEW f \in Files, entry[f].used, entry[f].first # 0,
         NEW to \in Entries, to.used => to.first = 0, NEW k \in Nodes, Agree(to, k),
         NEW o \in {EntryOf(f), Removed(f)},
         LET p == Held(entry[f].first, 0, o)
         IN  Safe(World, EntryStep(p, f, to, k, p)),
         NEW L, Covered(table, Roots(entry), L)
  PROVE  LET c == entry[f].first
             p == Held(c, 0, o)
             s == <<EntryStep(p, f, to, k, p)>> \o Finished(FreeChain(Chain(table, c)))
         IN  \E z : Goes(Tights(L), World, s, z)
<1> DEFINE c == entry[f].first
           p == Held(c, 0, o)
           w == World
           x == [entry EXCEPT ![f] = to]
           s == EntryStep(p, f, to, k, p)
           v == Put(w, f, to, k)
           q == Chain(table, c)
<1>1. /\ w.table = table /\ w.entry = entry /\ w.node = node /\ w \in Worlds
      /\ table \in [Clusters -> Values] /\ entry \in [Files -> Entries] /\ node \in [Files -> Nodes]
      /\ Sound(table, entry)
  BY WorldFields
<1>2. c \in Clusters /\ table[c] # Free BY <1>1, FirstLinked, Zenon
<1>a. c # 0 /\ ~(to.used /\ to.first # 0) OBVIOUS
<1>b. Safe(w, s) OBVIOUS
<1>3. x \in [Files -> Entries] /\ Roots(entry) \subseteq Roots(x) \cup {c} /\ x[f] = to
  BY <1>1, RootsPut, Zenon
<1>4. p.head = c /\ p.extra = 0 /\ p.owner = o BY HeldFields
<1>5. o.kind \in {"entry", "removed"} /\ o.file = f BY DEF EntryOf, Removed
<1>6. Marked(p) = {c} BY <1>a, <1>4 DEF Marked
<1>7. Covered(table, Roots(x) \cup {c}, L) BY <1>3, CoverMore, Zenon
<1>e. Loose(table, [entry EXCEPT ![f] = to], Chain(table, entry[f].first)) BY <1>1, Loosened, Zenon
<1>f. q # <<>> /\ q[1] = c /\ Closed(table, Prefix(q, Len(q))) BY <1>1, <1>2, SoleChain
<1>d. Loose(table, x, q) BY <1>e
<1> HIDE DEF w, x, p, c, q
<1>8. ASSUME NEW u, u.table = table, u.entry = x PROVE Snug(u, p, L)
  <2>1. Joined(u.table, p) BY <1>4, JoinedHead
  <2>2. ~Settled(u, p) BY <1>a, <1>3, <1>4, <1>5, <1>8 DEF Settled
  <2> QED BY <1>6, <1>7, <1>8, <2>1, <2>2 DEF Snug
<1>9. Snug(w, p, L)
  <2>1. Joined(w.table, p) BY <1>4, JoinedHead
  <2> QED BY <1>1, <2>1, SnugAny
<1>10. Snug(Put(w, f, to, w.node[f]), p, L)
  <2> DEFINE u == Put(w, f, to, w.node[f])
  <2>1. u.table = table /\ u.entry = x BY <1>1 DEF Put, x
  <2> HIDE DEF u
  <2> QED BY <1>8, <2>1 DEF u
<1>11. v.table = table /\ v.entry = x BY <1>1 DEF Put, x
<1>12. Landed(w, s) = v
  <2>1. s.kind = "entry" /\ s.file = f /\ s.to = to /\ s.node = k BY DEF EntryStep
  <2> HIDE DEF s
  <2> QED BY <2>1 DEF Landed, Put
<1>c. s \in AllSteps BY <1>b DEF Safe
<1> HIDE DEF v
<1>g. Snug(v, p, L) BY <1>8, <1>11
<1>13. <<w, s>> \in Tights(L) BY <1>1, <1>9, <1>10, <1>g, <1>c, EntryTight DEF v
<1> HIDE DEF s
<1>14. Goes(Tights(L), w, <<s>>, v) BY <1>b, <1>12, <1>13, TightFirst
<1>15. Good(v, NoPending) BY <1>a, PutNone, Zenon DEF v, w
<1>16. Loose(v.table, v.entry, q) BY <1>11, <1>d
<1>17. Sole(v, q, L)
  BY <1>7, <1>11, <1>f DEF Sole
<1>18. PICK z : Goes(Tights(L), v, Finished(FreeChain(q)), z) BY <1>15, <1>16, <1>17, FreeChainTight
<1>19. Goes(Tights(L), w, <<s>> \o Finished(FreeChain(q)), z) BY <1>14, <1>18, GoesJoin
<1> QED BY <1>19 DEF w, s, q, p, c

\* No write ends a plan without steps.
LEMMA NoneFinished == Finished(FreeChain(<<>>)) = <<>>
<1>1. <<>> \in Seq(Clusters) /\ Len(<<>>) = 0 OBVIOUS
<1>2. Frees(FreeChain(<<>>), <<>>, 0) BY <1>1, FreeChainFrees, Zenon
<1> DEFINE s == FreeChain(<<>>)
<1>3. PICK K \in Nat : \E b \in [0 .. K -> Nat] :
        /\ b[0] = 0 /\ b[K] = Len(<<>>)
        /\ s = [j \in 1 .. K |-> FreeStep(<<>>, b[j - 1], b[j], 0)]
        /\ \A j \in 1 .. K : b[j - 1] < b[j] /\ b[j] <= Len(<<>>)
  BY <1>2 DEF Frees
<1>4. K = 0
  <2> SUFFICES ASSUME K # 0 PROVE FALSE OBVIOUS
  <2>1. PICK b \in [0 .. K -> Nat] : \A j \in 1 .. K : b[j - 1] < b[j] /\ b[j] <= Len(<<>>) BY <1>3
  <2>2. K \in 1 .. K /\ K \in 0 .. K /\ K - 1 \in 0 .. K OBVIOUS
  <2>3. b[K] \in Nat /\ b[K - 1] \in Nat BY <2>2
  <2>4. b[K - 1] < b[K] /\ b[K] <= 0 BY <1>1, <2>1, <2>2
  <2> QED BY <2>3, <2>4
<1>5. s = <<>> BY <1>3, <1>4
<1> HIDE DEF s
<1>6. DOMAIN s = {} BY <1>5
<1>7. Finished(s) = <<>> BY <1>5, <1>6 DEF Finished
<1> QED BY <1>7 DEF s

\* free_chain is a sequence of writes.
LEMMA PlanSeq ==
  ASSUME NEW q \in Seq(Clusters)
  PROVE  \E S : Finished(FreeChain(q)) \in Seq(S)
<1> DEFINE s == FreeChain(q)
           r == Finished(s)
<1>1. PICK K \in Nat : \E b : s = [k \in 1 .. K |-> FreeStep(q, b[k - 1], b[k], 0)]
  BY FreeChainFrees DEF Frees
<1>2. DOMAIN s = 1 .. K BY <1>1
<1> HIDE DEF s
<1>3. r = [i \in 1 .. K |-> IF i = Len(s) THEN [s[i] EXCEPT !.post = NoPending] ELSE s[i]]
  BY <1>2 DEF Finished
<1> HIDE DEF r
<1>4. r \in Seq({r[i] : i \in 1 .. K}) BY <1>3
<1> QED BY <1>4 DEF r, s

\* The first write of a plan that runs is safe.
LEMMA FirstSafe ==
  ASSUME NEW w, NEW s, NEW q, \E S : q \in Seq(S), NEW z, Runs(w, <<s>> \o q, z)
  PROVE  Safe(w, s)
<1>1. PICK S : q \in Seq(S) OBVIOUS
<1> DEFINE T == S \cup {s}
           r == <<s>> \o q
<1>2. <<s>> \in Seq(T) /\ q \in Seq(T) BY <1>1
<1> HIDE DEF T
<1>3. r # <<>> /\ r[1] = s BY <1>2
<1>4. Runs(w, r, z) OBVIOUS
<1> HIDE DEF r
<1> QED BY <1>3, <1>4, RunsTail

-----------------------------------------------------------------------------
(* Operations. *)

\* An entry after whose write every cluster in use is in a file.
LEMMA EntryKeeps ==
  ASSUME NEW w \in Worlds, NEW p, NEW f \in Files, NEW to, NEW k, NEW r, NEW L,
         Safe(w, EntryStep(p, f, to, k, r)), p.extra = 0, r.extra = 0, Snug(w, p, L),
         Covered(w.table, Roots([w.entry EXCEPT ![f] = to]), L)
  PROVE  /\ Goes(Tights(L), w, <<EntryStep(p, f, to, k, r)>>, Put(w, f, to, k))
         /\ Landed(w, EntryStep(p, f, to, k, r)) = Put(w, f, to, k)
<1> DEFINE s == EntryStep(p, f, to, k, r)
           x == [w.entry EXCEPT ![f] = to]
<1>1. ASSUME NEW m PROVE Put(w, f, to, m).table = w.table /\ Put(w, f, to, m).entry = x BY DEF Put
<1>2. Covered(w.table, Roots(x), L) OBVIOUS
<1> HIDE DEF x
<1>3. ASSUME NEW m, NEW q, q.extra = 0 PROVE Snug(Put(w, f, to, m), q, L)
  <2> DEFINE u == Put(w, f, to, m)
  <2>1. u.table = w.table /\ u.entry = x BY <1>1
  <2> HIDE DEF u
  <2>2. Joined(u.table, q) BY <1>3, JoinedHead
  <2>3. Covered(u.table, Roots(u.entry), L) BY <1>2, <2>1
  <2>4. Snug(u, q, L) BY <2>2, <2>3, SnugAny
  <2> QED BY <2>4 DEF u
<1>4. s.kind = "entry" /\ s.file = f /\ s.to = to /\ s.node = k BY DEF EntryStep
<1>5. s \in AllSteps BY DEF Safe
<1>6. Safe(w, s) OBVIOUS
<1>7. Snug(Put(w, f, to, w.node[f]), p, L) /\ Snug(Put(w, f, to, k), r, L) BY <1>3
<1>8. <<w, s>> \in Tights(L) BY <1>5, <1>7, EntryTight
<1> HIDE DEF s
<1>9. Landed(w, s) = Put(w, f, to, k) BY <1>4 DEF Landed, Put
<1>10. Goes(Tights(L), w, <<s>>, Put(w, f, to, k)) BY <1>6, <1>8, <1>9, TightFirst
<1> QED BY <1>9, <1>10 DEF s

\* create leaves no cluster out, ...
LEMMA CreateTight ==
  ASSUME Good(World, NoPending), NEW f \in Files, ~entry[f].used, NEW L, Covered(table, Roots(entry), L)
  PROVE  LET s == <<EntryStep(NoPending, f, Entry(0, 0), CleanNode(0, 0), NoPending)>>
         IN  \E z : Goes(Tights(L), World, s, z)
<1> DEFINE to == Entry(0, 0)
           k == CleanNode(0, 0)
           s == EntryStep(NoPending, f, to, k, NoPending)
           w == World
<1>1. /\ w.table = table /\ w.entry = entry /\ w \in Worlds /\ entry \in [Files -> Entries]
  BY WorldFields
<1>2. PICK z : Runs(w, <<s>>, z) BY CreateRuns
<1>3. to \in Entries BY NodeTypes
<1> HIDE DEF to, k, w
<1>4. Safe(w, s)
  <2> DEFINE q == <<s>>
  <2>1. q # <<>> /\ q[1] = s /\ Runs(w, q, z) BY <1>2
  <2> HIDE DEF q
  <2>2. Safe(w, q[1]) BY <2>1, RunsTail
  <2> QED BY <2>1, <2>2
<1>5. Roots(entry) \subseteq Roots([entry EXCEPT ![f] = to]) BY <1>1, <1>3, RootsPut, Zenon
<1>6. Covered(w.table, Roots([w.entry EXCEPT ![f] = to]), L) BY <1>1, <1>5, CoverMore, Zenon
<1>7. Snug(w, NoPending, L) BY <1>1, SnugNone
<1>8. NoPending.extra = 0 BY PendingType
<1>9. Goes(Tights(L), w, <<s>>, Put(w, f, to, k)) BY <1>1, <1>4, <1>6, <1>7, <1>8, EntryKeeps, Zenon
<1> QED BY <1>9 DEF w, to, k

\* ... remove_entry, ...
LEMMA UnlinkTight ==
  ASSUME Good(World, NoPending), NEW f \in Files, entry[f].used, NEW L, Covered(table, Roots(entry), L)
  PROVE  LET first == State(f).first
             held == IF first = 0 THEN NoPending ELSE Held(first, 0, Removed(f))
             s == <<EntryStep(held, f, NoEntry, NoNode, held)>> \o Finished(FreeChain(Chain(table, first)))
         IN  \E z : Goes(Tights(L), World, s, z)
<1> DEFINE first == State(f).first
           held == IF first = 0 THEN NoPending ELSE Held(first, 0, Removed(f))
           to == NoEntry
           k == NoNode
           s == EntryStep(held, f, to, k, held)
           w == World
           q == Finished(FreeChain(Chain(table, first)))
<1>1. /\ w.table = table /\ w.entry = entry /\ w \in Worlds /\ entry \in [Files -> Entries]
      /\ Sound(table, entry) /\ table \in [Clusters -> Values]
  BY WorldFields
<1>2. first = entry[f].first BY ReadyState
<1>3. to \in Entries /\ k \in Nodes /\ ~to.used /\ to.first = 0 BY NodeTypes DEF NoEntry
<1>4. Agree(to, k) BY DEF Agree, NoEntry, NoNode
<1>5. PICK z : Runs(w, <<s>> \o q, z) BY UnlinkRuns
<1>a. held = IF first = 0 THEN NoPending ELSE Held(first, 0, Removed(f)) OBVIOUS
<1>b. q = Finished(FreeChain(Chain(table, first))) OBVIOUS
<1> HIDE DEF to, k, w, q, first
<1>6. Safe(w, s)
  <2>1. Loose(table, [entry EXCEPT ![f] = to], Chain(table, entry[f].first)) BY <1>1, <1>3, Loosened, Zenon
  <2>2. Chain(table, first) \in Seq(Clusters) BY <1>2, <2>1 DEF Loose, IsPath
  <2>3. \E S : q \in Seq(S) BY <1>b, <2>2, PlanSeq
  <2> HIDE DEF s
  <2> QED BY <1>5, <2>3, FirstSafe
<1>7. CASE first = 0
  <2>1. held = NoPending /\ held.extra = 0 BY <1>7, PendingType
  <2>2. Chain(table, first) = <<>> BY <1>7, Numbers, NoChain
  <2>3. q = <<>> BY <1>b, <2>2, NoneFinished
  <2>4. Roots(entry) \subseteq Roots([entry EXCEPT ![f] = to]) BY <1>1, <1>2, <1>3, <1>7, RootsPut, Zenon
  <2>5. Covered(w.table, Roots([w.entry EXCEPT ![f] = to]), L) BY <1>1, <2>4, CoverMore, Zenon
  <2>6. Snug(w, NoPending, L) BY <1>1, SnugNone
  <2> HIDE DEF held
  <2>7. Goes(Tights(L), w, <<s>>, Put(w, f, to, k)) BY <1>1, <1>6, <2>1, <2>5, <2>6, EntryKeeps, Zenon
  <2>8. <<s>> \o q = <<s>>
    <3> HIDE DEF s
    <3>1. <<s>> \in Seq({s}) OBVIOUS
    <3> QED BY <2>3, <3>1
  <2> QED BY <2>7, <2>8, Zenon DEF w, q, to, k, held, first
<1>8. CASE first # 0
  <2> DEFINE p == Held(entry[f].first, 0, Removed(f))
  <2>1. held = p BY <1>2, <1>8
  <2>2. Safe(World, EntryStep(p, f, to, k, p)) BY <1>6, <2>1 DEF w
  <2>3. \E y : Goes(Tights(L), World, <<EntryStep(p, f, to, k, p)>> \o Finished(FreeChain(Chain(table, entry[f].first))), y)
    BY <1>2, <1>3, <1>4, <1>8, <2>2, DropTight, Zenon
  <2> QED BY <1>2, <2>1, <2>3 DEF to, k, first
<1> QED BY <1>7, <1>8

\* ... a shrink to nothing, ...
LEMMA EmptyTight ==
  ASSUME Good(World, NoPending), NEW f \in Files, entry[f].used, NEW len \in 0 .. MaxSize,
         entry[f].first # 0, NEW L, Covered(table, Roots(entry), L)
  PROVE  LET c == entry[f].first
             held == Held(c, 0, EntryOf(f))
             s == <<Store(held, f, 0, len, held)>> \o Finished(FreeChain(Chain(table, c)))
         IN  \E z : Goes(Tights(L), World, s, z)
<1> DEFINE c == entry[f].first
           o == EntryOf(f)
           held == Held(c, 0, o)
           to == Entry(0, len)
           k == IF node[f].pinned THEN CleanNode(0, len) ELSE NoNode
           q == Finished(FreeChain(Chain(table, c)))
           s == EntryStep(held, f, to, k, held)
<1>1. Store(held, f, 0, len, held) = s BY DEF Store
<1>2. \E z \in Worlds : Runs(World, <<Store(held, f, 0, len, held)>> \o q, z) BY EmptyRuns
<1>3. Chain(table, c) \in Seq(Clusters)
  <2>1. Sound(table, entry) /\ table \in [Clusters -> Values] /\ entry \in [Files -> Entries] BY WorldFields
  <2>2. IsPath(table, Chain(table, c)) BY <2>1, FileChain
  <2> QED BY <2>2 DEF IsPath
<1>4. \E S : q \in Seq(S) BY <1>3, PlanSeq
<1>5. Safe(World, s)
  <2> HIDE DEF s, q
  <2> QED BY <1>1, <1>2, <1>4, FirstSafe
<1>6. to \in Entries /\ k \in Nodes /\ to.first = 0 /\ to.used BY NodeTypes DEF Entry
<1>7. Agree(to, k)
  <2>1. k.dirty = FALSE /\ (k.pinned => k.first = 0) BY DEF CleanNode, NoNode
  <2> HIDE DEF k, to
  <2> QED BY <1>6, <2>1 DEF Agree
<1>8. o \in {EntryOf(f), Removed(f)} OBVIOUS
<1>9. LET p == Held(entry[f].first, 0, o)
      IN  Safe(World, EntryStep(p, f, to, k, p))
  BY <1>5
<1> HIDE DEF to, k, o
<1>10. \E z : Goes(Tights(L), World, <<EntryStep(Held(entry[f].first, 0, o), f, to, k, Held(entry[f].first, 0, o))>>
                    \o Finished(FreeChain(Chain(table, entry[f].first))), z)
  BY <1>6, <1>7, <1>8, <1>9, DropTight, Zenon
<1> QED BY <1>1, <1>10 DEF o

\* The first two writes of a plan that runs are safe.
LEMMA TwoSafe ==
  ASSUME NEW w, NEW a, NEW b, NEW q, \E S : q \in Seq(S), NEW z, Runs(w, <<a, b>> \o q, z)
  PROVE  Safe(w, a) /\ Safe(Landed(w, a), b)
<1>1. PICK S : q \in Seq(S) OBVIOUS
<1> DEFINE T == S \cup {a, b}
           r == <<a, b>> \o q
           ab == <<a, b>>
<1>2. /\ ab \in Seq(T) /\ q \in Seq(T) /\ Len(ab) = 2 /\ ab[1] = a /\ ab[2] = b /\ Len(q) \in Nat
      /\ r = ab \o q
  BY <1>1
<1> HIDE DEF T, ab, r
<1>0. r \in Seq(T) /\ Len(r) \in Nat /\ Len(r) >= 2 /\ r[1] = a /\ r[2] = b
  <2>1. Len(r) = Len(ab) + Len(q) /\ \A i \in 1 .. Len(ab) : r[i] = ab[i]
    <3>1. ab \in Seq(T) /\ q \in Seq(T) BY <1>2
    <3>2. Len(ab \o q) = Len(ab) + Len(q) /\ \A i \in 1 .. Len(ab) : (ab \o q)[i] = ab[i] BY <3>1, Concat, Zenon
    <3> QED BY <1>2, <3>2, Zenon
  <2>2. r \in Seq(T) BY <1>2
  <2> QED BY <1>2, <2>1, <2>2
<1>3. r # <<>> BY <1>0
<1>a. Tail(r) \in Seq(T) /\ Len(Tail(r)) = Len(r) - 1 /\ Tail(r)[1] = r[2] BY <1>0
<1>b. Tail(r) # <<>>
  <2> DEFINE y == Tail(r)
  <2>1. y \in Seq(T) /\ Len(y) = Len(r) - 1 BY <1>a
  <2> HIDE DEF y
  <2>2. y # <<>> BY <1>0, <2>1
  <2> QED BY <2>2 DEF y
<1>4. Runs(w, r, z) BY DEF r, ab
<1>5. Safe(w, a) /\ Runs(Landed(w, a), Tail(r), z) BY <1>0, <1>3, <1>4, RunsTail
<1>6. Safe(Landed(w, a), Tail(r)[1]) BY <1>5, <1>b, RunsTail, Zenon
<1> QED BY <1>0, <1>5, <1>6, <1>a

\* What is behind the k-th element of a sequence.
LEMMA RestIs ==
  ASSUME NEW q \in Seq(Clusters), NEW k \in Nat, k < Len(q)
  PROVE  /\ Len(SubSeq(q, k + 1, Len(q))) = Len(q) - k
         /\ \A j \in 1 .. Len(q) - k : SubSeq(q, k + 1, Len(q))[j] = q[k + j]
  OBVIOUS

\* ... a shrink that keeps some clusters, ...
LEMMA CutTight ==
  ASSUME Good(World, NoPending), NEW f \in Files, entry[f].used, NEW len \in 0 .. MaxSize,
         entry[f].first # 0,
         NEW k \in Nat, k # 0, k < Len(Chain(table, entry[f].first)),
         NEW L, Covered(table, Roots(entry), L)
  PROVE  LET c == entry[f].first
             q == Chain(table, c)
             last == q[k]
             rest == SubSeq(q, k + 1, Len(q))
             cut == Held(rest[1], 0, Cut(f, len, last))
             held == Held(rest[1], 0, AtTail(last))
             s == <<Store(cut, f, c, len, held), FatStep(held, [x \in {last} |-> EOC], held)>>
                  \o Finished(FreeChain(rest))
         IN  \E z : Goes(Tights(L), World, s, z)
<1> DEFINE c == entry[f].first
           q == Chain(table, c)
           last == q[k]
           rest == SubSeq(q, k + 1, Len(q))
           h == rest[1]
           cut == Held(h, 0, Cut(f, len, last))
           held == Held(h, 0, AtTail(last))
           w == World
           to == Entry(c, len)
           x == [entry EXCEPT ![f] = to]
           a == Store(cut, f, c, len, held)
           d == [y \in {last} |-> EOC]
           b == FatStep(held, d, held)
           n == IF node[f].pinned THEN CleanNode(c, len) ELSE NoNode
           v == Put(w, f, to, n)
           u == Patched(table, d)
           g == [table |-> u, entry |-> v.entry, node |-> v.node]
<1>1. /\ w.table = table /\ w.entry = entry /\ w.node = node /\ w \in Worlds
      /\ table \in [Clusters -> Values] /\ entry \in [Files -> Entries] /\ node \in [Files -> Nodes]
      /\ Sound(table, entry)
  BY WorldFields
<1>2. node[f] \in Nodes /\ Agree(entry[f], node[f]) BY ReadyState
<1>3. c # 0 /\ c \in Clusters /\ table[c] # Free /\ LinkedBy(table, entry, c, {}, {f}) BY <1>1, FirstLinked, Zenon
<1>4. IsPath(table, q) /\ Len(q) \in Nat /\ table[q[Len(q)]] = EOC /\ q \in Seq(Clusters)
  BY <1>1, <1>3, FileChain DEF IsPath
<1>5. k < Len(q) OBVIOUS
<1>6. to \in Entries /\ n \in Nodes /\ to.used /\ to.first = c BY <1>3, NodeTypes DEF Entry
<1>7. Agree(to, n)
  <2>1. n.dirty = FALSE /\ (n.pinned => n.first = c) BY DEF CleanNode, NoNode
  <2> HIDE DEF n, to, c
  <2> QED BY <1>6, <2>1 DEF Agree
<1>8. \E z \in Worlds : Runs(w, <<a, b>> \o Finished(FreeChain(rest)), z) BY <1>3, CutRuns, Zenon
<1>a. a = EntryStep(cut, f, to, n, held) BY DEF Store
<1> HIDE DEF c, q, to, n, a, w
<1>9. IsPath(table, rest) /\ rest # <<>> /\ h = q[k + 1]
  <2>1. \A i \in 1 .. Len(q) : k < i => table[q[i]] = table[q[i]] OBVIOUS
  <2> QED BY <1>4, <1>5, <2>1, PathRest, Zenon
<1>10. last \in Clusters /\ h \in Clusters /\ table[last] = h
  <2>1. k \in 1 .. Len(q) - 1 BY <1>4, <1>5
  <2>2. Sound(table, entry) /\ IsPath(table, q) BY <1>1, <1>4
  <2>3. /\ q[k] \in Clusters /\ q[k + 1] \in Clusters /\ table[q[k]] = q[k + 1]
        /\ LinkedBy(table, entry, q[k + 1], {q[k]}, {})
    BY <2>1, <2>2, PathLinked, Zenon
  <2> QED BY <1>9, <2>3
<1>11. h # 0 /\ table[last] # Free BY <1>10, Numbers, Zenon
<1>12. rest \in Seq(Clusters) BY <1>9 DEF IsPath
<1>13. \E S : Finished(FreeChain(rest)) \in Seq(S) BY <1>12, PlanSeq, Zenon
<1>14. Safe(w, a) /\ Safe(Landed(w, a), b)
  <2> HIDE DEF b, rest
  <2> QED BY <1>8, <1>13, TwoSafe
<1>15. /\ cut.extra = 0 /\ held.extra = 0 /\ held.head = h /\ held.owner = AtTail(last)
  <2> HIDE DEF h, last
  <2> QED BY DEF Held
<1>len. Len(rest) = Len(q) - k /\ \A j \in 1 .. Len(q) - k : rest[j] = q[k + j]
  BY <1>4, <1>5, RestIs, Zenon
<1>b. ASSUME NEW i \in 1 .. Len(rest)
      PROVE  /\ rest[i] = q[k + i] /\ k + i \in 1 .. Len(q) /\ (i < Len(rest) => k + i < Len(q))
             /\ (i = Len(rest) => k + i = Len(q))
  <2>1. Len(rest) = Len(q) - k /\ \A j \in 1 .. Len(q) - k : rest[j] = q[k + j]
    BY <1>len
  <2> HIDE DEF rest
  <2> DEFINE lr == Len(rest)
             lq == Len(q)
  <2>2. lq \in Nat /\ lr = lq - k /\ i \in 1 .. lr /\ k < lq BY <1>4, <1>5, <2>1
  <2>3. rest[i] = q[k + i] BY <2>1, <2>2, Zenon
  <2> HIDE DEF lr, lq
  <2>4. k + i \in 1 .. lq /\ (i < lr => k + i < lq) /\ (i = lr => k + i = lq) BY <2>2
  <2> QED BY <2>3, <2>4 DEF lr, lq
<1> HIDE DEF cut, held, h, rest
<1>16. Covered(table, Roots(x), L)
  <2>1. Roots(entry) \subseteq Roots(x) BY <1>1, <1>3, <1>6, RootsPut, Zenon DEF c
  <2> HIDE DEF x
  <2> QED BY <2>1, CoverMore
<1>17. Snug(w, cut, L)
  <2>1. Joined(w.table, cut) BY <1>15, JoinedHead
  <2> QED BY <1>1, <2>1, SnugAny
<1>18. Goes(Tights(L), w, <<a>>, v) /\ Landed(w, a) = v
  <2>1. Covered(w.table, Roots([w.entry EXCEPT ![f] = to]), L) BY <1>1, <1>16
  <2>2. Safe(w, EntryStep(cut, f, to, n, held)) BY <1>a, <1>14
  <2>3. /\ Goes(Tights(L), w, <<EntryStep(cut, f, to, n, held)>>, Put(w, f, to, n))
        /\ Landed(w, EntryStep(cut, f, to, n, held)) = Put(w, f, to, n)
    <3>1. w \in Worlds /\ cut.extra = 0 /\ held.extra = 0 BY <1>1, <1>15
    <3> QED BY <1>17, <2>1, <2>2, <3>1, EntryKeeps, SMTT(40)
  <2> QED BY <1>a, <2>3
<1>19. Good(v, NoPending)
  <2>1. to.used /\ to.first # 0 => w.table[to.first] # Free /\ LinkedBy(w.table, w.entry, to.first, {}, {f})
    BY <1>1, <1>3, <1>6
  <2>2. Good(w, NoPending) BY DEF w
  <2> QED BY <1>6, <1>7, <2>1, <2>2, PutNone, Zenon
<1>20. v.table = table /\ v.entry = x /\ v \in Worlds
  BY <1>1, <1>19 DEF Good, Put
<1> HIDE DEF v, x
<1>21. Safe(v, b) BY <1>14, <1>18
<1>22. Landed(v, b) = g
  <2>1. b.kind = "fat" /\ b.patch = d BY FatStepFields
  <2> HIDE DEF b, d
  <2> QED BY <1>20, <2>1 DEF Landed
<1> HIDE DEF g
<1>23. b \in AllSteps /\ Good(g, held)
  <2>1. b.post = held BY FatStepFields
  <2> HIDE DEF b
  <2> QED BY <1>21, <1>22, <2>1 DEF Safe
<1>24. g.table = u /\ g.entry = x /\ g.node = v.node BY <1>20 DEF g
<1>25. \A y \in Clusters : u[y] = IF y \in {last} THEN EOC ELSE table[y] BY DEF Patched
<1> HIDE DEF u
<1>26. Good(g, NoPending)
  <2>1. NodeOK(g.table, g.entry, g.node, NoPending)
    <3>1. NodeOK(v.table, v.entry, v.node, NoPending) BY <1>19 DEF Good
    <3> QED BY <1>20, <1>24, <3>1, NodesFit
  <2> QED BY <1>23, <2>1, NonePending, PendingType DEF Good
<1>27. Covered(u, Roots(x) \cup {h}, L)
  <2> DEFINE Q == Roots(x) \cup {h}
  <2>1. Covered(table, Q, L) BY <1>16, CoverMore
  <2>2. \A y \in {last} : table[y] # Free /\ (table[y] \in Clusters => table[y] \in Q) BY <1>10, <1>11
  <2> HIDE DEF Q
  <2> QED BY <1>25, <2>1, <2>2, CoverCut, Zenon DEF Q
<1>28. Snug(g, held, L)
  <2>1. Marked(held) = {h} BY <1>11, <1>15 DEF Marked
  <2>2. ~Settled(g, held) BY <1>15 DEF Settled, AtTail
  <2>3. Joined(g.table, held) BY <1>15, JoinedHead
  <2> QED BY <1>24, <1>27, <2>1, <2>2, <2>3 DEF Snug
<1>29. Snug(v, held, L)
  <2>1. Joined(v.table, held) BY <1>15, JoinedHead
  <2> QED BY <1>16, <1>20, <2>1, SnugAny
<1>30. Goes(Tights(L), v, <<b>>, g)
  <2>1. <<v, b>> \in Tights(L)
    <3> HIDE DEF d
    <3> QED BY <1>20, <1>22, <1>23, <1>28, <1>29, FatTight
  <2> HIDE DEF b
  <2> QED BY <1>21, <1>22, <2>1, TightFirst
<1>31. ASSUME NEW i \in 1 .. Len(rest) PROVE u[rest[i]] = table[rest[i]]
  <2>1. k \in 1 .. Len(q) /\ k # k + i /\ k + i \in 1 .. Len(q)
    <3>1. k + i \in 1 .. Len(q) BY <1>b, Zenon
    <3>2. Len(q) \in Nat BY <1>4, Zenon
    <3>3. Len(rest) = Len(q) - k BY <1>len
    <3> HIDE DEF q, rest
    <3>4. i \in Nat /\ i >= 1 BY <3>2, <3>3
    <3> QED BY <3>1, <3>2, <3>4, <1>5
  <2>2. q[k + i] # last /\ q[k + i] \in Clusters BY <1>4, <2>1 DEF IsPath, last
  <2> QED BY <1>25, <1>b, <2>2, Zenon
<1>32. Loose(g.table, g.entry, rest)
  <2>1. IsPath(u, rest)
    <3>1. /\ rest \in Seq(Clusters)
          /\ \A i \in 1 .. Len(rest) : table[rest[i]] # Free
          /\ \A i \in 1 .. Len(rest) - 1 : table[rest[i]] = rest[i + 1]
          /\ \A i, j \in 1 .. Len(rest) : rest[i] = rest[j] => i = j
      BY <1>9 DEF IsPath
    <3>2. \A i \in 1 .. Len(rest) : u[rest[i]] # Free BY <1>31, <3>1, Zenon
    <3>3. \A i \in 1 .. Len(rest) - 1 : u[rest[i]] = rest[i + 1]
      <4>1. \A i \in 1 .. Len(rest) - 1 : i \in 1 .. Len(rest) BY <3>1
      <4> QED BY <1>31, <3>1, <4>1, Zenon
    <3> QED BY <3>1, <3>2, <3>3 DEF IsPath
  <2>2. LinkedBy(u, x, h, {}, {})
    <3>1. ASSUME NEW y \in Clusters PROVE u[y] # h
      <4>1. CASE y = last BY <1>10, <1>25, <4>1, Numbers
      <4>2. CASE y # last
        <5>1. u[y] = table[y] BY <1>25, <4>2
        <5> QED BY <1>1, <1>10, <4>2, <5>1 DEF Sound
      <4> QED BY <4>1, <4>2
    <3>2. ASSUME NEW e \in Files, x[e].used, x[e].first = h PROVE FALSE
      <4>1. Sound(g.table, g.entry) BY <1>23 DEF Good
      <4>2. Sound(v.table, v.entry) BY <1>19 DEF Good
      <4> QED BY <1>10, <1>11, <1>20, <3>2, <4>2 DEF Sound
    <3> QED BY <3>1, <3>2 DEF LinkedBy
  <2> QED BY <1>24, <2>1, <2>2 DEF Loose, h
<1>33. Closed(u, Prefix(rest, Len(rest)))
  <2> SUFFICES ASSUME NEW i \in 1 .. Len(rest), u[rest[i]] \in Clusters
               PROVE  u[rest[i]] \in Prefix(rest, Len(rest))
    BY Zenon DEF Closed, Prefix
  <2>0. Len(rest) \in Nat BY <1>12
  <2>1. CASE i < Len(rest)
    <3>1. i \in 1 .. Len(rest) - 1 /\ i + 1 \in 1 .. Len(rest) BY <2>0, <2>1
    <3>2. table[rest[i]] = rest[i + 1] BY <1>9, <3>1 DEF IsPath
    <3> QED BY <1>31, <3>1, <3>2 DEF Prefix
  <2>2. CASE i = Len(rest)
    <3>1. rest[i] = q[Len(q)] BY <1>b, <2>2, Zenon
    <3> QED BY <1>4, <1>31, <3>1, Numbers
  <2> QED BY <2>0, <2>1, <2>2
<1>34. Sole(g, rest, L) BY <1>9, <1>24, <1>27, <1>33 DEF Sole, h
<1>35. PICK z : Goes(Tights(L), g, Finished(FreeChain(rest)), z) BY <1>26, <1>32, <1>34, FreeChainTight
<1>36. Goes(Tights(L), w, <<a>> \o <<b>>, g)
  <2> HIDE DEF b
  <2> QED BY <1>18, <1>30, GoesJoin
<1>37. <<a>> \o <<b>> = <<a, b>>
  <2>1. a \in AllSteps /\ b \in AllSteps BY <1>14, <1>23 DEF Safe
  <2> HIDE DEF b
  <2> QED BY <2>1, JoinTwo
<1>38. Goes(Tights(L), w, <<a, b>> \o Finished(FreeChain(rest)), z)
  <2> HIDE DEF b
  <2> QED BY <1>35, <1>36, <1>37, GoesJoin, Zenon
<1> QED BY <1>38, Zenon DEF w, a, rest, held, cut, h, q, c

\* ... truncate, ...
LEMMA ShrinkTight ==
  ASSUME Good(World, NoPending), NEW f \in Files, entry[f].used, NEW len \in 0 .. MaxSize,
         NEW L, Covered(table, Roots(entry), L)
  PROVE  \E z : Goes(Tights(L), World, ShrinkPlan(f, len), z)
<1> DEFINE c == entry[f].first
           chain == Chain(table, c)
           keep == Need(len)
           w == World
<1>1. /\ w.table = table /\ w.entry = entry /\ w \in Worlds /\ entry \in [Files -> Entries]
      /\ table \in [Clusters -> Values] /\ Sound(table, entry)
  BY WorldFields
<1>2. State(f).first = c BY ReadyState
<1>3. keep \in Nat
  <2>1. len \in Nat BY SizeAssumption
  <2> QED BY <2>1, NeedOne
<1>4. Len(chain) \in Nat /\ (c = 0 => Len(chain) = 0)
  <2>1. c = 0 => chain = <<>> BY <1>1, FileChain
  <2>2. c # 0 => Len(chain) \in Nat BY <1>1, FileChain
  <2> QED BY <2>1, <2>2
<1> HIDE DEF keep
<1>5. CASE keep = 0 /\ c # 0
  <2>1. ShrinkPlan(f, len) = <<Store(Held(c, 0, EntryOf(f)), f, 0, len, Held(c, 0, EntryOf(f)))>>
                              \o Finished(FreeChain(chain))
    BY <1>2, <1>5 DEF ShrinkPlan, keep
  <2> QED BY <1>5, <2>1, EmptyTight
<1>6. CASE keep # 0 /\ keep < Len(chain)
  <2> DEFINE last == chain[keep]
             rest == SubSeq(chain, keep + 1, Len(chain))
             cut == Held(rest[1], 0, Cut(f, len, last))
             held == Held(rest[1], 0, AtTail(last))
  <2>1. c # 0 BY <1>3, <1>4, <1>6
  <2>2. ShrinkPlan(f, len) =
          <<Store(cut, f, c, len, held), FatStep(held, [x \in {last} |-> EOC], held)>>
          \o Finished(FreeChain(rest))
    BY <1>2, <1>6, Zenon DEF ShrinkPlan, keep
  <2> QED BY <1>3, <1>6, <2>1, <2>2, CutTight, Zenon
<1>7. CASE ~(keep = 0 /\ c # 0) /\ ~(keep # 0 /\ keep < Len(chain))
  <2> DEFINE to == Entry(c, len)
             k == IF node[f].pinned THEN CleanNode(c, len) ELSE NoNode
             s == EntryStep(NoPending, f, to, k, NoPending)
  <2>1. ShrinkPlan(f, len) = <<s>> BY <1>2, <1>7, Zenon DEF ShrinkPlan, keep, Store
  <2>2. PICK z : Runs(w, <<s>>, z) BY <2>1, ShrinkRuns
  <2>3. <<s>> \o <<>> = <<s>> /\ \E S : <<>> \in Seq(S)
    <3>1. <<s>> \in Seq({s}) /\ <<>> \in Seq({s}) OBVIOUS
    <3> HIDE DEF s
    <3> QED BY <3>1
  <2>4. Safe(w, s)
    <3> HIDE DEF s, w
    <3> QED BY <2>2, <2>3, FirstSafe, Zenon
  <2>5. to \in Entries /\ to.used /\ to.first = c
    <3>1. c \in Clusters \cup {0} BY <1>1 DEF Entries
    <3> QED BY <3>1, NodeTypes DEF Entry
  <2> HIDE DEF to, k, w, s
  <2>6. Roots(entry) \subseteq Roots([entry EXCEPT ![f] = to]) BY <1>1, <2>5, RootsPut, Zenon
  <2>7. Covered(w.table, Roots([w.entry EXCEPT ![f] = to]), L) BY <1>1, <2>6, CoverMore, Zenon
  <2>8. Snug(w, NoPending, L) BY <1>1, SnugNone
  <2>9. NoPending.extra = 0 BY PendingType
  <2>10. Goes(Tights(L), w, <<EntryStep(NoPending, f, to, k, NoPending)>>, Put(w, f, to, k))
    BY <1>1, <2>4, <2>7, <2>8, <2>9, EntryKeeps, Zenon DEF s
  <2> QED BY <2>1, <2>10 DEF w, s
<1> QED BY <1>5, <1>6, <1>7

\* ... and close, fsync and sync, whatever is pending.
LEMMA FlushTight ==
  ASSUME NEW p, Good(World, p), NEW f \in Files, node[f].dirty, entry[f].used,
         NEW L, Snug(World, p, L)
  PROVE  LET s == <<Store(p, f, node[f].first, node[f].size, p)>>
         IN  \E z : Goes(Tights(L), World, s, z) /\ Snug(z, p, L)
<1> DEFINE w == World
           n == node[f]
           to == Entry(n.first, n.size)
           k == CleanNode(n.first, n.size)
           s == EntryStep(p, f, to, k, p)
           x == [entry EXCEPT ![f] = to]
           o == p.owner
           v == Put(w, f, to, k)
<1>1. /\ w.table = table /\ w.entry = entry /\ w.node = node /\ w \in Worlds
      /\ table \in [Clusters -> Values] /\ entry \in [Files -> Entries] /\ node \in [Files -> Nodes]
      /\ NodeOK(table, entry, node, p)
  BY WorldFields
<1>2. n \in Nodes /\ n.first \in Clusters \cup {0} /\ n.size \in 0 .. MaxSize BY <1>1 DEF Nodes
<1>3. NodeFits(table, entry[f], n, p, f) BY <1>1 DEF NodeOK
<1>4. n.pinned /\ n.first # 0 BY <1>3 DEF NodeFits
<1>5. to \in Entries /\ to.used /\ to.first = n.first BY <1>2, NodeTypes DEF Entry
<1>6. Store(p, f, n.first, n.size, p) = s BY <1>4 DEF Store
<1>7. \E z \in Worlds : Runs(w, <<s>>, z) BY <1>6, FlushRuns
<1>8. <<s>> \o <<>> = <<s>> /\ \E S : <<>> \in Seq(S)
  <2>1. <<s>> \in Seq({s}) /\ <<>> \in Seq({s}) OBVIOUS
  <2> HIDE DEF s
  <2> QED BY <2>1
<1>9. Safe(w, s)
  <2> HIDE DEF s, w
  <2> QED BY <1>7, <1>8, FirstSafe, Zenon
<1>10. k.dirty = FALSE BY DEF CleanNode
<1>11. p \in Pendings /\ o \in Owners BY DEF Good, Pendings
<1>12. n.dirty OBVIOUS
<1> HIDE DEF to, k, n, w
<1>13. x \in [Files -> Entries] /\ x[f] = to /\ \A g \in Files : g # f => x[g] = entry[g] BY <1>1, <1>5
<1>14. /\ Roots(entry) \subseteq Roots(x) \cup ({entry[f].first} \ {0})
       /\ entry[f].first = n.first \/ entry[f].first = 0 => Roots(entry) \subseteq Roots(x)
       /\ n.first \in Roots(x)
  <2>1. LET y == [entry EXCEPT ![f] = to]
        IN  /\ y \in [Files -> Entries]
            /\ Roots(entry) \subseteq Roots(y) \cup ({entry[f].first} \ {0})
            /\ ~entry[f].used \/ entry[f].first = 0 \/ (to.used /\ to.first = entry[f].first) => Roots(entry) \subseteq Roots(y)
            /\ to.used /\ to.first # 0 => to.first \in Roots(y)
            /\ ~entry[f].used => Roots(entry) \subseteq Roots(y)
    BY <1>1, <1>5, RootsPut, Zenon
  <2> QED BY <1>4, <1>5, <2>1, Zenon
<1> HIDE DEF x
\* The entry has the first cluster of its node, or has none yet and takes up the pending chain.
<1>15. \/ entry[f].first = n.first
       \/ entry[f].first = 0 /\ o = EntryOf(f) /\ n.first = p.head
  BY <1>3, <1>4 DEF NodeFits
<1>16. Roots(entry) \subseteq Roots(x) BY <1>14, <1>15
<1>17. /\ Covered(table, Roots(entry) \cup Marked(p), L) /\ Joined(table, p)
       /\ Settled(w, p) => Covered(table, Roots(entry), L)
  BY <1>1 DEF Snug, w
<1>18. ASSUME Settled(w, p) PROVE Covered(table, Roots(x), L)
  <2>1. Covered(table, Roots(entry), L) BY <1>17, <1>18
  <2> QED BY <1>16, <2>1, CoverMore
\* The chain that the entry takes up has no extra part.
<1>19. ASSUME o = EntryOf(f), n.first = p.head, p.extra = 0 PROVE Covered(table, Roots(x), L)
  <2>1. Marked(p) \subseteq {n.first} BY <1>19 DEF Marked
  <2>2. Roots(entry) \cup Marked(p) \subseteq Roots(x) BY <1>14, <1>16, <2>1
  <2> QED BY <1>17, <2>2, CoverMore
<1>20. ASSUME NEW u, u.table = table, u.entry = x,
              \A g \in Files : u.node[g].dirty => w.node[g].dirty,
              Settled(u, p)
       PROVE  Covered(table, Roots(x), L)
  <2>1. CASE o.kind = "cut"
    <3>1. o.file \in Files BY <1>11, <2>1, OwnerParts
    <3>2. u.node[o.file].dirty \/ ~(x[o.file].used /\ x[o.file].size = o.size)
      BY <1>20, <2>1 DEF Settled
    <3>3. w.node[o.file].dirty \/ ~(entry[o.file].used /\ entry[o.file].size = o.size)
      <4>1. CASE o.file = f BY <1>1, <1>12, <4>1 DEF n
      <4>2. CASE o.file # f BY <1>13, <1>20, <3>1, <3>2, <4>2
      <4> QED BY <4>1, <4>2
    <3>4. Settled(w, p) BY <1>1, <2>1, <3>3 DEF Settled
    <3> QED BY <1>18, <3>4
  <2>2. CASE o.kind \in {"entry", "removed"}
    <3>1. /\ o.file \in Files /\ p.head # 0 /\ x[o.file].used /\ x[o.file].first = p.head
      BY <1>11, <1>20, <2>2, OwnerParts DEF Settled
    <3>2. CASE o.file # f
      <4>1. entry[o.file].used /\ entry[o.file].first = p.head BY <1>13, <3>1, <3>2
      <4>2. Settled(w, p) BY <1>1, <2>2, <3>1, <4>1 DEF Settled
      <4> QED BY <1>18, <4>2
    <3>3. CASE o.file = f
      <4>1. n.first = p.head BY <1>5, <1>13, <3>1, <3>3
      <4>2. CASE entry[f].first = n.first
        <5>1. entry[o.file].used /\ entry[o.file].first = p.head BY <3>3, <4>1, <4>2
        <5>2. Settled(w, p) BY <1>1, <2>2, <3>1, <5>1 DEF Settled
        <5> QED BY <1>18, <5>2
      <4>3. CASE entry[f].first # n.first
        <5>1. p.extra = 0 /\ o = EntryOf(f) BY <1>3, <1>4, <4>3 DEF NodeFits
        <5> QED BY <1>19, <4>1, <5>1
      <4> QED BY <4>2, <4>3
    <3> QED BY <3>2, <3>3
  <2>3. o.kind \in {"cut", "entry", "removed"} BY <1>20 DEF Settled
  <2> QED BY <2>1, <2>2, <2>3
<1>21. ASSUME NEW u, u.table = table, u.entry = x, \A g \in Files : u.node[g].dirty => w.node[g].dirty
       PROVE  Snug(u, p, L)
  <2>1. Roots(entry) \cup Marked(p) \subseteq Roots(x) \cup Marked(p) BY <1>16
  <2>2. Covered(table, Roots(x) \cup Marked(p), L) BY <1>17, <2>1, CoverMore
  <2>3. Settled(u, p) => Covered(table, Roots(x), L) BY <1>20, <1>21
  <2> QED BY <1>17, <1>21, <2>2, <2>3 DEF Snug
<1>22. Snug(Put(w, f, to, w.node[f]), p, L)
  <2> DEFINE u == Put(w, f, to, w.node[f])
  <2>1. u.table = table /\ u.entry = x /\ u.node = [w.node EXCEPT ![f] = w.node[f]] BY <1>1 DEF Put, x
  <2>2. u.node = w.node BY <1>1, <2>1
  <2> HIDE DEF u
  <2> QED BY <1>21, <2>1, <2>2 DEF u
<1>23. v.table = table /\ v.entry = x /\ v.node = [w.node EXCEPT ![f] = k] BY <1>1 DEF Put, x
<1> HIDE DEF v
<1>24. Snug(v, p, L)
  <2>1. \A g \in Files : v.node[g].dirty => w.node[g].dirty BY <1>1, <1>10, <1>23
  <2> QED BY <1>21, <1>23, <2>1, Zenon
<1>25. Landed(w, s) = v
  <2>1. s.kind = "entry" /\ s.file = f /\ s.to = to /\ s.node = k BY DEF EntryStep
  <2> HIDE DEF s
  <2> QED BY <2>1 DEF Landed, Put, v
<1>26. s \in AllSteps BY <1>9 DEF Safe
<1>27. <<w, s>> \in Tights(L)
  <2>1. Snug(w, p, L) BY DEF w
  <2> QED BY <1>1, <1>22, <1>24, <1>26, <2>1, EntryTight DEF v
<1> HIDE DEF s
<1>28. Goes(Tights(L), w, <<s>>, v) BY <1>9, <1>25, <1>27, TightFirst
<1> QED BY <1>6, <1>24, <1>28 DEF w, n

\* The end of a plan.
LEMMA EmptyEnd ==
  ASSUME NEW s
  PROVE  <<s>> \o <<>> = <<s>> /\ \E S : <<>> \in Seq(S)
<1>1. <<s>> \in Seq({s}) /\ <<>> \in Seq({s}) OBVIOUS
<1> QED BY <1>1

\* The end of growth, once every cluster in use can be reached from the files
\* and from the first cluster that the entry is to have.
LEMMA PublishTight ==
  ASSUME Good(World, NoPending), NEW f \in Files, entry[f].used,
         NEW w, Good(w, NoPending), w.node = node, w.entry = entry,
         NEW held, Good(w, held), NEW first \in Clusters, NEW size \in 0 .. MaxSize,
         \/ first = entry[f].first
         \/ /\ entry[f].first = 0 /\ held = Held(first, 0, EntryOf(f))
            /\ w.table[first] # Free /\ LinkedBy(w.table, w.entry, first, {}, {}),
         NEW L, Snug(w, held, L), held.extra = 0,
         Covered(w.table, Roots(entry) \cup {first}, L)
  PROVE  \E z : Goes(Tights(L), w, Publish(held, f, first, size), z)
<1> DEFINE n == State(f)
           to == Entry(first, size)
           x == [entry EXCEPT ![f] = to]
<1>1. /\ n.first = entry[f].first
      /\ entry[f] \in Entries /\ node[f] \in Nodes
  BY ReadyState
<1>2. w \in Worlds BY DEF Good
<1>3. w.entry \in [Files -> Entries] /\ w.node \in [Files -> Nodes] /\ entry \in [Files -> Entries]
  BY <1>2 DEF Worlds
<1>4. to \in Entries /\ to.used /\ to.first = first /\ first # 0
  BY NodeTypes, Numbers DEF Entry
<1>5. \E z \in Worlds : Runs(w, Publish(held, f, first, size), z)
  BY PublishRuns
<1>6. first = entry[f].first \/ entry[f].first = 0 OBVIOUS
<1>7. Snug(w, held, L) /\ Covered(w.table, Roots(entry) \cup {first}, L) OBVIOUS
<1> HIDE DEF to
<1>8. CASE node[f].pinned /\ first = n.first
  <2> DEFINE k == [n EXCEPT !.size = size, !.dirty = TRUE]
             s == DataStep(held, f, k, NoPending)
             v == Put(w, f, w.entry[f], k)
  <2>1. Publish(held, f, first, size) = <<s>> BY <1>8 DEF Publish
  <2> HIDE DEF k
  <2>2. Safe(w, s)
    <3> HIDE DEF s
    <3> QED BY <1>5, <2>1, EmptyEnd, FirstSafe, Zenon
  <2>3. first \in Roots(entry) BY <1>1, <1>3, <1>4, <1>8, RootsType
  <2>4. Covered(w.table, Roots(entry), L)
    <3>1. Roots(entry) \cup {first} = Roots(entry) BY <2>3
    <3> QED BY <1>7, <3>1
  <2>5. v.table = w.table /\ v.entry = entry
    <3>1. [w.entry EXCEPT ![f] = w.entry[f]] = w.entry BY <1>2, SameEntry, Zenon
    <3> QED BY <3>1 DEF Put
  <2>6. s \in AllSteps BY <2>2 DEF Safe
  <2>7. Landed(w, s) = v
    <3>1. s.kind = "data" /\ s.file = f /\ s.node = k BY DEF DataStep
    <3>2. [w.entry EXCEPT ![f] = w.entry[f]] = w.entry BY <1>2, SameEntry, Zenon
    <3> HIDE DEF s
    <3> QED BY <3>1, <3>2 DEF Landed, Put
  <2> HIDE DEF v
  <2>8. Snug(v, NoPending, L) BY <2>4, <2>5, SnugNone
  <2>9. <<w, s>> \in Tights(L)
    <3>1. Snug(Put(w, f, w.entry[f], k), NoPending, L) BY <2>8 DEF v
    <3> QED BY <1>2, <1>7, <2>6, <3>1, DataTight
  <2> HIDE DEF s
  <2>10. Goes(Tights(L), w, <<s>>, v) BY <2>2, <2>7, <2>9, TightFirst
  <2> QED BY <2>1, <2>10
<1>9. CASE ~(node[f].pinned /\ first = n.first)
  <2> DEFINE s == DataStep(held, f, node[f], held)
             k == IF node[f].pinned THEN CleanNode(first, size) ELSE NoNode
             r == EntryStep(held, f, to, k, NoPending)
  <2>1. Publish(held, f, first, size) = <<s, r>> BY <1>9 DEF Publish, Store, to
  <2> HIDE DEF k
  <2>2. Put(w, f, w.entry[f], node[f]) = w BY <1>2, SameEntry, Zenon
  <2>3. Landed(w, s) = w
    <3>1. s.kind = "data" /\ s.file = f /\ s.node = node[f] BY DEF DataStep
    <3>2. [w.entry EXCEPT ![f] = w.entry[f]] = w.entry BY <1>2, SameEntry, Zenon
    <3> HIDE DEF s
    <3>3. Landed(w, s) = Put(w, f, w.entry[f], node[f]) BY <3>1, <3>2 DEF Landed, Put
    <3> QED BY <2>2, <3>3
  <2>4. Safe(w, s) /\ Safe(w, r)
    <3> HIDE DEF s, r
    <3>1. <<s, r>> \o <<>> = <<s, r>> /\ \E S : <<>> \in Seq(S)
      <4>1. <<s, r>> \in Seq({s, r}) /\ <<>> \in Seq({s, r}) OBVIOUS
      <4> QED BY <4>1
    <3>2. Safe(w, s) /\ Safe(Landed(w, s), r) BY <1>5, <2>1, <3>1, TwoSafe, Zenon
    <3> QED BY <2>3, <3>2
  <2>5. s \in AllSteps /\ r \in AllSteps BY <2>4 DEF Safe
  <2>6. <<w, s>> \in Tights(L)
    <3>1. Snug(Put(w, f, w.entry[f], node[f]), held, L) BY <1>7, <2>2
    <3> QED BY <1>2, <1>7, <2>5, <3>1, DataTight
  <2>7. Goes(Tights(L), w, <<s>>, w)
    <3> HIDE DEF s
    <3> QED BY <2>3, <2>4, <2>6, TightFirst
  <2>8. Covered(w.table, Roots([w.entry EXCEPT ![f] = to]), L)
    <3>1. /\ ~entry[f].used \/ entry[f].first = 0 \/ (to.used /\ to.first = entry[f].first) => Roots(entry) \subseteq Roots(x)
          /\ to.used /\ to.first # 0 => to.first \in Roots(x)
      BY <1>3, <1>4, RootsPut, Zenon
    <3>2. Roots(entry) \cup {first} \subseteq Roots(x) BY <1>4, <1>6, <3>1, Zenon
    <3> HIDE DEF x
    <3>3. Covered(w.table, Roots(x), L) BY <1>7, <3>2, CoverMore
    <3> QED BY <3>3 DEF x
  <2>9. Goes(Tights(L), w, <<r>>, Put(w, f, to, k))
    <3>1. NoPending.extra = 0 BY PendingType
    <3>2. /\ Goes(Tights(L), w, <<EntryStep(held, f, to, k, NoPending)>>, Put(w, f, to, k))
          /\ Landed(w, EntryStep(held, f, to, k, NoPending)) = Put(w, f, to, k)
      BY <1>2, <1>7, <2>4, <2>8, <3>1, EntryKeeps
    <3> QED BY <3>2
  <2> HIDE DEF s, r
  <2>10. Goes(Tights(L), w, <<s>> \o <<r>>, Put(w, f, to, k)) BY <2>7, <2>9, GoesJoin
  <2>11. <<s>> \o <<r>> = <<s, r>> BY <2>5, JoinTwo
  <2> QED BY <2>1, <2>10, <2>11, Zenon
<1> QED BY <1>8, <1>9

\* Whatever was reached from the start of a chain is reached once a tail of
\* its is linked to the clusters that were allocated.
LEMMA GrownLeads ==
  ASSUME NEW w, Good(w, NoPending), NEW q, NEW tail, tail # 0, Fresh(w.table, w.entry, q, tail),
         NEW p, IsPath(w.table, p), p # <<>>, p[Len(p)] = tail
  PROVE  Reaches(AllocWorld(w, q, 1, {tail}).table, p[1], q[1])
<1> DEFINE u == Allocated(w.table, q, 1, {tail})
           r == Append(p, q[1])
           n == Len(p)
<1>1. /\ q \in Seq(Clusters) /\ q # <<>> /\ \A i \in 1 .. Len(q) : w.table[q[i]] = Free
      /\ tail \in Clusters
  BY DEF Fresh
<1>2. /\ p \in Seq(Clusters) /\ n \in Nat /\ n >= 1 /\ Len(q) \in Nat /\ Len(q) >= 1
      /\ \A i \in 1 .. n : w.table[p[i]] # Free
      /\ \A i \in 1 .. n - 1 : w.table[p[i]] = p[i + 1]
      /\ \A i, j \in 1 .. n : p[i] = p[j] => i = j
  BY <1>1 DEF IsPath
<1>3. \A c \in Clusters : (\A i \in 1 .. Len(q) : q[i] # c) => u[c] = IF c \in {tail} THEN q[1] ELSE w.table[c]
  <2>1. 1 \in 1 .. Len(q) + 1 /\ {tail} \in SUBSET ({tail} \ {0}) /\ ({tail} # {} => 1 = 1) BY <1>2
  <2>2. LET y == Allocated(w.table, q, 1, {tail})
        IN  /\ y \in [Clusters -> Values] /\ Sound(y, w.entry)
            /\ \A i \in 1 .. Len(q) : y[q[i]] = IF i < 1 THEN Free ELSE After(q, i)
            /\ \A c \in Clusters : (\A i \in 1 .. Len(q) : q[i] # c) =>
                   y[c] = IF c \in {tail} THEN q[1] ELSE w.table[c]
            /\ tail # 0 => y[tail] = IF tail \in {tail} THEN q[1] ELSE EOC
            /\ \A i \in 1 .. Len(q) : i < 1 => LinkedBy(y, w.entry, q[i], {}, {})
            /\ 1 <= Len(q) => LinkedBy(y, w.entry, q[1], {tail}, {})
    BY <2>1, AllocatedFacts
  <2> QED BY <2>2, Zenon
<1>4. AllocWorld(w, q, 1, {tail}).table = u BY DEF AllocWorld
<1>5. q[1] \in Clusters BY <1>1, <1>2
<1>6. /\ r \in Seq(Clusters) /\ Len(r) = n + 1 /\ r[n + 1] = q[1]
      /\ \A i \in 1 .. n : r[i] = p[i]
  BY <1>2, <1>5
<1> HIDE DEF u, r, n
<1>7. p[n] = tail BY DEF n
<1>8. ASSUME NEW k \in 1 .. n PROVE u[r[k]] = r[k + 1]
  <2>1. p[k] \in Clusters /\ w.table[p[k]] # Free BY <1>2 DEF n
  <2>2. u[p[k]] = IF p[k] \in {tail} THEN q[1] ELSE w.table[p[k]]
    <3>1. \A i \in 1 .. Len(q) : q[i] # p[k] BY <1>1, <2>1
    <3> QED BY <1>3, <2>1, <3>1
  <2>3. CASE k = n BY <1>6, <1>7, <2>2, <2>3
  <2>4. CASE k # n
    <3>1. k \in 1 .. n - 1 /\ k + 1 \in 1 .. n /\ n \in 1 .. n BY <1>2, <2>4
    <3>2. p[k] # tail BY <1>2, <1>7, <2>4, <3>1
    <3> QED BY <1>2, <1>6, <2>2, <3>1, <3>2
  <2> QED BY <2>3, <2>4
<1>9. Reaches(u, r[1], r[n + 1])
  <2>1. 1 \in 1 .. Len(r) /\ n + 1 \in 1 .. Len(r) /\ 1 <= n + 1 BY <1>2, <1>6
  <2>2. \A k \in 1 .. (n + 1) - 1 : u[r[k]] = r[k + 1] BY <1>2, <1>8
  <2> QED BY <1>6, <2>1, <2>2, LinksReach, Zenon
<1>10. r[1] = p[1] BY <1>2, <1>6
<1> QED BY <1>4, <1>6, <1>9, <1>10

\* ... write, ...
LEMMA GrowTight ==
  ASSUME Good(World, NoPending), NEW f \in Files, entry[f].used, NEW end \in 1 .. MaxSize,
         NEW from \in Clusters,
         Need(end) - Len(Chain(table, State(f).first)) <= Cardinality({c \in Clusters : table[c] = Free}),
         NEW N, Covered(table, Roots(entry), N)
  PROVE  \E z : Goes(Tights(N), World, GrowPlan(f, end, from), z)
<1> DEFINE n == State(f)
           c == n.first
           chain == Chain(table, c)
           count == Need(end) - Len(chain)
           size == IF end > n.size THEN end ELSE n.size
           tail == IF c = 0 THEN 0 ELSE Reached(chain)
           owner == IF c = 0 THEN EntryOf(f) ELSE AtTail(tail)
           q == Found(from, count)
           first == IF c = 0 THEN q[1] ELSE c
           held == Held(q[1], 0, owner)
           w == World
<1>1. /\ w.table = table /\ w.entry = entry /\ w.node = node /\ w \in Worlds
      /\ table \in [Clusters -> Values] /\ entry \in [Files -> Entries] /\ node \in [Files -> Nodes]
      /\ Sound(table, entry) /\ NodeOK(table, entry, node, NoPending)
  BY WorldFields
<1>2. n \in Nodes /\ c = entry[f].first /\ c \in Clusters \cup {0} /\ size \in 0 .. MaxSize
  <2>1. n \in Nodes /\ c = entry[f].first BY ReadyState
  <2>2. c \in Clusters \cup {0} /\ n.size \in 0 .. MaxSize BY <2>1 DEF Nodes
  <2>3. end \in 0 .. MaxSize BY SizeAssumption
  <2> QED BY <2>1, <2>2, <2>3
<1>3. Need(end) \in Nat /\ Need(end) >= 1
  <2>1. end \in Nat /\ end >= 1 BY SizeAssumption
  <2> QED BY <2>1, NeedOne
<1>4. /\ c = 0 => chain = <<>>
      /\ c # 0 => /\ IsPath(table, chain) /\ Len(chain) \in Nat /\ Len(chain) >= 1 /\ chain[1] = c
                  /\ chain[Len(chain)] \in Clusters /\ table[chain[Len(chain)]] = EOC
  BY <1>1, <1>2, FileChain
<1>0. Covered(table, Roots(entry), N) OBVIOUS
<1>a. c # 0 => c \in Roots(entry) BY <1>1, <1>2, RootsType
<1> HIDE DEF chain, n, size
<1>5. Len(chain) \in Nat /\ (c = 0 => Len(chain) = 0) BY <1>4
<1>6. GrowPlan(f, end, from) =
        IF count <= 0 THEN Publish(NoPending, f, c, size)
        ELSE Allocate(q, tail, owner) \o Publish(held, f, first, size)
  BY DEF GrowPlan, chain, n, size
<1>7. CASE count <= 0
  <2>1. c # 0 /\ c \in Clusters BY <1>2, <1>3, <1>5, <1>7
  <2>2. Covered(w.table, Roots(entry) \cup {c}, N) BY <1>0, <1>1, CoverMore
  <2>3. Snug(w, NoPending, N) BY <1>0, <1>1, SnugNone
  <2>4. NoPending.extra = 0 BY PendingType
  <2>5. Good(w, NoPending) /\ w.node = node /\ w.entry = entry BY <1>1
  <2> HIDE DEF w, c
  <2>6. \E z : Goes(Tights(N), w, Publish(NoPending, f, c, size), z)
    BY <1>2, <2>1, <2>2, <2>3, <2>4, <2>5, PublishTight, Zenon
  <2> QED BY <1>6, <1>7, <2>6 DEF w
<1>8. CASE ~(count <= 0)
  <2>1. count \in Nat /\ count >= 1 /\ count <= Cardinality({d \in Clusters : table[d] = Free})
    BY <1>3, <1>5, <1>8 DEF chain, n
  <2>2. /\ q \in Seq(Clusters) /\ Len(q) = count
        /\ \A i \in 1 .. count : table[q[i]] = Free
        /\ \A i, j \in 1 .. count : q[i] = q[j] => i = j
    <3> HIDE DEF count
    <3> QED BY <2>1, FoundFree
  <2> HIDE DEF count, q
  <2>3. tail \in Clusters \cup {0} /\ (tail # 0 => table[tail] = EOC) /\ (tail = 0 <=> c = 0)
    BY <1>4, Numbers DEF Reached
  <2>4. Fresh(table, entry, q, tail)
    <3>1. q # <<>> BY <2>1, <2>2
    <3> QED BY <1>1, <2>2, <2>3, <3>1 DEF Fresh
  <2>5. OwnerFor(owner, tail)
    <3>1. CASE c = 0 BY <2>3, <3>1, OwnerTypes DEF OwnerFor
    <3>2. CASE c # 0 BY <2>3, <3>2, OwnerTypes DEF OwnerFor
    <3> QED BY <3>1, <3>2
  <2>0. tail # 0 => chain[Len(chain)] = tail BY DEF Reached
  <2> HIDE DEF tail, owner
  <2> DEFINE L == {tail} \ {0}
             v == AllocWorld(w, q, 1, L)
             A == Tights(N)
  <2>6. Goes(A, w, Allocate(q, tail, owner), v)
    <3>1. Allocates(A, w, q, tail, owner) BY <1>0, <1>1, <2>4, <2>5, AllocatesTight
    <3> HIDE DEF A
    <3> QED BY <1>1, <2>4, <2>5, <3>1, AllocateGoes
  <2>7. 1 \in 1 .. Len(q) + 1 /\ 1 <= Len(q) /\ L \in SUBSET ({tail} \ {0}) /\ 1 \in 1 .. Len(q)
    BY <2>1, <2>2
  <2> HIDE DEF L
  <2>8. Good(v, NoPending) /\ Good(v, held) BY <1>1, <2>4, <2>5, <2>7, AllocGood
  <2>9. v.table = Allocated(table, q, 1, L) /\ v.entry = entry /\ v.node = node
    BY <1>1 DEF AllocWorld
  <2>10. /\ v.table[q[1]] = After(q, 1) /\ LinkedBy(v.table, entry, q[1], L, {})
    <3> DEFINE u == Allocated(table, q, 1, L)
    <3>1. /\ \A i \in 1 .. Len(q) : u[q[i]] = IF i < 1 THEN Free ELSE After(q, i)
          /\ 1 <= Len(q) => LinkedBy(u, entry, q[1], L, {})
      BY <2>4, <2>7, AllocatedFacts
    <3> HIDE DEF u
    <3> QED BY <2>7, <2>9, <3>1 DEF u
  <2>11. q[1] \in Clusters /\ After(q, 1) # Free
    <3>1. q[1] \in Clusters BY <2>2, <2>7
    <3>2. 1 # Len(q) => 1 + 1 \in 1 .. Len(q) BY <2>1, <2>2
    <3>3. 1 # Len(q) => q[1 + 1] \in Clusters BY <2>2, <3>2
    <3> QED BY <3>1, <3>3, Numbers DEF After
  <2>12. Covered(v.table, Roots(entry) \cup {q[1]}, N)
    <3> DEFINE Q == Roots(entry) \cup {q[1]}
    <3>1. 1 \in 1 .. Len(q) + 1 /\ L \in SUBSET ({tail} \ {0}) /\ (L # {} => 1 = 1) BY <2>7
    <3>2. Roots(entry) \subseteq Q /\ (1 <= Len(q) => q[1] \in Q) OBVIOUS
    <3> HIDE DEF Q
    <3>3. /\ Covered(Allocated(table, q, 1, L), Q, N)
          /\ \A i \in 1 .. Len(q) : 1 <= i => Reaches(Allocated(table, q, 1, L), q[1], q[i])
      BY <1>0, <2>4, <3>1, <3>2, CoverAlloc
    <3> QED BY <2>9, <3>3 DEF Q
  <2>13. Snug(v, held, N)
    <3>1. 1 \in 1 .. Len(q) + 1 /\ L \in SUBSET ({tail} \ {0}) /\ (L # {} => 1 = 1) BY <2>7
    <3> DEFINE h == q[1]
    <3>2. h = 0 \/ \E i \in 1 .. Len(q) : q[i] = h BY <2>7
    <3>3. 1 <= Len(q) => q[1] \in {h, 0} OBVIOUS
    <3>4. Good(w, NoPending) /\ Fresh(w.table, w.entry, q, tail) /\ Covered(w.table, Roots(w.entry), N)
      BY <1>0, <1>1, <2>4
    <3> HIDE DEF h, w
    <3>5. Snug(AllocWorld(w, q, 1, L), Held(h, 0, owner), N)
      BY <2>5, <3>1, <3>2, <3>3, <3>4, AllocSnug, Zenon
    <3> QED BY <3>5 DEF h
  <2>14. held.extra = 0 BY HeldFields
  <2> HIDE DEF v
  <2>15. \E z : Goes(A, v, Publish(held, f, first, size), z)
    <3>1. CASE c = 0
      <4>1. first = q[1] /\ L = {} /\ held = Held(first, 0, EntryOf(f)) /\ entry[f].first = 0
        BY <1>2, <2>3, <3>1 DEF L, owner
      <4>2. v.table[first] # Free /\ LinkedBy(v.table, v.entry, first, {}, {}) /\ first \in Clusters
        BY <2>9, <2>10, <2>11, <4>1
      <4>3. Covered(v.table, Roots(entry) \cup {first}, N) BY <2>12, <4>1, Zenon
      <4> HIDE DEF held, first, c
      <4> QED BY <1>2, <2>8, <2>9, <2>13, <2>14, <4>1, <4>2, <4>3, PublishTight, Zenon
    <3>2. CASE c # 0
      <4>1. first = entry[f].first /\ first \in Clusters BY <1>2, <3>2
      <4>2. tail # 0 /\ L = {tail} BY <2>3, <3>2 DEF L
      <4>3. Reaches(v.table, c, q[1])
        <5>1. IsPath(table, chain) /\ chain # <<>> /\ chain[Len(chain)] = tail /\ chain[1] = c
          BY <1>4, <2>0, <3>2, <4>2
        <5>2. Good(w, NoPending) /\ Fresh(w.table, w.entry, q, tail) /\ IsPath(w.table, chain)
          BY <1>1, <2>4, <5>1
        <5> HIDE DEF w
        <5>3. Reaches(AllocWorld(w, q, 1, {tail}).table, chain[1], q[1]) BY <4>2, <5>1, <5>2, GrownLeads, Zenon
        <5> QED BY <4>2, <5>1, <5>3 DEF v
      <4>4. Covered(v.table, Roots(entry), N)
        <5> DEFINE Q == Roots(entry)
        <5>1. c \in Q BY <1>a, <3>2
        <5>2. \A d \in Q \cup {q[1]} : Leads(v.table, Q, d) BY <4>3, <5>1 DEF Leads
        <5> HIDE DEF Q
        <5>3. Covered(v.table, Q \cup {q[1]}, N) BY <2>12 DEF Q
        <5>4. Covered(v.table, Q, N) BY <5>2, <5>3, CoverLess
        <5> QED BY <5>4 DEF Q
      <4>5. Covered(v.table, Roots(entry) \cup {first}, N) BY <4>4, CoverMore
      <4> HIDE DEF held, first, c
      <4> QED BY <1>2, <2>8, <2>9, <2>13, <2>14, <4>1, <4>5, PublishTight, Zenon
    <3> QED BY <3>1, <3>2
  <2>16. PICK z : Goes(A, v, Publish(held, f, first, size), z) BY <2>15
  <2> DEFINE s == Allocate(q, tail, owner)
             r == Publish(held, f, first, size)
  <2>17. Goes(A, w, s, v) /\ Goes(A, v, r, z) BY <2>6, <2>16
  <2>18. GrowPlan(f, end, from) = s \o r BY <1>6, <1>8 DEF count, tail, owner, q
  <2> HIDE DEF s, r, w, A
  <2>19. Goes(A, w, s \o r, z) BY <2>17, GoesJoin
  <2> QED BY <2>18, <2>19 DEF w, A
<1> QED BY <1>7, <1>8

-----------------------------------------------------------------------------
(* Recovery loses no cluster. *)

\* A set of clusters stays closed when links are cut.
LEMMA CutClosed ==
  ASSUME NEW t, NEW u, NEW A, NEW S \in SUBSET Clusters, Closed(t, S),
         \A c \in Clusters : u[c] = IF c \in A THEN EOC ELSE t[c]
  PROVE  Closed(u, S)
<1> SUFFICES ASSUME NEW c \in S, u[c] \in Clusters PROVE u[c] \in S BY DEF Closed
<1>1. c \in Clusters OBVIOUS
<1>2. u[c] = t[c] BY <1>1, Numbers
<1> QED BY <1>2 DEF Closed

\* A plan without writes.
LEMMA NoneReclaimed == \A keep : Reclaim(<<>>, keep) = <<>>
<1> TAKE keep
<1>1. DOMAIN <<>> = {} OBVIOUS
<1> QED BY <1>1 DEF Reclaim

\* reclaim leaves no cluster out: the extra chain leads to what is left at h,
\* or one of the two is gone.
LEMMA ReclaimTight ==
  ASSUME NEW w, Good(w, NoPending), NEW A, NEW x, NEW h, CutOff(table, w.table, w.entry, A, x, h),
         NEW L, Covered(w.table, Roots(w.entry) \cup ({h, x} \ {0}), L),
         x # 0 /\ w.table[x] # Free /\ h # 0 /\ w.table[h] # Free => Reaches(w.table, x, h)
  PROVE  \E z : Goes(Tights(L), w, ReclaimAll(h, x), z) /\ Snug(z, NoPending, L)
<1> DEFINE q == Chain(table, x)
           S == Prefix(q, Len(q))
           d == [c \in {q[i] : i \in DOMAIN q} |-> Free]
           r == Chain(Patched(table, d), h)
           v == Freed(w, q, Len(q))
           R == Roots(w.entry)
           u == w.table
<1>0. /\ table \in [Clusters -> Values] /\ u \in [Clusters -> Values] /\ w.entry \in [Files -> Entries]
      /\ Sound(table, w.entry)
      /\ x \in Clusters \cup {0} /\ h \in Clusters \cup {0}
      /\ \A c \in Clusters : u[c] = IF c \in A THEN EOC ELSE table[c]
      /\ \A a \in A : table[a] # Free
      /\ EOC # Free /\ Free = 0 /\ 0 \notin Clusters
  BY Numbers DEF CutOff
<1>a. \A c \in Clusters : u[c] = Free <=> table[c] = Free BY <1>0
<1>b. Covered(u, R \cup ({h, x} \ {0}), L) OBVIOUS
<1>c. x # 0 /\ u[x] # Free /\ h # 0 /\ u[h] # Free => Reaches(u, x, h) OBVIOUS
<1>1. /\ Loose(u, w.entry, q) /\ Kept(u, w.entry, q, h)
      /\ q # <<>> => x \in Clusters /\ table[x] # Free /\ q[1] = x
      /\ q = <<>> => x = 0 \/ table[x] = Free
  BY ExtraLoose
<1>2. Loose(FreedTable(u, S), w.entry, Chain(FreedTable(table, S), h)) BY HeadLoose
<1>3. q \in Seq(Clusters) /\ DOMAIN q = 1 .. Len(q) /\ Len(q) \in Nat BY <1>1 DEF Loose, IsPath
<1>4. Patched(table, d) = FreedTable(table, S)
  <2> DEFINE D == {q[i] : i \in DOMAIN q}
  <2>1. D = S /\ DOMAIN d = D BY <1>3 DEF Prefix
  <2>2. \A c \in D : d[c] = Free OBVIOUS
  <2> HIDE DEF d, D, S
  <2> QED BY <2>1, <2>2 DEF Patched, FreedTable
<1>5. ReclaimAll(h, x) = Reclaim(q, h) \o Reclaim(r, 0) BY DEF ReclaimAll
<1>d. q # <<>> => S \in SUBSET Clusters /\ q[1] \in S /\ Closed(table, S)
  <2> SUFFICES ASSUME q # <<>> PROVE S \in SUBSET Clusters /\ q[1] \in S /\ Closed(table, S) OBVIOUS
  <2>1. IsPath(table, q) /\ Stuck(table, q) BY <1>1, ChainIsPath
  <2> HIDE DEF q
  <2>2. LET T == {q[i] : i \in 1 .. Len(q)}
        IN  T \in SUBSET Clusters /\ q[1] \in T /\ Closed(table, T)
    BY <1>0, <2>1, ChainClosed
  <2> QED BY <2>2 DEF Prefix
<1> HIDE DEF q, d, R
<1>6. /\ Goes(Tights(L), w, Reclaim(q, h), v) /\ Good(v, NoPending)
      /\ Sole(v, r, L)
  <2>1. CASE q # <<>>
    <3>1. x # 0 /\ x \in Clusters /\ table[x] # Free /\ q[1] = x /\ u[x] # Free BY <1>0, <1>1, <1>a, <2>1
    <3>2. Closed(u, S)
      <4>1. S \in SUBSET Clusters /\ Closed(table, S) BY <1>d, <2>1
      <4> HIDE DEF S
      <4> QED BY <1>0, <4>1, CutClosed
    <3>3. Covered(u, R \cup {x}, L)
      <4> DEFINE Q == R \cup {x}
      <4>1. \A c \in R \cup ({h, x} \ {0}) : Leads(u, Q, c)
        <5> TAKE c \in R \cup ({h, x} \ {0})
        <5>1. CASE c \in Q BY <5>1 DEF Leads
        <5>2. CASE c \notin Q
          <6>1. c = h /\ h # 0 BY <5>2
          <6>2. CASE u[h] = Free BY <1>0, <6>1, <6>2 DEF Leads
          <6>3. CASE u[h] # Free
            <7>1. Reaches(u, x, c) BY <1>c, <3>1, <6>1, <6>3
            <7>2. x \in Q OBVIOUS
            <7> HIDE DEF Q
            <7> QED BY <7>1, <7>2 DEF Leads
          <6> QED BY <6>2, <6>3
        <5> QED BY <5>1, <5>2
      <4> HIDE DEF Q
      <4>2. Covered(u, Q, L) BY <1>b, <4>1, CoverLess
      <4> QED BY <4>2 DEF Q
    <3>4. Sole(w, q, L) BY <2>1, <3>1, <3>2, <3>3 DEF Sole, R
    <3>5. ASSUME h # 0, u[h] # Free PROVE h \in S
      <4>1. Reaches(u, x, h) BY <1>c, <3>1, <3>5
      <4>2. S \in SUBSET Clusters /\ x \in S BY <1>d, <2>1, <3>1
      <4> QED BY <3>2, <4>1, <4>2 DEF Reaches
    <3>6. Follows(u, q, h) BY <3>5 DEF Follows, Prefix
    <3>7. Frees(Reclaim(q, h), q, h) BY <1>3, ReclaimFrees
    <3>8. Goes(Tights(L), w, Reclaim(q, h), v) /\ Snug(v, NoPending, L)
      BY <1>1, <3>4, <3>6, <3>7, FreesTight
    <3>9. Good(v, NoPending) BY <1>1, <3>7, FreesRun
    <3>10. r = <<>>
      <4> DEFINE g == Patched(table, d)
      <4>1. h \notin Clusters \/ g[h] = Free
        <5>1. CASE h = 0 BY <1>0, <5>1
        <5>2. CASE h # 0 /\ u[h] = Free
          <6>1. h \in Clusters /\ table[h] = Free BY <1>0, <1>a, <5>2
          <6> HIDE DEF g
          <6> QED BY <1>4, <6>1 DEF FreedTable, g
        <5>3. CASE h # 0 /\ u[h] # Free
          <6>1. h \in S /\ h \in Clusters BY <1>0, <3>5, <5>3
          <6> HIDE DEF S, g
          <6> QED BY <1>4, <6>1 DEF FreedTable, g
        <5> QED BY <5>1, <5>2, <5>3
      <4> HIDE DEF g
      <4> QED BY <4>1, NoChain DEF g
    <3>11. Sole(v, r, L)
      <4>1. Covered(v.table, Roots(v.entry), L) BY <3>8, SnugNone
      <4>2. Roots(v.entry) \cup {} = Roots(v.entry) OBVIOUS
      <4>3. Closed(v.table, Prefix(<<>>, Len(<<>>)))
        <5>1. Prefix(<<>>, Len(<<>>)) = {} BY DEF Prefix
        <5> QED BY <5>1 DEF Closed
      <4> HIDE DEF v, r
      <4> QED BY <3>10, <4>1, <4>2, <4>3 DEF Sole
    <3> QED BY <3>8, <3>9, <3>11
  <2>2. CASE q = <<>>
    <3>1. x = 0 \/ u[x] = Free BY <1>0, <1>1, <1>a, <2>2
    <3>2. Reclaim(q, h) = <<>> BY <2>2, NoneReclaimed
    <3>3. w \in Worlds BY DEF Good
    <3>4. v = w
      <4>1. Len(q) = 0 BY <2>2
      <4> QED BY <3>3, <4>1, FreedNone
    <3>5. Goes(Tights(L), w, Reclaim(q, h), v) BY <3>2, <3>3, <3>4, GoesNone
    <3>6. FreedTable(table, S) = table
      <4>1. S = {} BY <2>2 DEF Prefix
      <4> HIDE DEF S
      <4> QED BY <1>0, <4>1 DEF FreedTable
    <3>7. r = Chain(table, h) BY <1>4, <3>6
    <3> DEFINE Q == R \cup (IF r = <<>> THEN {} ELSE {r[1]})
    <3>8. (h # 0 /\ u[h] # Free) => r # <<>> /\ r[1] = h /\ Closed(table, Prefix(r, Len(r))) /\ r \in Seq(Clusters)
      <4> SUFFICES ASSUME h # 0, u[h] # Free
                   PROVE  r # <<>> /\ r[1] = h /\ Closed(table, Prefix(r, Len(r))) /\ r \in Seq(Clusters)
        OBVIOUS
      <4>1. h \in Clusters /\ table[h] # Free BY <1>0, <1>a
      <4>2. LET s == Chain(table, h)
            IN  s # <<>> /\ s[1] = h /\ IsPath(table, s) /\ Closed(table, Prefix(s, Len(s)))
        BY <1>0, <4>1, SoleChain
      <4> QED BY <3>7, <4>2 DEF IsPath
    <3>9. ~(h # 0 /\ u[h] # Free) => r = <<>>
      <4> SUFFICES ASSUME ~(h # 0 /\ u[h] # Free) PROVE r = <<>> OBVIOUS
      <4>1. h \notin Clusters \/ table[h] = Free BY <1>0, <1>a
      <4> QED BY <3>7, <4>1, NoChain
    <3> HIDE DEF r
    <3>10. Covered(u, Q, L)
      <4>1. \A c \in R \cup ({h, x} \ {0}) : Leads(u, Q, c)
        <5> TAKE c \in R \cup ({h, x} \ {0})
        <5>1. CASE c \in Q BY <5>1 DEF Leads
        <5>2. CASE c \notin Q
          <6>1. c # 0 /\ (c = h \/ c = x) BY <5>2
          <6>2. c \in Clusters /\ u[c] = Free
            <7>1. CASE c = x BY <1>0, <3>1, <6>1, <7>1
            <7>2. CASE c = h
              <8>1. u[h] = Free BY <3>8, <5>2, <6>1, <7>2
              <8> QED BY <1>0, <6>1, <7>2, <8>1
            <7> QED BY <6>1, <7>1, <7>2
          <6> QED BY <6>2 DEF Leads
        <5> QED BY <5>1, <5>2
      <4> HIDE DEF Q
      <4> QED BY <1>b, <4>1, CoverLess
    <3>11. Closed(u, Prefix(r, Len(r)))
      <4>1. CASE h # 0 /\ u[h] # Free
        <5> DEFINE T == Prefix(r, Len(r))
        <5>1. Closed(table, T) /\ T \in SUBSET Clusters
          <6>1. r \in Seq(Clusters) /\ Closed(table, T) BY <3>8, <4>1
          <6>2. Len(r) \in Nat /\ \A i \in 1 .. Len(r) : r[i] \in Clusters BY <6>1
          <6> QED BY <6>1, <6>2 DEF Prefix
        <5> HIDE DEF T
        <5>2. Closed(u, T) BY <1>0, <5>1, CutClosed
        <5> QED BY <5>2 DEF T
      <4>2. CASE ~(h # 0 /\ u[h] # Free)
        <5>1. r = <<>> BY <3>9, <4>2
        <5>2. Prefix(<<>>, Len(<<>>)) = {} BY DEF Prefix
        <5> QED BY <5>1, <5>2 DEF Closed
      <4> QED BY <4>1, <4>2
    <3>12. Sole(w, r, L) BY <3>10, <3>11 DEF Sole, R
    <3> HIDE DEF v
    <3> QED BY <3>4, <3>5, <3>12
  <2> QED BY <2>1, <2>2
<1>8. v.table = FreedTable(u, S) /\ v.entry = w.entry BY DEF Freed
<1> HIDE DEF v, S
<1>9. Loose(v.table, v.entry, r) BY <1>2, <1>4, <1>8
<1> HIDE DEF r
<1>10. r \in Seq(Clusters) BY <1>9 DEF Loose, IsPath
<1>11. Frees(Reclaim(r, 0), r, 0) BY <1>10, ReclaimFrees
<1>12. Kept(v.table, v.entry, r, 0) /\ Follows(v.table, r, 0) BY DEF Kept, Follows
<1> DEFINE z == Freed(v, r, Len(r))
<1>13. Goes(Tights(L), v, Reclaim(r, 0), z) /\ Snug(z, NoPending, L)
  BY <1>6, <1>9, <1>11, <1>12, FreesTight
<1> HIDE DEF z
<1>14. Goes(Tights(L), w, Reclaim(q, h) \o Reclaim(r, 0), z) BY <1>6, <1>13, GoesJoin
<1> QED BY <1>5, <1>13, <1>14

\* Recovery leaves no cluster out, and may itself be cut.
LEMMA RecoverTight ==
  ASSUME Good(World, pending), NEW w, w \in Worlds, w.table = table, w.entry = entry,
         \A f \in Files : Agree(entry[f], w.node[f]),
         OwnerLinks(pending) => IsTail(pending.owner) /\ ~Settled(w, pending),
         NEW L, Snug(w, pending, L)
  PROVE  /\ ~OwnerLinks(pending) => Snug(w, Unowned(pending), L)
         /\ \E z : Goes(Tights(L), w, Finished(RecoverPlan(pending)), z) /\ Snug(z, NoPending, L)
<1> DEFINE p == pending
           x == p.extra
           h == p.head
           R == Roots(entry)
<1>1. /\ table \in [Clusters -> Values] /\ entry \in [Files -> Entries] /\ p \in Pendings
      /\ Sound(table, entry) /\ PendOK(table, entry, p)
  BY WorldFields DEF Good
<1>2. Unowned(p) \in Pendings /\ NoPending \in Pendings BY <1>1, UnownedFields, PendingType
<1>3. ASSUME NEW t, NEW r \in Pendings PROVE NodeOK(t, entry, w.node, r) BY AgreeFits DEF NodeOK
<1>4. Good(w, p) /\ Good(w, NoPending)
  <2>1. PendOK(table, entry, NoPending) BY NonePending
  <2> QED BY <1>1, <1>2, <1>3, <2>1 DEF Good
<1>a. Unowned(p).head = h /\ Unowned(p).extra = x /\ Unowned(p).owner = Nothing BY <1>1, UnownedFields
<1>b. Marked(Unowned(p)) = Marked(p) /\ Marked(p) = {h, x} \ {0} BY <1>a DEF Marked
<1>c. \A t : Joined(t, Unowned(p)) <=> Joined(t, p) BY <1>a DEF Joined
<1>d. \A v : ~Settled(v, Unowned(p)) BY <1>a, PendingType DEF Settled
<1>e. /\ Covered(table, R \cup Marked(p), L) /\ Joined(table, p)
  BY DEF Snug
<1>f. Snug(w, p, L) OBVIOUS
<1>g. x \in Clusters \cup {0} /\ h \in Clusters \cup {0} BY <1>1 DEF Pendings
<1>5. CASE ~OwnerLinks(p)
  <2>1. CutOff(table, w.table, w.entry, {}, x, h) BY <1>5, UnownedCut
  <2>2. Snug(w, Unowned(p), L) BY <1>b, <1>c, <1>d, <1>e DEF Snug
  <2>3. Covered(w.table, Roots(w.entry) \cup ({h, x} \ {0}), L) BY <1>b, <1>e
  <2>4. x # 0 /\ w.table[x] # Free /\ h # 0 /\ w.table[h] # Free => Reaches(w.table, x, h)
    BY <1>e DEF Joined
  <2> DEFINE s == ReclaimAll(h, x)
  <2>5. RecoverPlan(p) = <<>> \o s BY <1>5 DEF RecoverPlan
  <2> HIDE DEF x, h
  <2>6. PICK z : Goes(Tights(L), w, s, z) /\ Snug(z, NoPending, L) BY <1>4, <2>1, <2>3, <2>4, ReclaimTight, Zenon
  <2> HIDE DEF s
  <2>7. <<>> \o s = s
    <3>1. s \in Seq(AllSteps) BY <2>6 DEF Goes
    <3> QED BY <3>1
  <2>8. Goes(Tights(L), w, Finished(s), z) BY <2>6, TightsFinish
  <2> QED BY <1>5, <2>2, <2>5, <2>6, <2>7, <2>8
<1>6. CASE OwnerLinks(p)
  <2> DEFINE at == p.owner.at
             d == [y \in {at} |-> EOC]
             u == Patched(table, d)
             v == [table |-> u, entry |-> entry, node |-> w.node]
  <2>0. IsTail(p.owner) /\ ~Settled(w, p) BY <1>6
  <2>1. at \in Clusters /\ u \in [Clusters -> Values] /\ u[at] = EOC /\ CutOff(table, u, entry, {at}, x, h)
    BY <1>6, OwnedCut
  <2>a. IsTail(p.owner) => u[at] = EOC \/ p.extra = 0 BY <2>1
  <2>2. PendOK(u, entry, p) /\ PendOK(u, entry, Unowned(p))
    <3> HIDE DEF u
    <3> QED BY <1>1, <2>1, CutPending
  <2>3. {at} \in Groups /\ d \in [{at} -> Values] BY <2>1, SingleGroup, Numbers, Zenon
  <2>b. /\ \A c \in Clusters : u[c] = IF c \in {at} THEN EOC ELSE table[c]
        /\ table[at] # Free /\ (table[at] \in Clusters => table[at] = IF x # 0 THEN x ELSE h)
    BY <2>1 DEF CutOff
  <2> HIDE DEF u, d, at
  <2>4. v.table = u /\ v.entry = entry /\ v.node = w.node OBVIOUS
  <2>5. v \in Worlds BY <1>1, <2>1 DEF Worlds
  <2>c. v = [table |-> Patched(w.table, d), entry |-> w.entry, node |-> w.node] BY DEF u
  <2> HIDE DEF v
  <2>6. Sound(u, entry) BY <2>1 DEF CutOff
  <2>7. Good(v, p) /\ Good(v, Unowned(p)) /\ Good(v, NoPending)
    <3>1. PendOK(u, entry, NoPending) BY NonePending
    <3> QED BY <1>1, <1>2, <1>3, <2>2, <2>4, <2>5, <2>6, <3>1 DEF Good
  <2> DEFINE a == FatStep(p, d, Unowned(p))
  <2>8. Safe(w, a) /\ Landed(w, a) = v
    <3> DEFINE r == Unowned(p)
    <3>2. Good(v, r) BY <2>7
    <3> HIDE DEF r, p
    <3>3. Safe(w, FatStep(p, d, r)) /\ Landed(w, FatStep(p, d, r)) = v
      BY <1>4, <2>3, <2>7, <2>c, <3>2, FatStepSafe
    <3> QED BY <3>3 DEF r
  <2>9. CutOff(table, v.table, v.entry, {at}, x, h) BY <2>1, <2>4
  <2>10. Covered(u, R \cup Marked(p), L)
    <3> DEFINE Q == R \cup Marked(p)
    <3>1. \A y \in {at} : table[y] # Free /\ (table[y] \in Clusters => table[y] \in Q)
      <4>1. table[at] \in Clusters => table[at] \in Marked(p)
        <5> SUFFICES ASSUME table[at] \in Clusters PROVE table[at] \in Marked(p) OBVIOUS
        <5>1. table[at] = IF x # 0 THEN x ELSE h BY <2>b
        <5>2. table[at] # 0 BY Numbers
        <5> QED BY <1>b, <5>1, <5>2
      <4> QED BY <2>b, <4>1
    <3> HIDE DEF Q
    <3>2. Covered(table, Q, L) BY <1>e DEF Q
    <3>3. Covered(u, Q, L) BY <2>b, <3>1, <3>2, CoverCut, Zenon
    <3> QED BY <3>3 DEF Q
  <2>11. Joined(u, p)
    <3> SUFFICES ASSUME x # 0, u[x] # Free, h # 0, u[h] # Free PROVE Reaches(u, x, h) BY DEF Joined
    <3>1. x \in Clusters /\ h \in Clusters BY <1>g
    <3>2. table[x] # Free /\ table[h] # Free BY <2>b, <3>1
    <3>3. Reaches(table, x, h) BY <1>e, <3>2 DEF Joined
    <3> HIDE DEF x, h
    <3> SUFFICES ASSUME NEW S \in SUBSET Clusters, x \in S, Closed(u, S) PROVE h \in S BY DEF Reaches
    <3>4. Closed(table, S)
      <4> SUFFICES ASSUME NEW c \in S, table[c] \in Clusters PROVE table[c] \in S BY DEF Closed
      <4>1. CASE c = at BY <2>b, <4>1
      <4>2. CASE c # at
        <5>1. u[c] = table[c] BY <2>b, <4>2
        <5> QED BY <5>1 DEF Closed
      <4> QED BY <4>1, <4>2
    <3> QED BY <3>3, <3>4 DEF Reaches
  <2>12. ~Settled(v, p)
    <3>1. p.owner.kind \in {"tail", "cut"} BY <2>0 DEF IsTail
    <3> HIDE DEF p
    <3> QED BY <2>0, <2>4, <3>1 DEF Settled
  <2>13. Snug(v, p, L) BY <2>4, <2>10, <2>11, <2>12 DEF Snug
  <2>14. Snug(v, Unowned(p), L) BY <1>b, <1>c, <1>d, <2>4, <2>10, <2>11 DEF Snug
  <2>15. <<w, a>> \in Tights(L)
    <3> DEFINE r == Unowned(p)
    <3>1. a = FatStep(p, d, r) /\ a \in AllSteps BY <2>8 DEF Safe
    <3>2. Snug(v, r, L) BY <2>14
    <3> HIDE DEF r, a, p
    <3>3. FatStep(p, d, r) \in AllSteps /\ Landed(w, FatStep(p, d, r)) = v BY <2>8, <3>1
    <3>4. <<w, FatStep(p, d, r)>> \in Tights(L) BY <1>f, <2>13, <3>2, <3>3, FatTight
    <3> QED BY <3>1, <3>4
  <2> DEFINE s == ReclaimAll(h, x)
  <2>16. RecoverPlan(p) = <<a>> \o s BY <1>6 DEF RecoverPlan, d, at
  <2>17. Covered(v.table, Roots(v.entry) \cup ({h, x} \ {0}), L) BY <1>b, <2>4, <2>10
  <2>18. x # 0 /\ v.table[x] # Free /\ h # 0 /\ v.table[h] # Free => Reaches(v.table, x, h)
    BY <2>4, <2>11 DEF Joined
  <2> HIDE DEF x, h, a
  <2>19. PICK z : Goes(Tights(L), v, s, z) /\ Snug(z, NoPending, L) BY <2>7, <2>9, <2>17, <2>18, ReclaimTight, Zenon
  <2> HIDE DEF s
  <2>20. Goes(Tights(L), w, <<a>>, v) BY <2>8, <2>15, TightFirst
  <2>21. Goes(Tights(L), w, <<a>> \o s, z) BY <2>19, <2>20, GoesJoin
  <2>22. Goes(Tights(L), w, Finished(<<a>> \o s), z) BY <2>19, <2>21, TightsFinish
  <2> QED BY <1>6, <2>16, <2>19, <2>22
<1> QED BY <1>5, <1>6

-----------------------------------------------------------------------------
(* The steps of the specification lose no cluster. *)

\* The inductive invariant: from what is pending, every cluster in use that
\* is in no file is found, wherever the running operation is cut.
SpaceInv ==
    /\ ChainInv
    /\ Snug(World, pending, lost)
    /\ \E z : Goes(Tights(lost), World, steps, z)

\* An operation that starts with a tight plan.
LEMMA StartTight ==
  ASSUME SpaceInv, NEW s, Start(s), ChainInv', \E z : Goes(Tights(lost), World, s, z)
  PROVE  SpaceInv'
<1>1. World' = World /\ pending' = pending /\ steps' = s /\ lost' = lost
  BY DEF Start, World
<1>2. PICK z : Goes(Tights(lost), World, s, z) OBVIOUS
<1>3. Goes(Tights(lost'), World', steps', z) BY <1>1, <1>2
<1>4. Snug(World', pending', lost') BY <1>1 DEF SpaceInv
<1> QED BY <1>3, <1>4 DEF SpaceInv

\* Nothing runs after the step.
LEMMA IdleTight ==
  ASSUME ChainInv', steps' = <<>>, Snug(World', pending', lost')
  PROVE  SpaceInv'
<1>1. World' \in Worlds BY DEF ChainInv, Good
<1>2. Goes(Tights(lost'), World', steps', World') BY <1>1, GoesNone
<1> QED BY <1>2 DEF SpaceInv

\* After prepare, every cluster in use is in a file or lost.
LEMMA ReadyCovered ==
  ASSUME SpaceInv, Ready
  PROVE  Good(World, NoPending) /\ Covered(table, Roots(entry), lost)
<1>1. pending = NoPending /\ Snug(World, pending, lost) /\ ChainInv BY DEF Ready, SpaceInv
<1>2. Covered(World.table, Roots(World.entry), lost) BY <1>1, SnugNone
<1> QED BY <1>1, <1>2, ReadyGood DEF World

\* create keeps the invariant, ...
LEMMA CreateSpace ==
  ASSUME SpaceInv, NEW f \in Files, Create(f), UNCHANGED fat12
  PROVE  SpaceInv'
<1> DEFINE s == <<EntryStep(NoPending, f, Entry(0, 0), CleanNode(0, 0), NoPending)>>
<1>1. Start(s) /\ Ready /\ ~entry[f].used BY DEF Create
<1>2. \E z : Goes(Tights(lost), World, s, z) BY <1>1, ReadyCovered, CreateTight
<1>3. ChainInv' BY CreateKeeps DEF SpaceInv
<1> HIDE DEF s
<1> QED BY <1>1, <1>2, <1>3, StartTight

\* ... remove_entry, ...
LEMMA UnlinkSpace ==
  ASSUME SpaceInv, NEW f \in Files, Unlink(f), UNCHANGED fat12
  PROVE  SpaceInv'
<1> DEFINE first == State(f).first
           held == IF first = 0 THEN NoPending ELSE Held(first, 0, Removed(f))
           s == <<EntryStep(held, f, NoEntry, NoNode, held)>> \o Finished(FreeChain(Chain(table, first)))
<1>1. Start(s) /\ Ready /\ entry[f].used BY DEF Unlink
<1>2. \E z : Goes(Tights(lost), World, s, z) BY <1>1, ReadyCovered, UnlinkTight
<1>3. ChainInv' BY UnlinkKeeps DEF SpaceInv
<1> HIDE DEF s
<1> QED BY <1>1, <1>2, <1>3, StartTight

\* ... close, fsync and sync, ...
LEMMA FlushSpace ==
  ASSUME SpaceInv, NEW f \in Files, FlushNode(f), UNCHANGED fat12
  PROVE  SpaceInv'
<1> DEFINE s == <<Store(pending, f, node[f].first, node[f].size, pending)>>
<1>1. Start(s) /\ node[f].dirty /\ entry[f].used BY DEF FlushNode
<1>2. Good(World, pending) /\ Snug(World, pending, lost) BY DEF SpaceInv, ChainInv
<1>3. \E z : Goes(Tights(lost), World, s, z) BY <1>1, <1>2, FlushTight
<1>4. ChainInv' BY FlushKeeps DEF SpaceInv
<1> HIDE DEF s
<1> QED BY <1>1, <1>3, <1>4, StartTight

\* ... write, ...
LEMMA GrowSpace ==
  ASSUME SpaceInv, NEW f \in Files, NEW end \in 1 .. MaxSize, Grow(f, end), UNCHANGED fat12
  PROVE  SpaceInv'
<1> DEFINE count == Need(end) - Len(Chain(table, State(f).first))
           room == Cardinality({c \in Clusters : table[c] = Free})
<1>1. Ready /\ entry[f].used /\ Good(World, NoPending) /\ Covered(table, Roots(entry), lost)
  BY ReadyCovered DEF Grow
<1>2. PICK from \in Clusters : Start(GrowPlan(f, end, from)) /\ count <= room
  BY <1>1, GrowStarts, Zenon DEF SpaceInv
<1>3. \E z : Goes(Tights(lost), World, GrowPlan(f, end, from), z) BY <1>1, <1>2, GrowTight
<1>4. ChainInv' BY GrowKeeps DEF SpaceInv
<1> QED BY <1>2, <1>3, <1>4, StartTight

\* ... and truncate.
LEMMA ShrinkSpace ==
  ASSUME SpaceInv, NEW f \in Files, NEW len \in 0 .. MaxSize - 1, Shrink(f, len), UNCHANGED fat12
  PROVE  SpaceInv'
<1>1. Ready /\ entry[f].used BY DEF Shrink
<1>2. Good(World, NoPending) /\ Covered(table, Roots(entry), lost) BY <1>1, ReadyCovered
<1>3. Start(ShrinkPlan(f, len)) BY Zenon DEF Shrink, ShrinkPlan
<1>4. len \in 0 .. MaxSize BY SizeAssumption
<1>5. \E z : Goes(Tights(lost), World, ShrinkPlan(f, len), z) BY <1>1, <1>2, <1>4, ShrinkTight
<1>6. ChainInv' BY ShrinkKeeps DEF SpaceInv
<1> QED BY <1>3, <1>5, <1>6, StartTight

\* A clean node changes nothing on the disk.
LEMMA PinSpace ==
  ASSUME SpaceInv, ChainInv', NEW f \in Files, NEW k, ~k.dirty, Idle,
         node' = [node EXCEPT ![f] = k], UNCHANGED <<table, entry, pending, steps, lost>>
  PROVE  SpaceInv'
<1> DEFINE w == World
           v == World'
<1>1. Good(w, pending) /\ Snug(w, pending, lost) BY DEF SpaceInv, ChainInv
<1>2. pending \in Pendings /\ node \in [Files -> Nodes] BY <1>1, WorldFields DEF Good
<1>3. v.table = w.table /\ v.entry = w.entry BY DEF World
<1>4. \A g \in Files : v.node[g].dirty => w.node[g].dirty
  <2> SUFFICES ASSUME NEW g \in Files, node'[g].dirty PROVE node[g].dirty BY DEF World
  <2> QED BY <1>2
<1> HIDE DEF w, v
<1>5. Snug(v, pending, lost) BY <1>1, <1>2, <1>3, <1>4, SnugNode
<1>6. steps' = <<>> /\ pending' = pending /\ lost' = lost BY DEF Idle
<1>7. Snug(World', pending', lost') BY <1>5, <1>6 DEF v
<1> QED BY <1>6, <1>7, IdleTight

\* lookup keeps the invariant, ...
LEMMA LookupSpace ==
  ASSUME SpaceInv, NEW f \in Files, Lookup(f), UNCHANGED fat12
  PROVE  SpaceInv'
<1>1. ChainInv' BY LookupKeeps DEF SpaceInv
<1> DEFINE k == CleanNode(entry[f].first, entry[f].size)
<1>2. ~k.dirty BY DEF CleanNode
<1>3. Idle /\ node' = [node EXCEPT ![f] = k] /\ UNCHANGED <<table, entry, pending, steps, lost>> BY DEF Lookup
<1> HIDE DEF k
<1> QED BY <1>1, <1>2, <1>3, PinSpace, Zenon

\* ... and forget.
LEMMA ForgetSpace ==
  ASSUME SpaceInv, NEW f \in Files, Forget(f), UNCHANGED fat12
  PROVE  SpaceInv'
<1>1. ChainInv' BY ForgetKeeps DEF SpaceInv
<1> DEFINE k == NoNode
<1>2. ~k.dirty BY DEF NoNode
<1>3. Idle /\ node' = [node EXCEPT ![f] = k] /\ UNCHANGED <<table, entry, pending, steps, lost>> BY DEF Forget
<1> HIDE DEF k
<1> QED BY <1>1, <1>2, <1>3, PinSpace, Zenon

\* Recovery keeps the invariant.
LEMMA RecoverSpace ==
  ASSUME SpaceInv, Recover, UNCHANGED fat12
  PROVE  SpaceInv'
<1> DEFINE p == pending
           o == p.owner
           owned == OwnerLinks(p)
           halt == (o.kind = "cut" /\ ~Shrunk(o)) \/ (owned /\ ~IsTail(o))
           s == IF halt THEN <<>> ELSE RecoverPlan(p)
           w == World'
           L == lost
<1>1. /\ node' = Recovered(owned) /\ steps' = Finished(s) /\ issued' = FALSE
      /\ pending' = IF s = <<>> THEN NoPending ELSE IF owned THEN p ELSE Unowned(p)
      /\ table' = table /\ entry' = entry /\ lost' = lost /\ fat12' = fat12
  BY DEF Recover, OwnerLinks, IsTail, RecoverPlan, Unowned
<1>2. Good(World, p) /\ p \in Pendings /\ Snug(World, p, L) BY DEF SpaceInv, ChainInv, Good
<1>3. /\ table \in [Clusters -> Values] /\ entry \in [Files -> Entries] /\ node \in [Files -> Nodes]
      /\ World.table = table /\ World.entry = entry /\ World.node = node
  BY <1>2, WorldFields
<1>4. owned \in BOOLEAN BY OwnerLinkType
<1>5. o.kind = "removed" => (owned <=> p.head # 0 /\ Links(o, p.head)) BY DEF OwnerLinks, IsTail
<1>14. o \in Owners BY <1>2 DEF Pendings
<1>15. ChainInv' BY RecoverKeeps DEF SpaceInv
<1> HIDE DEF owned
<1>6. node' \in [Files -> Nodes] /\ \A f \in Files : Agree(entry[f], node'[f])
  BY <1>1, <1>2, <1>4, <1>5, RecoveredAgrees
<1>7. w.table = table /\ w.entry = entry /\ w.node = node' /\ w \in Worlds
  BY <1>1, <1>3, <1>6 DEF World, Worlds
<1>8. ASSUME NEW f \in Files PROVE node'[f] = node[f] \/ ~node'[f].dirty
  BY <1>1, <1>3 DEF Recovered, CleanNode, NoNode
<1> HIDE DEF w
<1>9. Snug(w, p, L)
  <2>1. \A f \in Files : w.node[f].dirty => World.node[f].dirty BY <1>3, <1>7, <1>8
  <2> QED BY <1>2, <1>3, <1>7, <2>1, SnugNode, Zenon
<1>10. w = World' /\ lost' = L BY <1>1 DEF w
<1>11. CASE halt
  <2>1. s = <<>> BY <1>11
  <2>2. Finished(<<>>) = <<>> BY DEF Finished
  <2>3. steps' = <<>> /\ pending' = NoPending BY <1>1, <2>1, <2>2
  <2>4. Settled(World, p)
    <3>1. CASE o.kind = "cut" /\ ~Shrunk(o) BY <1>3, <3>1 DEF Settled, Shrunk
    <3>2. CASE owned /\ ~IsTail(o)
      <4>1. p.head # 0 /\ Links(o, p.head) BY <3>2 DEF owned, OwnerLinks
      <4>2. o.kind \in {"entry", "removed"} BY <4>1, <3>2, <1>14, OwnerParts DEF Links, IsTail
      <4>3. entry[o.file].used /\ entry[o.file].first = p.head BY <4>1, <4>2 DEF Links
      <4> QED BY <1>3, <4>1, <4>2, <4>3 DEF Settled
    <3> QED BY <1>11, <3>1, <3>2
  <2>5. Covered(table, Roots(entry), L) BY <1>2, <1>3, <2>4 DEF Snug
  <2>6. Snug(w, NoPending, L) BY <1>7, <2>5, SnugNone
  <2> QED BY <1>10, <1>15, <2>3, <2>6, IdleTight
<1>12. CASE ~halt
  <2>1. s = RecoverPlan(p) BY <1>12
  <2>2. OwnerLinks(p) => IsTail(o) /\ ~Settled(w, p)
    <3> SUFFICES ASSUME OwnerLinks(p) PROVE IsTail(o) /\ ~Settled(w, p) OBVIOUS
    <3>1. IsTail(o) BY <1>12 DEF owned
    <3>2. CASE o.kind = "tail" BY <3>1, <3>2 DEF Settled
    <3>3. CASE o.kind = "cut"
      <4>1. Shrunk(o) /\ o.file \in Files BY <1>12, <1>14, <3>3, OwnerParts
      <4>2. node' = IF node[o.file].pinned THEN [node EXCEPT ![o.file] = CleanNode(node[o.file].first, o.size)]
                    ELSE node
        <5>1. o.kind # "entry" /\ o.kind # "removed" BY <3>3
        <5> QED BY <1>1, <3>3, <4>1, <5>1 DEF Recovered
      <4>3. ~node'[o.file].dirty
        <5>1. CASE node[o.file].pinned BY <1>3, <4>1, <4>2, <5>1 DEF CleanNode
        <5>2. CASE ~node[o.file].pinned BY <1>6, <4>1, <4>2, <5>2 DEF Agree
        <5> QED BY <5>1, <5>2
      <4> QED BY <1>7, <3>1, <3>3, <4>1, <4>3 DEF Settled, Shrunk
    <3> QED BY <3>1, <3>2, <3>3 DEF IsTail
  <2>3. \A f \in Files : Agree(entry[f], w.node[f]) BY <1>6, <1>7
  <2>4. /\ ~OwnerLinks(p) => Snug(w, Unowned(p), L)
        /\ \E z : Goes(Tights(L), w, Finished(RecoverPlan(p)), z) /\ Snug(z, NoPending, L)
    <3> HIDE DEF halt, s, L
    <3> QED BY <1>2, <1>7, <1>9, <2>2, <2>3, RecoverTight
  <2>5. PICK z : Goes(Tights(L), w, steps', z) /\ Snug(z, NoPending, L) BY <1>1, <2>1, <2>4
  <2>6. Snug(w, pending', L)
    <3>1. CASE s = <<>>
      <4>1. steps' = <<>> /\ pending' = NoPending BY <1>1, <3>1 DEF Finished
      <4>2. z = w BY <2>5, <4>1 DEF Goes
      <4> QED BY <2>5, <4>1, <4>2
    <3>2. CASE s # <<>> /\ owned BY <1>1, <1>9, <3>2
    <3>3. CASE s # <<>> /\ ~owned BY <1>1, <2>4, <3>3 DEF owned
    <3> QED BY <1>4, <3>1, <3>2, <3>3
  <2> QED BY <1>10, <1>15, <2>5, <2>6 DEF SpaceInv
<1> QED BY <1>11, <1>12

\* The first step of a running operation.
LEMMA FirstTight ==
  ASSUME SpaceInv, ~Idle
  PROVE  /\ Tight(World, steps[1], lost) /\ Head(steps) = steps[1]
         /\ \E z : Goes(Tights(lost), Landed(World, steps[1]), Tail(steps), z)
<1>1. PICK z : Goes(Tights(lost), World, steps, z) BY DEF SpaceInv
<1>2. steps # <<>> BY DEF Idle
<1>3. <<World, steps[1]>> \in Tights(lost) /\ Goes(Tights(lost), Landed(World, steps[1]), Tail(steps), z)
  BY <1>1, <1>2, GoesTail
<1>4. Tight(World, steps[1], lost) BY <1>3 DEF Tights
<1>5. Head(steps) = steps[1] BY <1>1, <1>2 DEF Goes
<1> QED BY <1>3, <1>4, <1>5

\* Sending a write keeps the invariant, ...
LEMMA IssueSpace ==
  ASSUME SpaceInv, Issue, UNCHANGED fat12
  PROVE  SpaceInv'
<1>1. ~Idle /\ pending' = Head(steps).pre BY DEF Issue
<1>2. Tight(World, steps[1], lost) /\ Head(steps) = steps[1] BY <1>1, FirstTight
<1>3. World' = World /\ steps' = steps /\ lost' = lost BY DEF Issue, World
<1>4. Snug(World', pending', lost') BY <1>1, <1>2, <1>3 DEF Tight
<1>5. \E z : Goes(Tights(lost'), World', steps', z) BY <1>3 DEF SpaceInv
<1>6. ChainInv' BY IssueKeeps DEF SpaceInv
<1> QED BY <1>4, <1>5, <1>6 DEF SpaceInv

\* ... its success, ...
LEMMA LandSpace ==
  ASSUME SpaceInv, Land, UNCHANGED fat12
  PROVE  SpaceInv'
<1>1. ~Idle BY DEF SpaceInv, ChainInv, Land, Idle
<1> DEFINE s == steps[1]
<1>2. Tight(World, s, lost) /\ Head(steps) = s BY <1>1, FirstTight
<1>3. PICK z : Goes(Tights(lost), Landed(World, s), Tail(steps), z) BY <1>1, FirstTight
<1>4. World.table = table /\ World.entry = entry /\ World.node = node BY DEF World
<1> HIDE DEF s
<1>5. World' = Landed(World, s) BY <1>2, <1>4 DEF Land, Applied, Landed, World
<1>6. pending' = s.post /\ steps' = Tail(steps) /\ lost' = lost BY <1>2 DEF Land
<1>7. Snug(World', pending', lost') BY <1>2, <1>5, <1>6 DEF Tight
<1>8. Goes(Tights(lost'), World', steps', z) BY <1>3, <1>5, <1>6
<1>9. ChainInv' BY LandKeeps DEF SpaceInv
<1> QED BY <1>7, <1>8, <1>9 DEF SpaceInv

\* ... a cut before its effect, ...
LEMMA CutBeforeSpace ==
  ASSUME SpaceInv, CutBefore, UNCHANGED fat12
  PROVE  SpaceInv'
<1>1. World' = World /\ pending' = pending /\ steps' = <<>> /\ lost' = lost BY DEF CutBefore, World
<1>2. Snug(World', pending', lost') BY <1>1 DEF SpaceInv
<1>3. ChainInv' BY CutBeforeKeeps DEF SpaceInv
<1> QED BY <1>1, <1>2, <1>3, IdleTight

\* ... and one after it, whatever the caller believes.
LEMMA CutAfterSpace ==
  ASSUME SpaceInv, CutAfter, UNCHANGED fat12
  PROVE  SpaceInv'
<1>1. ~Idle /\ pending = steps[1].pre BY DEF SpaceInv, ChainInv, CutAfter, Idle
<1> DEFINE s == steps[1]
<1>2. Tight(World, s, lost) /\ Head(steps) = s BY <1>1, FirstTight
<1>3. World.table = table /\ World.entry = entry /\ World.node = node BY DEF World
<1>4. pending = s.pre BY <1>1
<1> HIDE DEF s
<1>5. World' = Written(World, s) BY <1>2, <1>3 DEF CutAfter, Applied, Written, World
<1>6. pending' = pending /\ steps' = <<>> /\ lost' = lost BY DEF CutAfter
<1>7. Snug(World', pending', lost') BY <1>2, <1>4, <1>5, <1>6 DEF Tight
<1>8. ChainInv' BY CutAfterKeeps DEF SpaceInv
<1> QED BY <1>6, <1>7, <1>8, IdleTight

\* The clusters of a file are those that its first cluster leads to.
LEMMA FileClusters ==
  ASSUME NEW p, Good(World, p), NEW f \in Files, entry[f].used
  PROVE  /\ InChain(table, entry[f].first) \in SUBSET Clusters
         /\ entry[f].first # 0 => entry[f].first \in InChain(table, entry[f].first)
         /\ Closed(table, InChain(table, entry[f].first))
         /\ \A S \in SUBSET Clusters : Roots(entry) \subseteq S /\ Closed(table, S) =>
               InChain(table, entry[f].first) \subseteq S
<1> DEFINE c == entry[f].first
           q == Chain(table, c)
           I == InChain(table, c)
<1>1. table \in [Clusters -> Values] /\ entry \in [Files -> Entries] /\ Sound(table, entry) BY WorldFields
<1>2. CASE c = 0
  <2>1. q = <<>> BY <1>1, <1>2, FileChain
  <2>2. I = {} BY <2>1 DEF InChain
  <2> HIDE DEF I
  <2>3. Closed(table, I) BY <2>2 DEF Closed
  <2> QED BY <1>2, <2>2, <2>3 DEF I
<1>3. CASE c # 0
  <2>1. c \in Clusters /\ table[c] # Free /\ c \in Roots(entry)
    <3>1. c \in Clusters BY <1>1, <1>3 DEF Entries
    <3>2. table[c] # Free BY <1>1, <1>3 DEF Sound
    <3> QED BY <1>1, <1>3, <3>1, <3>2, RootsType
  <2> HIDE DEF c
  <2>2. q # <<>> /\ q[1] = c /\ IsPath(table, q) /\ Closed(table, Prefix(q, Len(q)))
    BY <1>1, <2>1, SoleChain
  <2> HIDE DEF q
  <2>3. q \in Seq(Clusters) /\ Len(q) \in Nat /\ Len(q) >= 1 /\ \A i \in 1 .. Len(q) - 1 : table[q[i]] = q[i + 1]
    BY <2>2 DEF IsPath
  <2>4. I = Prefix(q, Len(q)) /\ I = {q[i] : i \in 1 .. Len(q)} BY <2>3 DEF InChain, Prefix, q
  <2> HIDE DEF I
  <2>5. I \in SUBSET Clusters /\ c \in I BY <2>2, <2>3, <2>4
  <2>6. Closed(table, I) BY <2>2, <2>4
  <2>7. ASSUME NEW S \in SUBSET Clusters, Roots(entry) \subseteq S, Closed(table, S), NEW i \in 1 .. Len(q)
        PROVE  q[i] \in S
    <3>1. Reaches(table, q[1], q[i])
      <4>1. 1 \in 1 .. Len(q) /\ 1 <= i /\ \A k \in 1 .. i - 1 : table[q[k]] = q[k + 1] BY <2>3
      <4> QED BY <2>3, <4>1, LinksReach, Zenon
    <3>2. q[1] \in S BY <2>1, <2>2, <2>7
    <3> QED BY <2>7, <3>1, <3>2 DEF Reaches
  <2> QED BY <2>4, <2>5, <2>6, <2>7 DEF I, c
<1> QED BY <1>2, <1>3

\* What a mount finds in no file is what it calls lost.
LEMMA LostCovered ==
  ASSUME NEW p, Good(World, p)
  PROVE  Covered(table, Roots(entry), Unreachable)
<1> SUFFICES ASSUME NEW S \in SUBSET Clusters, Roots(entry) \subseteq S, Closed(table, S),
                    NEW c \in Clusters, table[c] # Free, c \notin S, c \notin Unreachable
             PROVE  FALSE
  BY DEF Covered
<1>1. c \in Reachable BY DEF Unreachable
<1>2. PICK f \in Files : entry[f].used /\ c \in InChain(table, entry[f].first) BY <1>1 DEF Reachable
<1> QED BY <1>2, FileClusters

\* Nothing else is in no file, when the files' first clusters cover it.
LEMMA CoveredLost ==
  ASSUME NEW p, Good(World, p), NEW L, Covered(table, Roots(entry), L)
  PROVE  Unreachable \subseteq L
<1>1. Reachable \in SUBSET Clusters
  <2>1. \A f \in Files : entry[f].used => InChain(table, entry[f].first) \in SUBSET Clusters BY FileClusters
  <2> QED BY <2>1 DEF Reachable
<1>2. Roots(entry) \subseteq Reachable
  <2> SUFFICES ASSUME NEW c \in Roots(entry) PROVE c \in Reachable OBVIOUS
  <2>1. PICK f \in Files : entry[f].used /\ entry[f].first = c /\ c # 0 BY DEF Roots
  <2>2. c \in InChain(table, entry[f].first) BY <2>1, FileClusters
  <2> QED BY <2>1, <2>2 DEF Reachable
<1>3. Closed(table, Reachable)
  <2> SUFFICES ASSUME NEW c \in Reachable, table[c] \in Clusters PROVE table[c] \in Reachable BY DEF Closed
  <2>1. PICK f \in Files : entry[f].used /\ c \in InChain(table, entry[f].first) BY DEF Reachable
  <2>2. table[c] \in InChain(table, entry[f].first) BY <2>1, FileClusters DEF Closed
  <2> QED BY <2>1, <2>2 DEF Reachable
<1>4. \A c \in Clusters : table[c] # Free => c \in Reachable \cup L BY <1>1, <1>2, <1>3 DEF Covered
<1> QED BY <1>4 DEF Unreachable

\* A mount starts from any disk that the driver leaves.
LEMMA RemountSpace ==
  ASSUME SpaceInv, Remount, UNCHANGED fat12
  PROVE  SpaceInv'
<1>1. Good(World, pending) /\ ChainInv' BY RemountKeeps DEF SpaceInv, ChainInv
<1>2. Covered(table, Roots(entry), Unreachable) BY <1>1, LostCovered
<1>3. /\ World'.table = table /\ World'.entry = entry
      /\ pending' = NoPending /\ steps' = <<>> /\ lost' = Unreachable
  BY DEF Remount, World
<1>4. Snug(World', NoPending, Unreachable) BY <1>2, <1>3, SnugNone
<1> QED BY <1>1, <1>3, <1>4, IdleTight

\* The invariant holds at first, ...
LEMMA InitSpace ==
  ASSUME Init
  PROVE  SpaceInv
<1>1. ChainInv BY InitHolds
<1>2. World \in Worlds BY <1>1 DEF ChainInv, Good
<1>3. \A c \in Clusters : table[c] = Free BY DEF Init
<1>4. Covered(table, Roots(entry), lost) BY <1>3 DEF Covered
<1>5. World.table = table /\ World.entry = entry BY DEF World
<1>6. Snug(World, NoPending, lost) BY <1>4, <1>5, SnugNone
<1>7. pending = NoPending /\ steps = <<>> BY DEF Init
<1>8. Goes(Tights(lost), World, <<>>, World) BY <1>2, GoesNone
<1> QED BY <1>1, <1>6, <1>7, <1>8 DEF SpaceInv

\* ... and every step keeps it.
LEMMA NextSpace ==
  ASSUME SpaceInv, [Next]_vars
  PROVE  SpaceInv'
<1>1. CASE UNCHANGED vars
  <2>1. ChainInv' BY NextKeeps DEF SpaceInv
  <2>2. World' = World /\ pending' = pending /\ steps' = steps /\ lost' = lost BY <1>1 DEF vars, World
  <2> QED BY <2>1, <2>2 DEF SpaceInv
<1>2. CASE Next
  <2> USE <1>2 DEF Next
  <2>1. CASE \E f \in Files : Create(f) BY <2>1, CreateSpace
  <2>2. CASE \E f \in Files : Unlink(f) BY <2>2, UnlinkSpace
  <2>3. CASE \E f \in Files : FlushNode(f) BY <2>3, FlushSpace
  <2>4. CASE \E f \in Files : Lookup(f) BY <2>4, LookupSpace
  <2>5. CASE \E f \in Files : Forget(f) BY <2>5, ForgetSpace
  <2>6. CASE \E f \in Files, size \in 1 .. MaxSize : Grow(f, size) BY <2>6, GrowSpace
  <2>7. CASE \E f \in Files, size \in 0 .. MaxSize - 1 : Shrink(f, size) BY <2>7, ShrinkSpace
  <2>8. CASE Recover BY <2>8, RecoverSpace
  <2>9. CASE Issue BY <2>9, IssueSpace
  <2>10. CASE Land BY <2>10, LandSpace
  <2>11. CASE CutBefore BY <2>11, CutBeforeSpace
  <2>12. CASE CutAfter BY <2>12, CutAfterSpace
  <2>13. CASE Remount BY <2>13, RemountSpace
  <2> QED BY <2>1, <2>2, <2>3, <2>4, <2>5, <2>6, <2>7, <2>8, <2>9, <2>10, <2>11, <2>12, <2>13 DEF Step
<1> QED BY <1>1, <1>2

\* The invariant implies what is claimed.
LEMMA SpaceNoLeak ==
  ASSUME SpaceInv
  PROVE  NoLeak
<1> SUFFICES ASSUME Ready PROVE Unreachable \subseteq lost BY DEF NoLeak
<1>1. Good(World, NoPending) /\ Covered(table, Roots(entry), lost) BY ReadyCovered
<1> QED BY <1>1, CoveredLost

\* "Lost clusters remain only when the process stops, or the driver is
\* dropped, in between": wherever write, truncate, unlink, create, fsync and
\* recovery are cut, recovery frees what they leave, so once nothing is
\* pending every cluster in use is in a file's chain, or was lost at the mount.
\* For any number of clusters and files, any placement of the entries on the
\* device, both kinds of FAT and every choice of Windows.
THEOREM NothingLeaks == Spec => []NoLeak
<1>1. Init => SpaceInv BY InitSpace
<1>2. SpaceInv /\ [Next]_vars => SpaceInv' BY NextSpace
<1>3. SpaceInv => NoLeak BY SpaceNoLeak
<1> QED BY <1>1, <1>2, <1>3, PTL DEF Spec

-----------------------------------------------------------------------------
(* The clusters that a chain has. *)

\* s is a path of t that starts at c.
From(t, c, s) == IsPath(t, s) /\ s # <<>> /\ s[1] = c

\* The chain from c has k clusters, or more.
Holds(t, c, k) == k = 0 \/ \E s : From(t, c, s) /\ Len(s) = k

\* u has the paths of t that start at c.
Keeps(t, u, c) == \A s : From(t, c, s) => From(u, c, s)

\* Paths that start alike are alike.
LEMMA PathsAgree ==
  ASSUME NEW t, NEW s, IsPath(t, s), s # <<>>, NEW r, IsPath(t, r), r # <<>>, s[1] = r[1]
  PROVE  \A i \in 1 .. Len(s) : i <= Len(r) => s[i] = r[i]
<1> DEFINE m == Len(s)
           n == Len(r)
           Bad == {i \in Nat : i \in 1 .. m /\ i <= n /\ s[i] # r[i]}
<1>1. m \in Nat /\ n \in Nat BY DEF IsPath
<1>2. Bad = {}
  <2> SUFFICES ASSUME Bad # {} PROVE FALSE OBVIOUS
  <2>1. Bad \in SUBSET Nat OBVIOUS
  <2> HIDE DEF Bad
  <2>2. PICK i \in Bad : \A j \in Bad : i <= j BY <2>1, LeastNatural
  <2>3. i \in Nat /\ i \in 1 .. m /\ i <= n /\ s[i] # r[i] BY <2>2 DEF Bad
  <2>4. i # 1 BY <2>3
  <2> DEFINE j == i - 1
  <2>5. /\ j \in Nat /\ j \in 1 .. m /\ j <= n /\ j \in 1 .. m - 1 /\ j \in 1 .. n - 1 /\ j + 1 = i
        /\ ~(i <= j)
    BY <1>1, <2>3, <2>4
  <2> HIDE DEF j
  <2>6. j \notin Bad BY <2>2, <2>5
  <2>7. s[j] = r[j] BY <2>5, <2>6 DEF Bad
  <2>8. t[s[j]] = s[j + 1] /\ t[r[j]] = r[j + 1] BY <2>5 DEF IsPath
  <2> QED BY <2>3, <2>5, <2>7, <2>8
<1>3. ASSUME NEW i \in 1 .. m, i <= n PROVE s[i] = r[i]
  <2>1. i \in Nat BY <1>1
  <2>2. i \notin Bad BY <1>2
  <2> QED BY <1>3, <2>1, <2>2
<1> QED BY <1>3

\* The chain from a cluster has every path that starts there.
LEMMA ChainLongest ==
  ASSUME NEW t, NEW c \in Clusters, t[c] # Free, NEW s, From(t, c, s)
  PROVE  /\ Len(Chain(t, c)) \in Nat /\ Len(s) \in Nat /\ Len(s) <= Len(Chain(t, c))
         /\ \A i \in 1 .. Len(s) : Chain(t, c)[i] = s[i]
<1> DEFINE q == Chain(t, c)
           m == Len(q)
           n == Len(s)
<1>1. IsPath(t, q) /\ q # <<>> /\ q[1] = c /\ Stuck(t, q) BY ChainIsPath
<1>2. IsPath(t, s) /\ s # <<>> /\ s[1] = c BY DEF From
<1> HIDE DEF q
<1>3. m \in Nat /\ n \in Nat /\ m >= 1 BY <1>1, <1>2 DEF IsPath
<1>4. \A i \in 1 .. n : i <= m => s[i] = q[i] BY <1>1, <1>2, PathsAgree
<1>5. n <= m
  <2> SUFFICES ASSUME ~(n <= m) PROVE FALSE OBVIOUS
  <2>1. m \in 1 .. n /\ m \in 1 .. n - 1 /\ m + 1 \in 1 .. n BY <1>3
  <2>2. s[m] = q[m] BY <1>3, <1>4, <2>1
  <2>3. t[s[m]] = s[m + 1] /\ s \in Seq(Clusters) /\ t[s[m + 1]] # Free BY <1>2, <2>1 DEF IsPath
  <2>4. s[m + 1] \in Clusters BY <2>1, <2>3
  <2>5. PICK i \in 1 .. m : q[i] = s[m + 1] BY <1>1, <2>2, <2>3, <2>4 DEF Stuck
  <2>6. i \in 1 .. n /\ i <= m /\ i # m + 1 BY <1>3, <2>1
  <2>7. s[i] = s[m + 1] BY <1>4, <2>5, <2>6
  <2>8. \A a, b \in 1 .. n : s[a] = s[b] => a = b BY <1>2 DEF IsPath
  <2> HIDE DEF m, n
  <2> QED BY <2>1, <2>6, <2>7, <2>8
<1>6. ASSUME NEW i \in 1 .. n PROVE q[i] = s[i]
  <2>1. i <= m BY <1>3, <1>5
  <2> QED BY <1>4, <2>1
<1> QED BY <1>3, <1>5, <1>6 DEF q

\* The start of a path is a path.
LEMMA PathStart ==
  ASSUME NEW t, NEW q, IsPath(t, q), NEW k \in 1 .. Len(q)
  PROVE  LET s == SubSeq(q, 1, k)
         IN  From(t, q[1], s) /\ Len(s) = k /\ \A i \in 1 .. k : s[i] = q[i]
<1> DEFINE s == SubSeq(q, 1, k)
           m == Len(q)
<1>1. q \in Seq(Clusters) /\ m \in Nat /\ k \in Nat /\ k >= 1 /\ k <= m BY DEF IsPath
<1>2. s \in Seq(Clusters) /\ Len(s) = k /\ \A i \in 1 .. k : s[i] = q[i] BY <1>1
<1>3. /\ \A i \in 1 .. m : t[q[i]] # Free
      /\ \A i \in 1 .. m - 1 : t[q[i]] = q[i + 1]
      /\ \A i, j \in 1 .. m : q[i] = q[j] => i = j
  BY DEF IsPath
<1> HIDE DEF s
<1>4. \A i \in 1 .. k : i \in 1 .. m BY <1>1
<1>5. \A i \in 1 .. k - 1 : i \in 1 .. m - 1 /\ i \in 1 .. k /\ i + 1 \in 1 .. k BY <1>1
<1> HIDE DEF m
<1>6. \A i \in 1 .. k : t[s[i]] # Free BY <1>2, <1>3, <1>4
<1>7. \A i \in 1 .. k - 1 : t[s[i]] = s[i + 1] BY <1>2, <1>3, <1>5, Zenon
<1>8. \A i, j \in 1 .. k : s[i] = s[j] => i = j BY <1>2, <1>3, <1>4
<1>9. s # <<>> /\ s[1] = q[1] BY <1>1, <1>2
<1>10. IsPath(t, s) BY <1>2, <1>6, <1>7, <1>8 DEF IsPath
<1> QED BY <1>2, <1>9, <1>10 DEF From, s

\* A chain that has k clusters has fewer.
LEMMA HoldsLess ==
  ASSUME NEW t, NEW c, NEW k \in Nat, Holds(t, c, k), NEW j \in Nat, j <= k
  PROVE  Holds(t, c, j)
<1>1. CASE j = 0 BY <1>1 DEF Holds
<1>2. CASE j # 0
  <2>1. k # 0 BY <1>2
  <2>2. PICK s : From(t, c, s) /\ Len(s) = k BY <2>1 DEF Holds
  <2>3. IsPath(t, s) /\ s[1] = c /\ j \in 1 .. Len(s) BY <1>2, <2>2 DEF From
  <2>4. From(t, s[1], SubSeq(s, 1, j)) /\ Len(SubSeq(s, 1, j)) = j BY <2>3, PathStart
  <2> QED BY <2>3, <2>4, Zenon DEF Holds
<1> QED BY <1>1, <1>2

\* How many it has.
LEMMA HoldsChain ==
  ASSUME NEW t, NEW c \in Clusters \cup {0}, c # 0 => t[c] # Free, NEW k \in Nat
  PROVE  Len(Chain(t, c)) \in Nat /\ (Holds(t, c, k) <=> k <= Len(Chain(t, c)))
<1>1. CASE c = 0
  <2>1. Chain(t, c) = <<>> BY <1>1, Numbers, NoChain
  <2>2. Len(Chain(t, c)) = 0 BY <2>1
  <2>3. ASSUME NEW s, From(t, c, s) PROVE FALSE
    <3>1. s \in Seq(Clusters) /\ s # <<>> /\ s[1] = c BY <2>3 DEF From, IsPath
    <3>2. s[1] \in Clusters BY <3>1
    <3> QED BY <1>1, <3>1, <3>2, Numbers
  <2> QED BY <2>2, <2>3 DEF Holds
<1>2. CASE c # 0
  <2> DEFINE q == Chain(t, c)
  <2>1. c \in Clusters /\ t[c] # Free BY <1>2
  <2>2. IsPath(t, q) /\ q # <<>> /\ q[1] = c BY <2>1, ChainIsPath
  <2>3. Len(q) \in Nat BY <2>2 DEF IsPath
  <2>4. ASSUME Holds(t, c, k) PROVE k <= Len(q)
    <3>1. CASE k = 0 BY <2>3, <3>1
    <3>2. CASE k # 0
      <4>1. PICK s : From(t, c, s) /\ Len(s) = k BY <2>4, <3>2 DEF Holds
      <4> QED BY <2>1, <4>1, ChainLongest
    <3> QED BY <3>1, <3>2
  <2>5. ASSUME k <= Len(q) PROVE Holds(t, c, k)
    <3>1. From(t, c, q) BY <2>2 DEF From
    <3>2. Holds(t, c, Len(q)) BY <3>1 DEF Holds
    <3> HIDE DEF q
    <3> QED BY <2>3, <2>5, <3>2, HoldsLess
  <2> QED BY <2>3, <2>4, <2>5
<1> QED BY <1>1, <1>2

\* It has no less when its paths stay.
LEMMA HoldsKept ==
  ASSUME NEW t, NEW u, NEW c, Keeps(t, u, c), NEW k, Holds(t, c, k)
  PROVE  Holds(u, c, k)
  BY DEF Holds, Keeps

\* Nothing starts at no cluster.
LEMMA HoldsNone ==
  ASSUME NEW t, NEW c, c \notin Clusters, NEW k, Holds(t, c, k)
  PROVE  k = 0
<1> SUFFICES ASSUME k # 0 PROVE FALSE OBVIOUS
<1>1. PICK s : From(t, c, s) /\ Len(s) = k BY DEF Holds
<1>2. s \in Seq(Clusters) /\ s # <<>> /\ s[1] = c BY <1>1 DEF From, IsPath
<1>3. s[1] \in Clusters BY <1>2
<1> QED BY <1>2, <1>3

\* Nothing but free clusters and ends of chains changes, and no end is freed.
LEMMA KeepsAdd ==
  ASSUME NEW t, NEW u,
         \A c \in Clusters : t[c] # Free => u[c] = t[c] \/ (t[c] = EOC /\ u[c] # Free)
  PROVE  \A c : Keeps(t, u, c)
<1> SUFFICES ASSUME NEW c, NEW s, From(t, c, s) PROVE From(u, c, s) BY DEF Keeps
<1>1. IsPath(t, s) /\ s # <<>> /\ s[1] = c BY DEF From
<1>2. s \in Seq(Clusters) /\ Len(s) \in Nat BY <1>1 DEF IsPath
<1>3. \A i \in 1 .. Len(s) : s[i] \in Clusters /\ t[s[i]] # Free BY <1>1, <1>2 DEF IsPath
<1>4. \A i \in 1 .. Len(s) : u[s[i]] # Free BY <1>3
<1>5. ASSUME NEW i \in 1 .. Len(s) - 1 PROVE u[s[i]] = s[i + 1]
  <2>1. i \in 1 .. Len(s) /\ i + 1 \in 1 .. Len(s) BY <1>2
  <2>2. t[s[i]] = s[i + 1] BY <1>1 DEF IsPath
  <2>3. s[i] \in Clusters /\ s[i + 1] \in Clusters BY <1>3, <2>1
  <2>4. t[s[i]] # EOC /\ t[s[i]] # Free BY <2>2, <2>3, Numbers
  <2> QED BY <2>2, <2>3, <2>4
<1>6. IsPath(u, s) BY <1>1, <1>4, <1>5 DEF IsPath
<1> QED BY <1>1, <1>6 DEF From

\* Clusters are freed that nothing else leads to.
LEMMA KeepsFreed ==
  ASSUME NEW t, NEW u, NEW D,
         \A c \in Clusters : c \notin D => u[c] = t[c],
         \A c \in Clusters : t[c] \in D => c \in D,
         NEW c, c \notin D
  PROVE  Keeps(t, u, c)
<1> SUFFICES ASSUME NEW s, From(t, c, s) PROVE From(u, c, s) BY DEF Keeps
<1>1. IsPath(t, s) /\ s # <<>> /\ s[1] = c BY DEF From
<1> DEFINE n == Len(s)
           Bad == {i \in Nat : i \in 1 .. n /\ s[i] \in D}
<1>2. s \in Seq(Clusters) /\ n \in Nat BY <1>1 DEF IsPath
<1>3. \A i \in 1 .. n : s[i] \in Clusters BY <1>2
<1>4. Bad = {}
  <2> SUFFICES ASSUME Bad # {} PROVE FALSE OBVIOUS
  <2>1. Bad \in SUBSET Nat OBVIOUS
  <2> HIDE DEF Bad
  <2>2. PICK i \in Bad : \A j \in Bad : i <= j BY <2>1, LeastNatural
  <2>3. i \in Nat /\ i \in 1 .. n /\ s[i] \in D BY <2>2 DEF Bad
  <2>4. i # 1 BY <1>1, <2>3
  <2> DEFINE j == i - 1
  <2>5. j \in Nat /\ j \in 1 .. n /\ j \in 1 .. n - 1 /\ j + 1 = i /\ ~(i <= j) BY <1>2, <2>3, <2>4
  <2> HIDE DEF j
  <2>6. t[s[j]] = s[i] BY <1>1, <2>5 DEF IsPath
  <2>7. s[j] \in D BY <1>3, <2>3, <2>5, <2>6
  <2>8. j \in Bad BY <2>5, <2>7 DEF Bad
  <2> QED BY <2>2, <2>5, <2>8
<1>5. ASSUME NEW i \in 1 .. n PROVE u[s[i]] = t[s[i]]
  <2>1. i \in Nat BY <1>2
  <2>2. s[i] \notin D BY <1>4, <2>1
  <2> QED BY <1>3, <2>2
<1>6. IsPath(u, s)
  <2>1. \A i \in 1 .. n : u[s[i]] # Free BY <1>1, <1>5 DEF IsPath
  <2>2. ASSUME NEW i \in 1 .. n - 1 PROVE u[s[i]] = s[i + 1]
    <3>1. i \in 1 .. n BY <1>2
    <3> QED BY <1>1, <1>5, <3>1 DEF IsPath
  <2> QED BY <1>1, <2>1, <2>2 DEF IsPath
<1> QED BY <1>1, <1>6 DEF From

\* The chains of two files have no cluster in common.
LEMMA Apart ==
  ASSUME NEW t, NEW e \in [Files -> Entries], Sound(t, e),
         NEW f \in Files, NEW g \in Files, f # g, e[f].used, e[g].used,
         NEW s, From(t, e[f].first, s), NEW r, From(t, e[g].first, r)
  PROVE  \A i \in 1 .. Len(s), j \in 1 .. Len(r) : s[i] # r[j]
<1> DEFINE m == Len(s)
           n == Len(r)
           Bad == {i \in Nat : i \in 1 .. m /\ \E j \in 1 .. n : s[i] = r[j]}
<1>1. /\ s \in Seq(Clusters) /\ s # <<>> /\ s[1] = e[f].first /\ m \in Nat /\ m >= 1
      /\ r \in Seq(Clusters) /\ r # <<>> /\ r[1] = e[g].first /\ n \in Nat /\ n >= 1
      /\ \A i \in 1 .. m - 1 : t[s[i]] = s[i + 1]
      /\ \A i \in 1 .. n - 1 : t[r[i]] = r[i + 1]
  BY DEF From, IsPath
<1>2. (\A i \in 1 .. m : s[i] \in Clusters) /\ (\A i \in 1 .. n : r[i] \in Clusters) BY <1>1
<1>3. e[f].first # 0 /\ e[g].first # 0
  <2>1. 1 \in 1 .. m /\ 1 \in 1 .. n BY <1>1
  <2>2. s[1] \in Clusters /\ r[1] \in Clusters BY <1>2, <2>1
  <2> QED BY <1>1, <2>2, Numbers
<1>4. /\ \A c \in Clusters : t[c] # e[f].first /\ t[c] # e[g].first
      /\ e[f].first # e[g].first
      /\ \A c, d \in Clusters : t[c] = t[d] /\ t[c] \in Clusters => c = d
  BY <1>3 DEF Sound
<1> HIDE DEF m, n
<1>5. Bad = {}
  <2> SUFFICES ASSUME Bad # {} PROVE FALSE OBVIOUS
  <2>1. Bad \in SUBSET Nat OBVIOUS
  <2> HIDE DEF Bad
  <2>2. PICK i \in Bad : \A j \in Bad : i <= j BY <2>1, LeastNatural
  <2>3. i \in Nat /\ i \in 1 .. m /\ \E j \in 1 .. n : s[i] = r[j] BY <2>2 DEF Bad
  <2>4. PICK j \in 1 .. n : s[i] = r[j] BY <2>3
  <2>5. j \in Nat /\ j >= 1 /\ i >= 1 BY <1>1, <2>3, <2>4
  <2> DEFINE a == i - 1
             b == j - 1
  <2>6. i # 1 => /\ a \in Nat /\ a \in 1 .. m /\ a \in 1 .. m - 1 /\ a + 1 = i /\ ~(i <= a)
    BY <1>1, <2>3, <2>5
  <2>7. j # 1 => b \in 1 .. n /\ b \in 1 .. n - 1 /\ b + 1 = j BY <1>1, <2>4, <2>5
  <2> HIDE DEF a, b
  <2>8. i # 1 => t[s[a]] = s[i] /\ s[a] \in Clusters BY <1>1, <1>2, <2>6, Zenon
  <2>9. j # 1 => t[r[b]] = r[j] /\ r[b] \in Clusters BY <1>1, <1>2, <2>7, Zenon
  <2>10. i # 1 /\ j # 1
    BY <1>1, <1>4, <2>4, <2>8, <2>9
  <2>11. s[i] \in Clusters BY <1>2, <2>3
  <2>12. s[a] = r[b] BY <1>4, <2>4, <2>8, <2>9, <2>10, <2>11
  <2>13. a \in Bad BY <2>6, <2>7, <2>10, <2>12 DEF Bad
  <2> QED BY <2>2, <2>6, <2>10, <2>13
<1>6. ASSUME NEW i \in 1 .. m, NEW j \in 1 .. n, s[i] = r[j] PROVE FALSE
  <2>1. i \in Nat BY <1>1
  <2>2. i \in Bad BY <1>6, <2>1
  <2> QED BY <1>5, <2>2
<1> QED BY <1>6 DEF m, n

\* The table with the chain cut behind a cluster.
CutAt(t, c) == [x \in Clusters |-> IF x = c THEN EOC ELSE t[x]]

\* What is found then was there before.
LEMMA CutPath ==
  ASSUME NEW t, NEW at, t[at] # Free, NEW c, NEW s, From(CutAt(t, at), c, s)
  PROVE  From(t, c, s)
<1> DEFINE u == CutAt(t, at)
<1>1. IsPath(u, s) /\ s # <<>> /\ s[1] = c BY DEF From
<1>2. s \in Seq(Clusters) /\ Len(s) \in Nat BY <1>1 DEF IsPath
<1>3. \A i \in 1 .. Len(s) : s[i] \in Clusters BY <1>2
<1>4. \A x \in Clusters : u[x] = IF x = at THEN EOC ELSE t[x] BY DEF CutAt
<1> HIDE DEF u
<1>5. ASSUME NEW i \in 1 .. Len(s) PROVE t[s[i]] # Free
  <2>1. u[s[i]] # Free BY <1>1 DEF IsPath
  <2> QED BY <1>3, <1>4, <2>1
<1>6. ASSUME NEW i \in 1 .. Len(s) - 1 PROVE t[s[i]] = s[i + 1]
  <2>1. i \in 1 .. Len(s) /\ i + 1 \in 1 .. Len(s) BY <1>2
  <2>2. u[s[i]] = s[i + 1] BY <1>1 DEF IsPath
  <2> QED BY <1>3, <1>4, <2>1, <2>2, Numbers, Zenon
<1>7. IsPath(t, s) BY <1>1, <1>5, <1>6 DEF IsPath
<1> QED BY <1>1, <1>7 DEF From

\* What ends at the cut stays.
LEMMA CutShort ==
  ASSUME NEW t, NEW at, NEW c, NEW s, From(t, c, s), \A i \in 1 .. Len(s) - 1 : s[i] # at
  PROVE  From(CutAt(t, at), c, s)
<1> DEFINE u == CutAt(t, at)
<1>1. IsPath(t, s) /\ s # <<>> /\ s[1] = c BY DEF From
<1>2. s \in Seq(Clusters) /\ Len(s) \in Nat BY <1>1 DEF IsPath
<1>3. \A i \in 1 .. Len(s) : s[i] \in Clusters BY <1>2
<1>4. \A x \in Clusters : u[x] = IF x = at THEN EOC ELSE t[x] BY DEF CutAt
<1> HIDE DEF u
<1>5. ASSUME NEW i \in 1 .. Len(s) PROVE u[s[i]] # Free
  <2>1. t[s[i]] # Free BY <1>1 DEF IsPath
  <2> QED BY <1>3, <1>4, <2>1, Numbers, Zenon
<1>6. ASSUME NEW i \in 1 .. Len(s) - 1 PROVE u[s[i]] = s[i + 1]
  <2>1. i \in 1 .. Len(s) BY <1>2
  <2>2. t[s[i]] = s[i + 1] BY <1>1 DEF IsPath
  <2> QED BY <1>3, <1>4, <2>1, <2>2
<1>7. IsPath(u, s) BY <1>1, <1>5, <1>6 DEF IsPath
<1> QED BY <1>1, <1>7 DEF From, u

\* A larger size needs no fewer clusters.
LEMMA NeedMono ==
  ASSUME NEW a \in Nat, NEW b \in Nat, a <= b
  PROVE  Need(a) \in Nat /\ Need(b) \in Nat /\ Need(a) <= Need(b) /\ Need(0) = 0
<1>1. ClusterSize \in Nat /\ ClusterSize > 0 BY SizeAssumption
<1>2. Need(a) \in Nat /\ Need(b) \in Nat BY NeedOne
<1>3. Need(0) = 0 BY <1>1 DEF Need
<1>4. Need(a) <= Need(b)
  <2> DEFINE x == a + ClusterSize - 1
             y == b + ClusterSize - 1
             n == ClusterSize
  <2>1. x \in Nat /\ y \in Nat /\ x <= y BY <1>1
  <2> HIDE DEF x, y
  <2> DEFINE q == x \div n
             r == y \div n
  <2> HIDE DEF n
  <2>3. n \in Nat /\ n > 0 BY <1>1 DEF n
  <2>4. q \in Int /\ x >= n * q BY <2>1, <2>3
  <2>5. r \in Int /\ y < n * r + n BY <2>1, <2>3
  <2> HIDE DEF q, r
  <2>2. q <= r
    <3> SUFFICES ASSUME q >= r + 1 PROVE FALSE BY <2>4, <2>5
    <3> DEFINE d == q - (r + 1)
    <3>1. d \in Nat /\ q = r + 1 + d BY <2>4, <2>5
    <3> HIDE DEF d
    <3>2. n * d \in Nat BY <2>3, <3>1
    <3>3. n * q = n * r + n + n * d BY <2>3, <2>5, <3>1
    <3>4. n * q \in Int /\ n * r \in Int BY <2>3, <2>4, <2>5
    <3> QED BY <2>1, <2>3, <2>4, <2>5, <3>2, <3>3, <3>4
  <2> QED BY <2>2 DEF Need, x, y, q, r, n
<1> QED BY <1>2, <1>3, <1>4

-----------------------------------------------------------------------------
(* Sizes and chains. *)

\* The chains hold the sizes of the entries, and those still to be written
\* but for the files in X.
Sizes(t, e, n, X) ==
    \A f \in Files : e[f].used =>
        /\ Holds(t, e[f].first, Need(e[f].size))
        /\ n[f].dirty /\ f \notin X => Holds(t, n[f].first, Need(n[f].size))

\* A node is what its entry records, but for a size still to be written.
InStep(d, k) == k.pinned => d.used /\ k.first = d.first /\ (k.dirty \/ k.size = d.size)

\* Nothing is left to mend.
Steady(w) ==
    /\ Sizes(w.table, w.entry, w.node, {})
    /\ \A f \in Files : InStep(w.entry[f], w.node[f])

\* The entry has the size of the interrupted shrink.
Took(e, o) == e[o.file].used /\ e[o.file].size = o.size

\* Recovery may cut the chain at o.at.
Severed(e, o) == o.kind = "tail" \/ (o.kind = "cut" /\ Took(e, o))
\* The file whose node it then corrects.
Cutters(o) == IF o.kind = "cut" THEN {o.file} ELSE {}

\* Recovery corrects the node of f.
Mends(w, p, f) ==
    LET o == p.owner
        d == w.entry[f]
        k == w.node[f]
    IN  \/ o.kind = "cut" /\ o.file = f /\ Took(w.entry, o) /\ k.first = d.first
        \/ o.kind = "entry" /\ o.file = f /\ d.used /\ k.first # d.first /\ 0 \in {k.first, d.first}
        \/ o.kind = "removed" /\ o.file = f /\ ~d.used /\ k.first = p.head

\* What recovery will leave is steady.
Fit(w, p) ==
    LET o == p.owner
    IN  /\ Sizes(w.table, w.entry, w.node, {})
        /\ Severed(w.entry, o) => Sizes(CutAt(w.table, o.at), w.entry, w.node, Cutters(o))
        /\ o.kind = "cut" /\ w.node[o.file].dirty => w.node[o.file].size # o.size
        /\ \A f \in Files : InStep(w.entry[f], w.node[f]) \/ Mends(w, p, f)

\* No file loses clusters under the size that it keeps.
Saves(w, v) ==
    \A f \in Files : w.entry[f].used /\ v.entry[f].used =>
        LET a == w.entry[f].size
            b == v.entry[f].size
            k == Need(IF a < b THEN a ELSE b)
        IN  \A s : From(w.table, w.entry[f].first, s) /\ Len(s) = k => From(v.table, v.entry[f].first, s)

\* The write of an entry that recovery does not get right when its effect
\* goes unnoticed.
Unseen(w, p, f, to) ==
    \/ p.owner.kind = "tail" /\ ~w.node[f].dirty
    \/ p = NoPending /\ w.node[f].pinned /\ (~to.used \/ to.size < w.node[f].size)
Late(w, s) == s.kind = "entry" /\ Unseen(w, s.pre, s.file, s.to)

\* A step before which, after which, and after which unnoticed the sizes fit.
Fitting(w, s) ==
    /\ Fit(w, s.pre) /\ Fit(Landed(w, s), s.post)
    /\ Late(w, s) \/ Fit(Written(w, s), s.pre)
    /\ Saves(w, Written(w, s))
FitSteps == {x \in Worlds \X AllSteps : Fitting(x[1], x[2])}

\* Its elements.
LEMMA FitIn ==
  ASSUME NEW w \in Worlds, NEW s \in AllSteps
  PROVE  <<w, s>> \in FitSteps <=> Fitting(w, s)
  BY DEF FitSteps

\* Without an owner recovery leaves files alone.
LEMMA SteadyFit ==
  ASSUME NEW w, NEW p, p.owner.kind = "none"
  PROVE  Fit(w, p) <=> Steady(w)
  BY DEF Fit, Steady, Severed, Mends

\* What needs no mending is fit.
LEMMA FitSteady ==
  ASSUME NEW w, NEW p, Steady(w), p.owner.kind \in {"none", "entry", "removed", "tail"},
         p.owner.kind = "tail" => Sizes(CutAt(w.table, p.owner.at), w.entry, w.node, {})
  PROVE  Fit(w, p)
<1>1. p.owner.kind # "cut" OBVIOUS
<1> QED BY <1>1 DEF Fit, Steady, Severed, Cutters

\* Nothing pending.
LEMMA FitNone ==
  ASSUME NEW w
  PROVE  Fit(w, NoPending) <=> Steady(w)
  BY SteadyFit, PendingType

\* A size still to be written is that of a file, whose first cluster it has.
LEMMA SteadyDirty ==
  ASSUME NEW w, NEW p, Good(w, p), Steady(w), NEW f \in Files, w.node[f].dirty
  PROVE  w.node[f].pinned /\ w.entry[f].used /\ w.node[f].first = w.entry[f].first
<1>1. NodeFits(w.table, w.entry[f], w.node[f], p, f) BY DEF Good, NodeOK
<1>2. w.node[f].pinned BY <1>1 DEF NodeFits
<1> QED BY <1>2 DEF Steady, InStep

\* The chains of files stay.
LEMMA SizesKept ==
  ASSUME NEW t, NEW u, NEW e, NEW n, NEW X, Sizes(t, e, n, X),
         \A f \in Files : e[f].used =>
            Keeps(t, u, e[f].first) /\ (n[f].dirty /\ f \notin X => Keeps(t, u, n[f].first))
  PROVE  Sizes(u, e, n, X)
<1> SUFFICES ASSUME NEW f \in Files, e[f].used
             PROVE  /\ Holds(u, e[f].first, Need(e[f].size))
                    /\ n[f].dirty /\ f \notin X => Holds(u, n[f].first, Need(n[f].size))
  BY DEF Sizes
<1>1. /\ Holds(t, e[f].first, Need(e[f].size))
      /\ n[f].dirty /\ f \notin X => Holds(t, n[f].first, Need(n[f].size))
  BY DEF Sizes
<1>2. Keeps(t, u, e[f].first) /\ (n[f].dirty /\ f \notin X => Keeps(t, u, n[f].first)) OBVIOUS
<1> QED BY <1>1, <1>2, HoldsKept

\* ... so that they are as steady as before.
LEMMA SteadySizes ==
  ASSUME NEW w, NEW p, Good(w, p), Steady(w), NEW u,
         \A f \in Files : w.entry[f].used => Keeps(w.table, u, w.entry[f].first)
  PROVE  Sizes(u, w.entry, w.node, {})
<1>1. ASSUME NEW f \in Files, w.entry[f].used
      PROVE  Keeps(w.table, u, w.entry[f].first) /\ (w.node[f].dirty => Keeps(w.table, u, w.node[f].first))
  <2>1. w.node[f].dirty => w.node[f].first = w.entry[f].first BY SteadyDirty
  <2> QED BY <1>1, <2>1
<1> QED BY <1>1, SizesKept DEF Steady

\* One file changes.
LEMMA SizesPut ==
  ASSUME NEW t, NEW e, NEW n, NEW X, Sizes(t, e, n, X), NEW f, NEW to, NEW k,
         e = [g \in Files |-> e[g]], n = [g \in Files |-> n[g]],
         to.used => Holds(t, to.first, Need(to.size)) /\ (k.dirty /\ f \notin X => Holds(t, k.first, Need(k.size)))
  PROVE  Sizes(t, [e EXCEPT ![f] = to], [n EXCEPT ![f] = k], X)
<1> DEFINE d == [e EXCEPT ![f] = to]
           m == [n EXCEPT ![f] = k]
<1>1. \A g \in Files : g = f => d[g] = to /\ m[g] = k OBVIOUS
<1>2. \A g \in Files : g # f => d[g] = e[g] /\ m[g] = n[g] OBVIOUS
<1> HIDE DEF d, m
<1>3. ASSUME NEW g \in Files, d[g].used
      PROVE  /\ Holds(t, d[g].first, Need(d[g].size))
             /\ m[g].dirty /\ g \notin X => Holds(t, m[g].first, Need(m[g].size))
  <2>1. CASE g = f BY <1>1, <1>3, <2>1
  <2>2. CASE g # f BY <1>2, <1>3, <2>2 DEF Sizes
  <2> QED BY <2>1, <2>2
<1>4. Sizes(t, d, m, X) BY <1>3 DEF Sizes
<1> QED BY <1>4 DEF d, m

\* ... and is in step.
LEMMA SteadyPut ==
  ASSUME NEW w \in Worlds, Steady(w), NEW f \in Files, NEW to \in Entries, NEW k \in Nodes, InStep(to, k),
         to.used => Holds(w.table, to.first, Need(to.size)) /\ (k.dirty => Holds(w.table, k.first, Need(k.size)))
  PROVE  Steady(Put(w, f, to, k))
<1> DEFINE v == Put(w, f, to, k)
<1>1. /\ v.table = w.table /\ v.entry = [w.entry EXCEPT ![f] = to] /\ v.node = [w.node EXCEPT ![f] = k]
      /\ w.entry \in [Files -> Entries] /\ w.node \in [Files -> Nodes]
  BY PutFields
<1> HIDE DEF v
<1>2. w.entry = [g \in Files |-> w.entry[g]] /\ w.node = [g \in Files |-> w.node[g]] BY <1>1
<1>3. Sizes(w.table, [w.entry EXCEPT ![f] = to], [w.node EXCEPT ![f] = k], {})
  BY <1>2, SizesPut, Zenon DEF Steady
<1>4. ASSUME NEW g \in Files PROVE InStep(v.entry[g], v.node[g])
  <2>1. CASE g = f
    <3>1. v.entry[g] = to /\ v.node[g] = k BY <1>1, <2>1
    <3> QED BY <3>1
  <2>2. CASE g # f
    <3>1. v.entry[g] = w.entry[g] /\ v.node[g] = w.node[g] BY <1>1, <2>2
    <3> QED BY <3>1 DEF Steady
  <2> QED BY <2>1, <2>2
<1>5. Steady(v) BY <1>1, <1>3, <1>4 DEF Steady
<1> QED BY <1>5 DEF v

\* The table stays, and so do the first clusters, or nothing is kept.
LEMMA SavesSame ==
  ASSUME NEW w \in Worlds, NEW v \in Worlds, v.table = w.table,
         \A f \in Files : w.entry[f].used /\ v.entry[f].used =>
            \/ v.entry[f].first = w.entry[f].first
            \/ w.entry[f].first = 0 \/ w.entry[f].size = 0 \/ v.entry[f].size = 0
  PROVE  Saves(w, v)
<1>1. w.entry \in [Files -> Entries] /\ v.entry \in [Files -> Entries] BY DEF Worlds
<1> SUFFICES ASSUME NEW f \in Files, w.entry[f].used, v.entry[f].used, NEW s,
                    From(w.table, w.entry[f].first, s),
                    Len(s) = Need(IF w.entry[f].size < v.entry[f].size THEN w.entry[f].size ELSE v.entry[f].size)
             PROVE  From(v.table, v.entry[f].first, s)
  BY DEF Saves
<1> DEFINE a == w.entry[f].size
           b == v.entry[f].size
<1>2. a \in Nat /\ b \in Nat BY <1>1, SizeAssumption DEF Entries
<1>3. s \in Seq(Clusters) /\ s # <<>> /\ s[1] = w.entry[f].first BY DEF From, IsPath
<1>4. Len(s) # 0 /\ s[1] \in Clusters BY <1>3
<1>5. w.entry[f].first # 0 BY <1>3, <1>4, Numbers
<1>6. Need(0) = 0 BY NeedMono
<1> HIDE DEF a, b
<1>7. Len(s) = Need(IF a < b THEN a ELSE b) BY DEF a, b
<1>8. a # 0 /\ b # 0
  <2>1. a = 0 => (IF a < b THEN a ELSE b) = 0 BY <1>2
  <2>2. b = 0 => (IF a < b THEN a ELSE b) = 0 BY <1>2
  <2> QED BY <1>4, <1>6, <1>7, <2>1, <2>2
<1>9. v.entry[f].first = w.entry[f].first BY <1>5, <1>8 DEF a, b
<1> QED BY <1>9

\* The entries stay, and the chains of the files.
LEMMA SavesKeeps ==
  ASSUME NEW w, NEW v, v.entry = w.entry,
         \A f \in Files : w.entry[f].used => Keeps(w.table, v.table, w.entry[f].first)
  PROVE  Saves(w, v)
  BY DEF Saves, Keeps

\* The chain is cut behind what every file keeps.
LEMMA SavesCut ==
  ASSUME NEW w, NEW v, v.entry = w.entry, NEW at, w.table[at] # Free, v.table = CutAt(w.table, at),
         NEW n, NEW X, Sizes(v.table, w.entry, n, X)
  PROVE  Saves(w, v)
<1> SUFFICES ASSUME NEW f \in Files, w.entry[f].used, NEW s,
                    From(w.table, w.entry[f].first, s), Len(s) = Need(w.entry[f].size)
             PROVE  From(v.table, w.entry[f].first, s)
  <2>1. \A a : (IF a < a THEN a ELSE a) = a OBVIOUS
  <2> QED BY <2>1 DEF Saves
<1> DEFINE c == w.entry[f].first
           k == Need(w.entry[f].size)
<1>1. Holds(v.table, c, k) BY DEF Sizes
<1>2. IsPath(w.table, s) /\ s # <<>> /\ s[1] = c /\ s \in Seq(Clusters) BY DEF From, IsPath
<1> HIDE DEF c, k
<1>3. Len(s) = k BY DEF k
<1>4. k # 0 BY <1>2, <1>3
<1>5. PICK r : From(v.table, c, r) /\ Len(r) = k BY <1>1, <1>4 DEF Holds
<1>6. From(w.table, c, r) BY <1>5, CutPath
<1>7. IsPath(w.table, r) /\ r # <<>> /\ r[1] = c /\ r \in Seq(Clusters) BY <1>6 DEF From, IsPath
<1>8. \A i \in 1 .. Len(s) : i <= Len(r) => s[i] = r[i] BY <1>2, <1>7, PathsAgree
<1>9. \A i \in 1 .. Len(s) : s[i] = r[i]
  <2> TAKE i \in 1 .. Len(s)
  <2>1. i <= Len(r) BY <1>2, <1>3, <1>5
  <2> QED BY <1>8, <2>1
<1>10. s = r BY <1>2, <1>3, <1>5, <1>7, <1>9
<1> QED BY <1>5, <1>10 DEF c

-----------------------------------------------------------------------------
(* Steps that keep the sizes. *)

\* A write of FAT entries, ...
LEMMA FatFit ==
  ASSUME NEW w \in Worlds, NEW p, NEW d, NEW r, FatStep(p, d, r) \in AllSteps,
         Fit(w, p), Fit(Landed(w, FatStep(p, d, r)), p), Fit(Landed(w, FatStep(p, d, r)), r),
         Saves(w, Landed(w, FatStep(p, d, r)))
  PROVE  <<w, FatStep(p, d, r)>> \in FitSteps
<1> DEFINE s == FatStep(p, d, r)
<1>1. s.kind = "fat" /\ s.pre = p /\ s.post = r BY FatStepFields
<1> HIDE DEF s
<1>2. Written(w, s) = Landed(w, s) BY <1>1 DEF Written, Landed
<1>3. Fitting(w, s) BY <1>1, <1>2 DEF Fitting, s
<1>4. s \in AllSteps BY DEF s
<1>5. <<w, s>> \in FitSteps BY <1>3, <1>4, FitIn
<1> QED BY <1>5 DEF s

\* ... of an entry, ...
LEMMA EntryFit ==
  ASSUME NEW w \in Worlds, NEW p, NEW f \in Files, NEW to, NEW k, NEW r,
         EntryStep(p, f, to, k, r) \in AllSteps,
         Fit(w, p), Unseen(w, p, f, to) \/ Fit(Put(w, f, to, w.node[f]), p), Fit(Put(w, f, to, k), r),
         Saves(w, Put(w, f, to, w.node[f]))
  PROVE  <<w, EntryStep(p, f, to, k, r)>> \in FitSteps
<1> DEFINE s == EntryStep(p, f, to, k, r)
<1>1. s.kind = "entry" /\ s.pre = p /\ s.file = f /\ s.to = to /\ s.node = k /\ s.post = r BY DEF EntryStep
<1> HIDE DEF s
<1>2. [w.node EXCEPT ![f] = w.node[f]] = w.node BY SameEntry, Zenon
<1>3. Written(w, s) = Put(w, f, to, w.node[f]) BY <1>1, <1>2 DEF Written, Put
<1>4. Landed(w, s) = Put(w, f, to, k) BY <1>1 DEF Landed, Put
<1>5. Late(w, s) <=> Unseen(w, p, f, to) BY <1>1 DEF Late
<1>6. Fitting(w, s) BY <1>1, <1>3, <1>4, <1>5 DEF Fitting
<1>7. s \in AllSteps BY DEF s
<1>8. <<w, s>> \in FitSteps BY <1>6, <1>7, FitIn
<1> QED BY <1>8 DEF s

\* ... and of data.
LEMMA DataFit ==
  ASSUME NEW w \in Worlds, NEW p, NEW f \in Files, NEW k, NEW r,
         DataStep(p, f, k, r) \in AllSteps, Fit(w, p), Fit(Put(w, f, w.entry[f], k), r)
  PROVE  <<w, DataStep(p, f, k, r)>> \in FitSteps
<1> DEFINE s == DataStep(p, f, k, r)
<1>1. s.kind = "data" /\ s.pre = p /\ s.file = f /\ s.node = k /\ s.post = r BY DEF DataStep
<1> HIDE DEF s
<1>2. [w.entry EXCEPT ![f] = w.entry[f]] = w.entry /\ Put(w, f, w.entry[f], w.node[f]) = w
      /\ [w.node EXCEPT ![f] = w.node[f]] = w.node
  BY SameEntry
<1>3. Written(w, s) = w BY <1>1, <1>2 DEF Written, Put
<1>4. Landed(w, s) = Put(w, f, w.entry[f], k) BY <1>1, <1>2 DEF Landed, Put
<1>5. Saves(w, w) BY SavesSame
<1>6. Fitting(w, s) BY <1>1, <1>3, <1>4, <1>5 DEF Fitting
<1>7. s \in AllSteps BY DEF s
<1>8. <<w, s>> \in FitSteps BY <1>6, <1>7, FitIn
<1> QED BY <1>8 DEF s

\* The last step of a plan may clear what is pending.
LEMMA FitsFinish ==
  ASSUME NEW w, NEW s, NEW z, Goes(FitSteps, w, s, z), Steady(z)
  PROVE  Goes(FitSteps, w, Finished(s), z)
<1>1. ASSUME NEW v \in Worlds, NEW d \in AllSteps, <<v, d>> \in FitSteps, Landed(v, d) = z
      PROVE  <<v, Last(d)>> \in FitSteps
  <2> DEFINE q == Last(d)
  <2>1. /\ q \in AllSteps /\ q.kind = d.kind /\ q.pre = d.pre /\ q.post = NoPending
        /\ d.kind # "fat" => q.file = d.file
        /\ d.kind = "entry" => q.to = d.to
        /\ Written(v, q) = Written(v, d) /\ Landed(v, q) = Landed(v, d)
    BY LastFields
  <2> HIDE DEF q
  <2>2. Fitting(v, d) BY <1>1, FitIn
  <2>3. Late(v, d) => Late(v, q) BY <2>1 DEF Late
  <2>4. Fit(z, NoPending) BY FitNone
  <2>5. Fitting(v, q) BY <1>1, <2>1, <2>2, <2>3, <2>4 DEF Fitting
  <2>6. <<v, q>> \in FitSteps BY <2>1, <2>5, FitIn
  <2> QED BY <2>6 DEF q
<1>2. \A v \in Worlds, d \in AllSteps : <<v, d>> \in FitSteps /\ Landed(v, d) = z => <<v, Last(d)>> \in FitSteps
  BY <1>1
<1> QED BY <1>2, GoesFinish

-----------------------------------------------------------------------------
(* Freeing and allocating. *)

\* What a write of an allocation does.
LEMMA AllocStepLands ==
  ASSUME NEW w, Good(w, NoPending), NEW q, NEW tail, Fresh(w.table, w.entry, q, tail),
         NEW o, OwnerFor(o, tail),
         NEW d \in 1 .. Len(q), NEW i \in 1 .. Len(q) + 1, NEW M \in SUBSET ({tail} \ {0}),
         NEW p \in AllocHeld(q, i, d, o), M # {} => d = 1,
         FatStep(p, Links1(q, d, i, M), Held(q[d], 0, o)) \in AllSteps
  PROVE  /\ d \in 1 .. Len(q) + 1 /\ d <= i
         /\ AllocWorld(w, q, i, {}) \in Worlds
         /\ Landed(AllocWorld(w, q, i, {}), FatStep(p, Links1(q, d, i, M), Held(q[d], 0, o))) = AllocWorld(w, q, d, M)
<1> DEFINE r == Held(q[d], 0, o)
           s == FatStep(p, Links1(q, d, i, M), r)
           v == AllocWorld(w, q, i, {})
           u == AllocWorld(w, q, d, M)
           n == Len(q)
<1>0. n \in Nat /\ q \in Seq(Clusters) BY DEF Fresh
<1>1. /\ d \in 1 .. n + 1 /\ {} \in SUBSET ({tail} \ {0}) /\ ({} # {} => i = 1) /\ d <= n /\ d <= i
      /\ d <= d /\ ~(d < d) /\ ~(i <= n) => i = n + 1
  BY <1>0 DEF AllocHeld
<1>2. Good(u, r) BY <1>1, AllocGood
<1>3. Good(v, p) /\ Good(u, p)
  <2>1. CASE d < i /\ p = Held(IF i = n + 1 THEN 0 ELSE q[i], q[d], o)
    <3>1. Good(v, p) BY <1>1, <2>1, AllocGood
    <3>2. Good(u, p) BY <1>1, <2>1, AllocGood
    <3> QED BY <3>1, <3>2
  <2>2. CASE p = Held(q[d], 0, o) /\ i = d BY <1>1, <1>2, <2>2, AllocGood
  <2>3. CASE p = Held(q[d], 0, o) /\ d < i BY <1>1, <1>2, <2>3, AllocGood
  <2>4. d = i \/ d < i BY <1>0, <1>1
  <2> QED BY <2>1, <2>2, <2>3, <2>4 DEF AllocHeld
<1>4. Linking(q, d, i, M) \in Groups
  <2>1. s.kind = "fat" /\ s.patch = Links1(q, d, i, M) BY FatStepFields
  <2> DEFINE y == Links1(q, d, i, M)
  <2>2. DOMAIN y = Linking(q, d, i, M) BY DEF Links1, Linking
  <2> HIDE DEF y
  <2>3. s \in FatSteps
    <3>1. s \in AllSteps /\ s.kind = "fat" BY <2>1
    <3> HIDE DEF s
    <3> QED BY <3>1 DEF AllSteps, EntrySteps, DataSteps
  <2>4. y \in Patches
    <3>1. s.patch = y BY <2>1 DEF y
    <3> HIDE DEF s
    <3> QED BY <2>3, <3>1 DEF FatSteps
  <2>5. PICK D \in Groups : y \in [D -> Values] BY <2>4 DEF Patches
  <2>6. DOMAIN y = D BY <2>5
  <2> QED BY <2>2, <2>6
<1>5. Landed(v, s) = u
  BY <1>1, <1>3, <1>4, AllocStepSafe
<1>6. v \in Worlds BY <1>3 DEF Good
<1> QED BY <1>1, <1>5, <1>6

\* What a write of free_chain or of reclaim does.
LEMMA FreeStepLands ==
  ASSUME NEW w \in Worlds, NEW q, NEW keep, NEW a \in Nat, NEW b \in Nat, a < b
  PROVE  /\ Freed(w, q, a) \in Worlds
         /\ Landed(Freed(w, q, a), FreeStep(q, a, b, keep)) = Freed(w, q, b)
<1> DEFINE p == Held(IF b < Len(q) THEN q[b + 1] ELSE keep, q[a + 1], Nothing)
           D == {q[i] : i \in a + 1 .. b}
           d == [c \in D |-> Free]
           v == Freed(w, q, a)
           u == Freed(w, q, b)
           s == FreeStep(q, a, b, keep)
<1>1. s = FatStep(p, d, p) BY DEF FreeStep
<1>2. v.table = FreedTable(w.table, Prefix(q, a)) /\ v.entry = w.entry /\ v.node = w.node BY DEF Freed
<1>3. u = [table |-> FreedTable(w.table, Prefix(q, b)), entry |-> w.entry, node |-> w.node] BY DEF Freed
<1>4. s.kind = "fat" /\ s.patch = d BY <1>1, FatStepFields
<1>5. Prefix(q, b) = Prefix(q, a) \cup D
  <2>1. 1 .. b = (1 .. a) \cup (a + 1 .. b) OBVIOUS
  <2> QED BY <2>1 DEF Prefix
<1>6. Patched(v.table, d) = FreedTable(w.table, Prefix(q, b))
  <2>1. d = [c \in D |-> Free] OBVIOUS
  <2> HIDE DEF D, d, v
  <2> QED BY <1>2, <1>5, <2>1 DEF Patched, FreedTable
<1>7. v \in Worlds
  <2>1. w.table \in [Clusters -> Values] /\ w.entry \in [Files -> Entries] /\ w.node \in [Files -> Nodes]
    BY DEF Worlds
  <2>2. FreedTable(w.table, Prefix(q, a)) \in [Clusters -> Values] BY <2>1, Numbers DEF FreedTable
  <2> QED BY <2>1, <2>2 DEF Freed, Worlds
<1> HIDE DEF v, u, s, d
<1>8. Landed(v, s) = u BY <1>2, <1>3, <1>4, <1>6 DEF Landed
<1> QED BY <1>7, <1>8 DEF v, u, s

\* Nothing leads to the first clusters of a loose path but the path.
LEMMA PrefixAlone ==
  ASSUME NEW t, NEW e, Sound(t, e), NEW q, Loose(t, e, q), NEW b \in 0 .. Len(q)
  PROVE  /\ \A c \in Clusters : t[c] \in Prefix(q, b) => c \in Prefix(q, b)
         /\ \A f \in Files : e[f].used => e[f].first \notin Prefix(q, b)
<1> DEFINE n == Len(q)
<1>1. /\ q \in Seq(Clusters) /\ n \in Nat
      /\ \A i \in 1 .. n - 1 : t[q[i]] = q[i + 1]
  BY DEF Loose, IsPath
<1>2. \A i \in 1 .. n : q[i] \in Clusters BY <1>1
<1>3. q # <<>> => LinkedBy(t, e, q[1], {}, {}) BY DEF Loose
<1> HIDE DEF n
<1>4. b \in 0 .. n BY DEF n
<1>5. ASSUME NEW i \in 1 .. b
      PROVE  /\ i \in 1 .. n /\ q[i] \in Clusters
             /\ i = 1 => LinkedBy(t, e, q[1], {}, {})
             /\ i # 1 => i - 1 \in 1 .. b /\ q[i - 1] \in Clusters /\ t[q[i - 1]] = q[i]
  <2>1. i \in 1 .. n BY <1>1, <1>4
  <2>2. q # <<>> BY <1>1, <2>1 DEF n
  <2>3. i # 1 => i - 1 \in 1 .. b /\ i - 1 \in 1 .. n /\ i - 1 \in 1 .. n - 1 /\ (i - 1) + 1 = i BY <1>1, <1>4, <2>1
  <2> QED BY <1>1, <1>2, <1>3, <2>1, <2>2, <2>3
<1>6. ASSUME NEW c \in Clusters, t[c] \in Prefix(q, b) PROVE c \in Prefix(q, b)
  <2>1. PICK i \in 1 .. b : q[i] = t[c] BY <1>6 DEF Prefix
  <2>2. i # 1 BY <1>5, <2>1 DEF LinkedBy
  <2>3. i - 1 \in 1 .. b /\ q[i - 1] \in Clusters /\ t[q[i - 1]] = q[i] /\ q[i] \in Clusters BY <1>5, <2>2
  <2>4. q[i - 1] = c BY <2>1, <2>3 DEF Sound
  <2> QED BY <2>3, <2>4 DEF Prefix
<1>7. ASSUME NEW f \in Files, e[f].used, e[f].first \in Prefix(q, b) PROVE FALSE
  <2>1. PICK i \in 1 .. b : q[i] = e[f].first BY <1>7 DEF Prefix
  <2>2. i # 1 BY <1>5, <1>7, <2>1 DEF LinkedBy
  <2>3. q[i - 1] \in Clusters /\ t[q[i - 1]] = q[i] /\ q[i] \in Clusters BY <1>5, <2>2
  <2> QED BY <1>7, <2>1, <2>3, Numbers, Zenon DEF Sound
<1> QED BY <1>6, <1>7

\* Freeing it piece by piece takes nothing from a file.
LEMMA FreedKeeps ==
  ASSUME NEW w, Good(w, NoPending), NEW q, Loose(w.table, w.entry, q),
         NEW a \in 0 .. Len(q), NEW b \in 0 .. Len(q), a <= b, NEW f \in Files, w.entry[f].used
  PROVE  Keeps(Freed(w, q, a).table, Freed(w, q, b).table, w.entry[f].first)
<1> DEFINE t == Freed(w, q, a).table
           u == Freed(w, q, b).table
           D == Prefix(q, b)
           c == w.entry[f].first
           o == w.table
           C == Prefix(q, a)
<1>1. Sound(o, w.entry) BY DEF Good
<1>2. /\ \A x \in Clusters : o[x] \in D => x \in D
      /\ \A g \in Files : w.entry[g].used => w.entry[g].first \notin D
  BY <1>1, PrefixAlone
<1>3. /\ \A x \in Clusters : t[x] = IF x \in C THEN Free ELSE o[x]
      /\ \A x \in Clusters : u[x] = IF x \in D THEN Free ELSE o[x]
  BY DEF Freed, FreedTable
<1>4. C \subseteq D
  <2>1. Len(q) \in Nat BY DEF Loose, IsPath
  <2>2. \A i \in 1 .. a : i \in 1 .. b BY <2>1
  <2> QED BY <2>2 DEF Prefix
<1>5. D \in SUBSET Clusters
  <2>1. q \in Seq(Clusters) /\ Len(q) \in Nat BY DEF Loose, IsPath
  <2>2. \A i \in 1 .. b : i \in 1 .. Len(q) BY <2>1
  <2> QED BY <2>1, <2>2 DEF Prefix
<1>6. c \notin D BY <1>2
<1> HIDE DEF t, u, D, c, o, C
<1>7. \A x \in Clusters : x \notin D => u[x] = t[x] BY <1>3, <1>4
<1>8. \A x \in Clusters : t[x] \in D => x \in D BY <1>2, <1>3, <1>5, Numbers
<1>9. Keeps(t, u, c) BY <1>6, <1>7, <1>8, KeepsFreed
<1> QED BY <1>9 DEF t, u, c

\* It keeps the sizes.
LEMMA FreedSteady ==
  ASSUME NEW w, Good(w, NoPending), Steady(w), NEW q, Loose(w.table, w.entry, q), NEW a \in 0 .. Len(q)
  PROVE  Steady(Freed(w, q, a))
<1> DEFINE u == Freed(w, q, a).table
<1>1. w \in Worlds BY DEF Good
<1>2. Len(q) \in Nat BY DEF Loose, IsPath
<1>3. Freed(w, q, 0) = w BY <1>1, FreedNone
<1>4. 0 \in 0 .. Len(q) /\ 0 <= a BY <1>2
<1>5. \A f \in Files : w.entry[f].used => Keeps(w.table, u, w.entry[f].first)
  <2> TAKE f \in Files
  <2> HAVE w.entry[f].used
  <2>1. Keeps(Freed(w, q, 0).table, u, w.entry[f].first) BY <1>4, FreedKeeps
  <2> QED BY <1>3, <2>1
<1>6. Freed(w, q, a).entry = w.entry /\ Freed(w, q, a).node = w.node BY DEF Freed
<1> HIDE DEF u
<1>7. Sizes(u, w.entry, w.node, {}) BY <1>5, SteadySizes
<1> QED BY <1>6, <1>7 DEF Steady, u

\* So does a plan that frees it.
LEMMA FreesFit ==
  ASSUME NEW w, Good(w, NoPending), Steady(w), NEW q, Loose(w.table, w.entry, q),
         NEW keep, Kept(w.table, w.entry, q, keep), NEW s, Frees(s, q, keep)
  PROVE  /\ Goes(FitSteps, w, s, Freed(w, q, Len(q)))
         /\ Steady(Freed(w, q, Len(q)))
<1> DEFINE n == Len(q)
<1>1. n \in Nat /\ w \in Worlds BY DEF Loose, IsPath, Good
<1>2. ASSUME NEW a \in Nat, NEW b \in Nat, a < b, b <= n, FreeStep(q, a, b, keep) \in AllSteps
      PROVE  <<Freed(w, q, a), FreeStep(q, a, b, keep)>> \in FitSteps
  <2> DEFINE p == Held(IF b < n THEN q[b + 1] ELSE keep, q[a + 1], Nothing)
             d == [c \in {q[i] : i \in a + 1 .. b} |-> Free]
             v == Freed(w, q, a)
             u == Freed(w, q, b)
             s0 == FreeStep(q, a, b, keep)
  <2>1. s0 = FatStep(p, d, p) BY DEF FreeStep
  <2>2. p.owner = Nothing BY HeldFields
  <2>3. p.owner.kind = "none" BY <2>2, PendingType
  <2>4. a \in 0 .. n /\ b \in 0 .. n /\ a <= b BY <1>1, <1>2
  <2>5. Steady(v) /\ Steady(u) BY <2>4, FreedSteady
  <2>6. v \in Worlds /\ Landed(v, s0) = u BY <1>1, <1>2, FreeStepLands
  <2>8. v.entry = w.entry /\ u.entry = w.entry BY DEF Freed
  <2>9. \A f \in Files : w.entry[f].used => Keeps(v.table, u.table, w.entry[f].first) BY <2>4, FreedKeeps
  <2> HIDE DEF v, u, d, s0, p
  <2>10. Saves(v, u) BY <2>8, <2>9, SavesKeeps
  <2>11. Fit(v, p) /\ Fit(u, p) BY <2>3, <2>5, SteadyFit
  <2>12. FatStep(p, d, p) \in AllSteps BY <1>2, <2>1 DEF s0
  <2>13. Landed(v, FatStep(p, d, p)) = u BY <2>1, <2>6
  <2>14. <<v, FatStep(p, d, p)>> \in FitSteps BY <2>6, <2>10, <2>11, <2>12, <2>13, FatFit
  <2> QED BY <2>1, <2>14 DEF v, s0
<1>3. \A a, b \in Nat : a < b /\ b <= Len(q) /\ FreeStep(q, a, b, keep) \in AllSteps =>
        <<Freed(w, q, a), FreeStep(q, a, b, keep)>> \in FitSteps
  BY <1>2
<1>4. Goes(FitSteps, w, s, Freed(w, q, Len(q))) BY <1>3, FreesGo
<1>5. n \in 0 .. Len(q) BY <1>1
<1> QED BY <1>4, <1>5, FreedSteady

\* free_chain
LEMMA FreeChainFit ==
  ASSUME NEW w, Good(w, NoPending), Steady(w), NEW q, Loose(w.table, w.entry, q)
  PROVE  \E z : Goes(FitSteps, w, Finished(FreeChain(q)), z) /\ Steady(z)
<1>1. q \in Seq(Clusters) BY DEF Loose, IsPath
<1>2. Frees(FreeChain(q), q, 0) BY <1>1, FreeChainFrees
<1>3. Kept(w.table, w.entry, q, 0) BY DEF Kept
<1> DEFINE z == Freed(w, q, Len(q))
           s == FreeChain(q)
<1>4. Goes(FitSteps, w, s, z) /\ Steady(z) BY <1>2, <1>3, FreesFit
<1> HIDE DEF z, s
<1>5. Goes(FitSteps, w, Finished(s), z) BY <1>4, FitsFinish
<1> QED BY <1>4, <1>5 DEF s

\* A chain that is allocated takes nothing from a file, and neither does
\* cutting it off again.
LEMMA AllocSteady ==
  ASSUME NEW w, Good(w, NoPending), Steady(w), NEW q, NEW tail, Fresh(w.table, w.entry, q, tail),
         NEW d \in 1 .. Len(q) + 1, NEW M \in SUBSET ({tail} \ {0}), M # {} => d = 1
  PROVE  LET v == AllocWorld(w, q, d, M)
         IN  /\ Steady(v) /\ v.entry = w.entry /\ v.node = w.node
             /\ \A c : Keeps(w.table, v.table, c)
             /\ Sizes(CutAt(v.table, tail), v.entry, v.node, {})
<1> DEFINE v == AllocWorld(w, q, d, M)
           u == Allocated(w.table, q, d, M)
           x == CutAt(u, tail)
           t == w.table
<1>1. \A c \in Clusters : (\A i \in 1 .. Len(q) : q[i] # c) => u[c] = IF c \in M THEN q[1] ELSE t[c]
  BY AllocatedFacts
<1>2. /\ q \in Seq(Clusters) /\ q # <<>> /\ Len(q) \in Nat /\ \A i \in 1 .. Len(q) : t[q[i]] = Free
      /\ tail \in Clusters \cup {0} /\ (tail # 0 => t[tail] = EOC)
  BY DEF Fresh
<1>3. v.entry = w.entry /\ v.node = w.node /\ v.table = u BY DEF AllocWorld
<1>4. q[1] \in Clusters BY <1>2
<1> HIDE DEF u, v
<1>5. \A c \in Clusters : t[c] # Free => u[c] = t[c] \/ (t[c] = EOC /\ u[c] # Free)
  <2> TAKE c \in Clusters
  <2> HAVE t[c] # Free
  <2>1. \A i \in 1 .. Len(q) : q[i] # c BY <1>2
  <2>2. u[c] = IF c \in M THEN q[1] ELSE t[c] BY <1>1, <2>1
  <2>3. c \in M => t[c] = EOC BY <1>2
  <2> QED BY <1>4, <2>2, <2>3, Numbers
<1>6. \A c \in Clusters : t[c] # Free => x[c] = t[c] \/ (t[c] = EOC /\ x[c] # Free)
  <2> TAKE c \in Clusters
  <2> HAVE t[c] # Free
  <2>1. x[c] = IF c = tail THEN EOC ELSE u[c] BY DEF CutAt
  <2>2. tail # 0 => t[tail] = EOC BY <1>2
  <2>3. c # 0 BY Numbers
  <2> HIDE DEF x
  <2> QED BY <1>5, <2>1, <2>2, <2>3
<1> HIDE DEF x, t
<1>7. (\A c : Keeps(t, u, c)) /\ (\A c : Keeps(t, x, c)) BY <1>5, <1>6, KeepsAdd, Zenon
<1>8. Sizes(u, w.entry, w.node, {}) /\ Sizes(x, w.entry, w.node, {}) BY <1>7, SteadySizes DEF t
<1>9. Steady(v) BY <1>3, <1>8 DEF Steady
<1> QED BY <1>3, <1>7, <1>8, <1>9 DEF v, x, t

\* allocate, allocate_after, allocate_run and allocate_run_after
LEMMA AllocatesFit ==
  ASSUME NEW w, Good(w, NoPending), Steady(w), NEW q, NEW tail, Fresh(w.table, w.entry, q, tail),
         NEW o, OwnerFor(o, tail)
  PROVE  Allocates(FitSteps, w, q, tail, o)
<1> DEFINE n == Len(q)
<1>1. n \in Nat /\ n >= 1 /\ w \in Worlds /\ q \in Seq(Clusters) BY DEF Fresh, Good
<1>2. /\ o.kind \in {"entry", "tail"}
      /\ o.kind = "tail" => o.at = tail
  BY DEF OwnerFor, EntryOf, AtTail
<1>3. ASSUME NEW d \in 1 .. n, NEW i \in 1 .. n + 1, NEW L \in SUBSET ({tail} \ {0}),
             NEW p \in AllocHeld(q, i, d, o), L # {} => d = 1,
             FatStep(p, Links1(q, d, i, L), Held(q[d], 0, o)) \in AllSteps
      PROVE  <<AllocWorld(w, q, i, {}), FatStep(p, Links1(q, d, i, L), Held(q[d], 0, o))>> \in FitSteps
  <2> DEFINE x == AllocWorld(w, q, i, {})
             v == AllocWorld(w, q, d, L)
             r == Held(q[d], 0, o)
             l == Links1(q, d, i, L)
  <2>1. d <= i /\ d \in 1 .. n + 1 /\ x \in Worlds /\ Landed(x, FatStep(p, l, r)) = v BY <1>3, AllocStepLands
  <2>2. p.owner = o /\ r.owner = o
    <3>1. \A h, y : Held(h, y, o).owner = o BY HeldFields
    <3> QED BY <3>1 DEF AllocHeld
  <2>3. /\ Steady(x) /\ x.entry = w.entry /\ x.node = w.node
        /\ \A c : Keeps(w.table, x.table, c)
        /\ Sizes(CutAt(x.table, tail), x.entry, x.node, {})
    BY AllocSteady, Zenon
  <2>4. /\ Steady(v) /\ v.entry = w.entry /\ v.node = w.node
        /\ \A c : Keeps(w.table, v.table, c)
        /\ Sizes(CutAt(v.table, tail), v.entry, v.node, {})
    BY <1>3, <2>1, AllocSteady, Zenon
  <2>5. \A c : Keeps(x.table, v.table, c)
    <3> DEFINE a == Allocated(w.table, q, i, {})
               b == Allocated(w.table, q, d, L)
    <3>1. /\ \A j \in 1 .. Len(q) : a[q[j]] = IF j < i THEN Free ELSE After(q, j)
          /\ \A c \in Clusters : (\A j \in 1 .. Len(q) : q[j] # c) => a[c] = w.table[c]
      <4>1. {} \in SUBSET ({tail} \ {0}) /\ ({} # {} => i = 1) OBVIOUS
      <4>2. /\ \A j \in 1 .. Len(q) : a[q[j]] = IF j < i THEN Free ELSE After(q, j)
            /\ \A c \in Clusters : (\A j \in 1 .. Len(q) : q[j] # c) => a[c] = IF c \in {} THEN q[1] ELSE w.table[c]
        BY <4>1, AllocatedFacts
      <4> HIDE DEF a
      <4> QED BY <4>2
    <3>2. /\ \A j \in 1 .. Len(q) : b[q[j]] = IF j < d THEN Free ELSE After(q, j)
          /\ \A c \in Clusters : (\A j \in 1 .. Len(q) : q[j] # c) => b[c] = IF c \in L THEN q[1] ELSE w.table[c]
      BY <1>3, <2>1, AllocatedFacts
    <3> HIDE DEF a, b
    <3>3. \A c \in L : w.table[c] = EOC BY DEF Fresh
    <3>4. q[1] # Free BY <1>1, Numbers
    <3>5. \A c \in Clusters : a[c] # Free => b[c] = a[c] \/ (a[c] = EOC /\ b[c] # Free)
      <4> TAKE c \in Clusters
      <4> HAVE a[c] # Free
      <4>1. CASE \E j \in 1 .. n : q[j] = c
        <5>1. PICK j \in 1 .. n : q[j] = c BY <4>1
        <5>2. ~(j < i) BY <3>1, <5>1
        <5>3. ~(j < d) BY <1>1, <2>1, <5>2
        <5>4. a[q[j]] = After(q, j) /\ b[q[j]] = After(q, j) BY <3>1, <3>2, <5>2, <5>3
        <5> QED BY <5>1, <5>4
      <4>2. CASE ~\E j \in 1 .. n : q[j] = c
        <5>1. a[c] = w.table[c] /\ b[c] = IF c \in L THEN q[1] ELSE w.table[c] BY <3>1, <3>2, <4>2
        <5> QED BY <3>3, <3>4, <5>1
      <4> QED BY <4>1, <4>2
    <3>6. \A c : Keeps(a, b, c) BY <3>5, KeepsAdd
    <3> QED BY <3>6 DEF a, b, AllocWorld
  <2>6. Fit(x, p) BY <1>2, <2>2, <2>3, FitSteady
  <2>7. Fit(v, p) /\ Fit(v, r) BY <1>2, <2>2, <2>4, FitSteady
  <2>8. Saves(x, v) BY <2>3, <2>4, <2>5, SavesKeeps
  <2> HIDE DEF x, v, r, l
  <2>11. FatStep(p, l, r) \in AllSteps BY <1>3 DEF r, l
  <2>12. <<x, FatStep(p, l, r)>> \in FitSteps BY <2>1, <2>6, <2>7, <2>8, <2>11, FatFit
  <2> QED BY <2>12 DEF x, r, l
<1> QED BY <1>3 DEF Allocates

-----------------------------------------------------------------------------
(* Operations and sizes. *)

\* An entry that keeps its first cluster, or had none, or becomes empty.
LEMMA SavesPut ==
  ASSUME NEW w \in Worlds, NEW f \in Files, NEW to \in Entries, NEW m \in Nodes,
         w.entry[f].used /\ to.used => to.first = w.entry[f].first \/ w.entry[f].first = 0 \/ to.size = 0
  PROVE  Saves(w, Put(w, f, to, m))
<1> DEFINE v == Put(w, f, to, m)
<1>1. /\ v \in Worlds /\ v.table = w.table /\ v.entry = [w.entry EXCEPT ![f] = to]
      /\ w.entry \in [Files -> Entries]
  <2>1. /\ Put(w, f, to, m) \in Worlds /\ Put(w, f, to, m).table = w.table
        /\ Put(w, f, to, m).entry = [w.entry EXCEPT ![f] = to]
        /\ Put(w, f, to, m).node = [w.node EXCEPT ![f] = m]
        /\ w.table \in [Clusters -> Values] /\ w.entry \in [Files -> Entries] /\ w.node \in [Files -> Nodes]
    BY PutFields
  <2> QED BY <2>1
<1> HIDE DEF v
<1>2. v.entry[f] = to /\ \A g \in Files : g # f => v.entry[g] = w.entry[g] BY <1>1
<1>3. ASSUME NEW g \in Files, w.entry[g].used, v.entry[g].used
      PROVE  \/ v.entry[g].first = w.entry[g].first
             \/ w.entry[g].first = 0 \/ w.entry[g].size = 0 \/ v.entry[g].size = 0
  <2>1. CASE g = f BY <1>2, <1>3, <2>1
  <2>2. CASE g # f BY <1>2, <2>2
  <2> QED BY <2>1, <2>2
<1>4. Saves(w, v) BY <1>1, <1>3, SavesSame
<1> QED BY <1>4 DEF v

\* The write of an entry.
LEMMA EntryGoes ==
  ASSUME NEW w \in Worlds, NEW p, NEW f \in Files, NEW to \in Entries, NEW k, NEW r,
         Safe(w, EntryStep(p, f, to, k, r)), Fit(w, p), Fit(Put(w, f, to, k), r),
         Unseen(w, p, f, to) \/ Fit(Put(w, f, to, w.node[f]), p),
         w.entry[f].used /\ to.used => to.first = w.entry[f].first \/ w.entry[f].first = 0 \/ to.size = 0
  PROVE  /\ Goes(FitSteps, w, <<EntryStep(p, f, to, k, r)>>, Put(w, f, to, k))
         /\ Landed(w, EntryStep(p, f, to, k, r)) = Put(w, f, to, k)
<1> DEFINE s == EntryStep(p, f, to, k, r)
<1>1. s.kind = "entry" /\ s.file = f /\ s.to = to /\ s.node = k BY DEF EntryStep
<1>2. s \in AllSteps BY DEF Safe
<1>3. Safe(w, s) OBVIOUS
<1>4. w.node[f] \in Nodes BY DEF Worlds
<1>5. Saves(w, Put(w, f, to, w.node[f])) BY <1>4, SavesPut
<1>6. <<w, s>> \in FitSteps BY <1>2, <1>5, EntryFit
<1> HIDE DEF s
<1>7. Landed(w, s) = Put(w, f, to, k) BY <1>1 DEF Landed, Put
<1>8. Goes(FitSteps, w, <<s>>, Put(w, f, to, k)) BY <1>3, <1>6, <1>7, TightFirst
<1> QED BY <1>7, <1>8 DEF s

\* Between operations a file's chain holds the size that the operation
\* starts from.
LEMMA StateHolds ==
  ASSUME Good(World, NoPending), Steady(World), NEW f \in Files, entry[f].used
  PROVE  /\ Holds(table, State(f).first, Need(State(f).size))
         /\ Holds(table, entry[f].first, Need(entry[f].size))
<1>1. World.table = table /\ World.entry = entry /\ World.node = node BY WorldFields
<1>2. /\ Holds(table, entry[f].first, Need(entry[f].size))
      /\ node[f].dirty => Holds(table, node[f].first, Need(node[f].size))
      /\ InStep(entry[f], node[f])
  BY <1>1 DEF Steady, Sizes
<1>3. CASE node[f].pinned
  <2>1. State(f) = node[f] BY <1>3 DEF State
  <2> QED BY <1>2, <1>3, <2>1 DEF InStep
<1>4. CASE ~node[f].pinned
  <2>1. State(f).first = entry[f].first /\ State(f).size = entry[f].size BY <1>4 DEF State, CleanNode
  <2> QED BY <1>2, <2>1
<1> QED BY <1>3, <1>4

\* create keeps the sizes, ...
LEMMA CreateFit ==
  ASSUME Good(World, NoPending), Steady(World), NEW f \in Files, ~entry[f].used
  PROVE  LET s == <<EntryStep(NoPending, f, Entry(0, 0), CleanNode(0, 0), NoPending)>>
         IN  \E z : Goes(FitSteps, World, s, z)
<1> DEFINE to == Entry(0, 0)
           k == CleanNode(0, 0)
           s == EntryStep(NoPending, f, to, k, NoPending)
           w == World
<1>1. /\ w.table = table /\ w.entry = entry /\ w.node = node /\ w \in Worlds /\ entry \in [Files -> Entries]
      /\ node \in [Files -> Nodes]
  BY WorldFields
<1>2. PICK z : Runs(w, <<s>>, z) BY CreateRuns
<1>3. to \in Entries /\ k \in Nodes /\ to.used /\ to.first = 0 /\ to.size = 0 BY NodeTypes DEF Entry
<1>4. InStep(to, k) /\ ~k.dirty BY DEF InStep, Entry, CleanNode
<1>5. Steady(w) /\ Good(w, NoPending) OBVIOUS
<1> HIDE DEF to, k, w
<1>6. Safe(w, s)
  <2> HIDE DEF s
  <2> QED BY <1>2, EmptyEnd, FirstSafe, Zenon
<1>7. ~node[f].pinned /\ ~node[f].dirty
  <2>1. InStep(entry[f], node[f]) BY <1>1, <1>5 DEF Steady
  <2>2. ~node[f].pinned BY <2>1 DEF InStep
  <2> QED BY <1>1, <1>5, <2>2, SteadyDirty
<1>8. Holds(w.table, to.first, Need(to.size)) BY <1>3, NeedMono, SMTT(30) DEF Holds
<1>9. Steady(Put(w, f, to, k)) BY <1>1, <1>3, <1>4, <1>5, <1>8, SteadyPut
<1>10. Steady(Put(w, f, to, w.node[f]))
  <2>1. InStep(to, w.node[f]) /\ w.node[f] \in Nodes /\ ~w.node[f].dirty BY <1>1, <1>7 DEF InStep
  <2> QED BY <1>1, <1>3, <1>5, <1>8, <2>1, SteadyPut
<1>11. Fit(w, NoPending) /\ Fit(Put(w, f, to, k), NoPending) /\ Fit(Put(w, f, to, w.node[f]), NoPending)
  BY <1>5, <1>9, <1>10, FitNone
<1>12. Goes(FitSteps, w, <<EntryStep(NoPending, f, to, k, NoPending)>>, Put(w, f, to, k))
  BY <1>1, <1>3, <1>6, <1>11, EntryGoes
<1> QED BY <1>12 DEF w, to, k

\* An entry that gives up its chain, and the chain.
LEMMA DropFit ==
  ASSUME Good(World, NoPending), Steady(World), NEW f \in Files, entry[f].used, entry[f].first # 0,
         NEW to \in Entries, to.used => to.first = 0 /\ to.size = 0,
         NEW k \in Nodes, Agree(to, k), InStep(to, k), ~k.dirty,
         NEW o, o = IF to.used THEN EntryOf(f) ELSE Removed(f),
         LET p == Held(entry[f].first, 0, o)
         IN  Safe(World, EntryStep(p, f, to, k, p))
  PROVE  LET c == entry[f].first
             p == Held(c, 0, o)
             s == <<EntryStep(p, f, to, k, p)>> \o Finished(FreeChain(Chain(table, c)))
         IN  \E z : Goes(FitSteps, World, s, z)
<1> DEFINE c == entry[f].first
           p == Held(c, 0, o)
           w == World
           x == [entry EXCEPT ![f] = to]
           s == EntryStep(p, f, to, k, p)
           v == Put(w, f, to, k)
           u == Put(w, f, to, w.node[f])
           q == Chain(table, c)
<1>1. /\ w.table = table /\ w.entry = entry /\ w.node = node /\ w \in Worlds
      /\ table \in [Clusters -> Values] /\ entry \in [Files -> Entries] /\ node \in [Files -> Nodes]
      /\ Sound(table, entry)
  BY WorldFields
<1>2. Safe(w, s) /\ Good(w, NoPending) /\ Steady(w) /\ c # 0 OBVIOUS
<1>3. p.head = c /\ p.owner = o BY HeldFields
<1>4. /\ o.file = f /\ o.kind = IF to.used THEN "entry" ELSE "removed"
      /\ o.kind \in {"entry", "removed"} /\ o.kind # "tail" /\ o.kind # "cut"
  BY DEF EntryOf, Removed
<1>5. Loose(table, [entry EXCEPT ![f] = to], Chain(table, entry[f].first)) BY <1>1, Loosened, Zenon
<1>6. v.table = table /\ v.entry = x BY <1>1 DEF Put, x
<1>7. Loose(v.table, v.entry, q) BY <1>5, <1>6
<1>8. u.table = table /\ u.entry = x /\ u.node = node
  <2>1. [w.node EXCEPT ![f] = w.node[f]] = w.node BY <1>1, SameEntry
  <2> QED BY <1>1, <2>1 DEF Put
<1> HIDE DEF w, p, c, q, u, v
<1>9. to.used => Holds(table, to.first, Need(to.size)) BY NeedMono DEF Holds
<1>10. Steady(v) BY <1>1, <1>2, <1>9, SteadyPut DEF v
<1>11. Fit(w, p) /\ Fit(v, p) BY <1>2, <1>3, <1>4, <1>10, FitSteady
<1>12. InStep(entry[f], node[f]) BY <1>1, <1>2 DEF Steady
<1>13. Sizes(u.table, u.entry, u.node, {})
  <2>1. Sizes(table, entry, node, {}) BY <1>1, <1>2 DEF Steady
  <2>2. node[f].dirty => Holds(table, node[f].first, Need(node[f].size)) BY <2>1 DEF Sizes
  <2>3. entry = [g \in Files |-> entry[g]] /\ node = [g \in Files |-> node[g]] BY <1>1
  <2>4. Sizes(table, [entry EXCEPT ![f] = to], [node EXCEPT ![f] = node[f]], {})
    BY <1>9, <2>1, <2>2, <2>3, SizesPut, Zenon
  <2>5. [node EXCEPT ![f] = node[f]] = node BY <1>1
  <2> QED BY <1>8, <2>4, <2>5
<1>14. ASSUME NEW g \in Files PROVE InStep(u.entry[g], u.node[g]) \/ Mends(u, p, g)
  <2>1. CASE g = f
    <3>1. u.entry[g] = to /\ u.node[g] = node[f] BY <1>1, <1>8, <2>1
    <3>2. CASE ~node[f].pinned BY <3>1, <3>2 DEF InStep
    <3>3. CASE node[f].pinned
      <4>1. node[f].first = c BY <1>12, <3>3 DEF InStep, c
      <4> QED BY <1>2, <1>3, <1>4, <2>1, <3>1, <4>1 DEF Mends
    <3> QED BY <3>2, <3>3
  <2>2. CASE g # f
    <3>1. u.entry[g] = entry[g] /\ u.node[g] = node[g] BY <1>1, <1>8, <2>2
    <3> QED BY <1>1, <1>2, <3>1 DEF Steady
  <2> QED BY <2>1, <2>2
<1>15. Fit(u, p) BY <1>3, <1>4, <1>13, <1>14 DEF Fit, Severed
<1>16. Goes(FitSteps, w, <<s>>, v)
  <2>1. w.entry[f].used /\ to.used => to.first = w.entry[f].first \/ w.entry[f].first = 0 \/ to.size = 0 OBVIOUS
  <2>2. Fit(Put(w, f, to, k), p) /\ Fit(Put(w, f, to, w.node[f]), p) BY <1>11, <1>15 DEF u, v
  <2>3. Safe(w, EntryStep(p, f, to, k, p)) BY <1>2
  <2>4. Goes(FitSteps, w, <<EntryStep(p, f, to, k, p)>>, Put(w, f, to, k))
    BY <1>1, <1>11, <2>1, <2>2, <2>3, EntryGoes
  <2> QED BY <2>4 DEF v
<1>17. Good(v, NoPending)
  <2>1. ~(to.used /\ to.first # 0) OBVIOUS
  <2> QED BY <1>2, <2>1, PutNone, Zenon DEF v
<1>18. PICK z : Goes(FitSteps, v, Finished(FreeChain(q)), z) BY <1>7, <1>10, <1>17, FreeChainFit
<1> HIDE DEF s
<1>19. Goes(FitSteps, w, <<s>> \o Finished(FreeChain(q)), z) BY <1>16, <1>18, GoesJoin
<1> QED BY <1>19 DEF w, s, q, p, c

\* ... remove_entry, ...
LEMMA UnlinkFit ==
  ASSUME Good(World, NoPending), Steady(World), NEW f \in Files, entry[f].used
  PROVE  LET first == State(f).first
             held == IF first = 0 THEN NoPending ELSE Held(first, 0, Removed(f))
             s == <<EntryStep(held, f, NoEntry, NoNode, held)>> \o Finished(FreeChain(Chain(table, first)))
         IN  \E z : Goes(FitSteps, World, s, z)
<1> DEFINE first == State(f).first
           held == IF first = 0 THEN NoPending ELSE Held(first, 0, Removed(f))
           to == NoEntry
           k == NoNode
           s == EntryStep(held, f, to, k, held)
           w == World
           q == Finished(FreeChain(Chain(table, first)))
<1>1. /\ w.table = table /\ w.entry = entry /\ w.node = node /\ w \in Worlds /\ entry \in [Files -> Entries]
      /\ Sound(table, entry) /\ table \in [Clusters -> Values] /\ node \in [Files -> Nodes]
  BY WorldFields
<1>2. first = entry[f].first BY ReadyState
<1>3. to \in Entries /\ k \in Nodes /\ ~to.used /\ to.first = 0 BY NodeTypes DEF NoEntry
<1>4. Agree(to, k) /\ InStep(to, k) /\ ~k.dirty BY DEF Agree, InStep, NoEntry, NoNode
<1>5. PICK z : Runs(w, <<s>> \o q, z) BY UnlinkRuns
<1>a. held = IF first = 0 THEN NoPending ELSE Held(first, 0, Removed(f)) OBVIOUS
<1>b. q = Finished(FreeChain(Chain(table, first))) OBVIOUS
<1>c. Steady(w) /\ Good(w, NoPending) OBVIOUS
<1> HIDE DEF to, k, w, q, first
<1>6. Safe(w, s)
  <2>1. Loose(table, [entry EXCEPT ![f] = to], Chain(table, entry[f].first)) BY <1>1, <1>3, Loosened, Zenon
  <2>2. Chain(table, first) \in Seq(Clusters) BY <1>2, <2>1 DEF Loose, IsPath
  <2>3. \E S : q \in Seq(S) BY <1>b, <2>2, PlanSeq
  <2> HIDE DEF s
  <2> QED BY <1>5, <2>3, FirstSafe
<1>7. CASE first = 0
  <2>1. held = NoPending BY <1>7
  <2>2. Chain(table, first) = <<>> BY <1>7, Numbers, NoChain
  <2>3. q = <<>> BY <1>b, <2>2, NoneFinished
  <2>4. Fit(w, NoPending) /\ Fit(Put(w, f, to, k), NoPending)
    <3>1. Steady(Put(w, f, to, k)) BY <1>1, <1>3, <1>4, <1>c, SteadyPut
    <3> QED BY <1>c, <3>1, FitNone
  <2>5. Unseen(w, NoPending, f, to) \/ Fit(Put(w, f, to, w.node[f]), NoPending)
    <3>1. CASE node[f].pinned BY <1>1, <1>3, <3>1 DEF Unseen
    <3>2. CASE ~node[f].pinned
      <4>1. InStep(to, w.node[f]) /\ w.node[f] \in Nodes BY <1>1, <3>2 DEF InStep
      <4>2. Steady(Put(w, f, to, w.node[f])) BY <1>1, <1>3, <1>c, <4>1, SteadyPut
      <4> QED BY <4>2, FitNone
    <3> QED BY <3>1, <3>2
  <2> HIDE DEF held
  <2>7. Goes(FitSteps, w, <<s>>, Put(w, f, to, k))
    <3>1. Safe(w, EntryStep(NoPending, f, to, k, NoPending)) BY <1>6, <2>1
    <3>2. Goes(FitSteps, w, <<EntryStep(NoPending, f, to, k, NoPending)>>, Put(w, f, to, k))
      BY <1>1, <1>3, <2>4, <2>5, <3>1, EntryGoes
    <3> QED BY <2>1, <3>2
  <2>8. <<s>> \o q = <<s>>
    <3> HIDE DEF s
    <3> QED BY <2>3, EmptyEnd
  <2> QED BY <2>7, <2>8, Zenon DEF w, q, to, k, held, first
<1>8. CASE first # 0
  <2> DEFINE o == Removed(f)
             p == Held(entry[f].first, 0, o)
  <2>1. held = p BY <1>2, <1>8
  <2>2. Safe(World, EntryStep(p, f, to, k, p)) BY <1>6, <2>1 DEF w
  <2>3. o = IF to.used THEN EntryOf(f) ELSE Removed(f) BY <1>3
  <2> HIDE DEF o
  <2>4. \E y : Goes(FitSteps, World, <<EntryStep(p, f, to, k, p)>> \o Finished(FreeChain(Chain(table, entry[f].first))), y)
    BY <1>2, <1>3, <1>4, <1>8, <2>2, <2>3, DropFit
  <2> QED BY <1>2, <2>1, <2>4 DEF to, k, first, o
<1> QED BY <1>7, <1>8

\* ... a shrink to nothing, ...
LEMMA EmptyFit ==
  ASSUME Good(World, NoPending), Steady(World), NEW f \in Files, entry[f].used, NEW len \in 0 .. MaxSize,
         entry[f].first # 0, Need(len) = 0
  PROVE  LET c == entry[f].first
             held == Held(c, 0, EntryOf(f))
             s == <<Store(held, f, 0, len, held)>> \o Finished(FreeChain(Chain(table, c)))
         IN  \E z : Goes(FitSteps, World, s, z)
<1> DEFINE c == entry[f].first
           o == EntryOf(f)
           held == Held(c, 0, o)
           to == Entry(0, len)
           k == IF node[f].pinned THEN CleanNode(0, len) ELSE NoNode
           q == Finished(FreeChain(Chain(table, c)))
           s == EntryStep(held, f, to, k, held)
<1>1. Store(held, f, 0, len, held) = s BY DEF Store
<1>2. \E z \in Worlds : Runs(World, <<Store(held, f, 0, len, held)>> \o q, z) BY EmptyRuns
<1>3. Chain(table, c) \in Seq(Clusters)
  <2>1. Sound(table, entry) /\ table \in [Clusters -> Values] /\ entry \in [Files -> Entries] BY WorldFields
  <2>2. IsPath(table, Chain(table, c)) BY <2>1, FileChain
  <2> QED BY <2>2 DEF IsPath
<1>4. \E S : q \in Seq(S) BY <1>3, PlanSeq
<1>5. Safe(World, s)
  <2> HIDE DEF s, q
  <2> QED BY <1>1, <1>2, <1>4, FirstSafe
<1>6. to \in Entries /\ k \in Nodes /\ to.first = 0 /\ to.used /\ to.size = len BY NodeTypes DEF Entry
<1>7. len = 0
  <2>1. len \in Nat BY SizeAssumption
  <2> QED BY <2>1, NeedOne
<1>8. Agree(to, k) /\ InStep(to, k) /\ ~k.dirty
  <2>1. k.dirty = FALSE /\ (k.pinned => k.first = 0 /\ k.size = len) BY DEF CleanNode, NoNode
  <2> HIDE DEF k, to
  <2> QED BY <1>6, <2>1 DEF Agree, InStep
<1>9. o = IF to.used THEN EntryOf(f) ELSE Removed(f) BY <1>6
<1>10. LET p == Held(entry[f].first, 0, o)
       IN  Safe(World, EntryStep(p, f, to, k, p))
  BY <1>5
<1> HIDE DEF to, k, o
<1>11. \E z : Goes(FitSteps, World, <<EntryStep(Held(entry[f].first, 0, o), f, to, k, Held(entry[f].first, 0, o))>>
                    \o Finished(FreeChain(Chain(table, entry[f].first))), z)
  BY <1>6, <1>7, <1>8, <1>9, <1>10, DropFit
<1> QED BY <1>1, <1>11 DEF o

-----------------------------------------------------------------------------
(* Truncation to a smaller size. *)

\* Cutting a chain behind its k-th cluster leaves the files what they need,
\* when the one cut needs k clusters.
LEMMA CutHolds ==
  ASSUME Good(World, NoPending), Steady(World), NEW f \in Files, entry[f].used, entry[f].first # 0,
         NEW q, q = Chain(table, entry[f].first), NEW k \in Nat, k # 0, k <= Len(q),
         NEW e, NEW n, NEW X, \A g \in Files : g # f => e[g] = entry[g] /\ n[g] = node[g],
         e[f].used, e[f].first = entry[f].first, Need(e[f].size) = k, n[f].dirty => f \in X
  PROVE  Sizes(CutAt(table, q[k]), e, n, X)
<1> DEFINE c == entry[f].first
           t == CutAt(table, q[k])
<1>1. /\ World.table = table /\ World.entry = entry /\ World.node = node /\ World \in Worlds
      /\ table \in [Clusters -> Values] /\ entry \in [Files -> Entries] /\ node \in [Files -> Nodes]
      /\ Sound(table, entry)
  BY WorldFields
<1>2. IsPath(table, q) /\ Len(q) \in Nat /\ q # <<>> /\ q[1] = c /\ q \in Seq(Clusters)
  <2>1. entry \in [Files -> Entries] /\ Sound(table, entry) BY <1>1
  <2>2. /\ entry[f].first \in Clusters /\ table[entry[f].first] # Free
        /\ LinkedBy(table, entry, entry[f].first, {}, {f})
    BY <2>1, FirstLinked, Zenon
  <2>3. /\ IsPath(table, Chain(table, c)) /\ Chain(table, c) # <<>> /\ Chain(table, c)[1] = c
    BY <2>2, ChainIsPath
  <2>4. IsPath(table, q) /\ q # <<>> /\ q[1] = c BY <2>3
  <2> QED BY <2>4 DEF IsPath
<1>3. k \in 1 .. Len(q) BY <1>2
<1>4. From(table, c, q) BY <1>2 DEF From
<1>5. Holds(t, c, k)
  <2> DEFINE s == SubSeq(q, 1, k)
  <2>1. From(table, q[1], s) /\ Len(s) = k /\ \A i \in 1 .. k : s[i] = q[i] BY <1>2, <1>3, PathStart
  <2> HIDE DEF s
  <2>2. \A i, j \in 1 .. Len(q) : q[i] = q[j] => i = j BY <1>2 DEF IsPath
  <2>3. ASSUME NEW i \in 1 .. Len(s) - 1 PROVE s[i] # q[k]
    <3>1. i \in 1 .. k /\ i \in 1 .. Len(q) /\ i # k BY <1>2, <1>3, <2>1
    <3> QED BY <1>3, <2>1, <2>2, <3>1
  <2>4. From(table, c, s) BY <1>2, <2>1
  <2>5. From(t, c, s) BY <2>3, <2>4, CutShort
  <2> HIDE DEF t
  <2> QED BY <2>1, <2>5 DEF Holds
<1>6. ASSUME NEW g \in Files, g # f, entry[g].used PROVE Keeps(table, t, entry[g].first)
  <2> SUFFICES ASSUME NEW r, From(table, entry[g].first, r) PROVE From(t, entry[g].first, r) BY DEF Keeps
  <2>1. \A i \in 1 .. Len(r), j \in 1 .. Len(q) : r[i] # q[j] BY <1>1, <1>4, <1>6, Apart, SMTT(30)
  <2>2. Len(r) \in Nat BY DEF From, IsPath
  <2>3. \A i \in 1 .. Len(r) - 1 : i \in 1 .. Len(r) BY <2>2
  <2>4. \A i \in 1 .. Len(r) - 1 : r[i] # q[k] BY <1>3, <2>1, <2>3
  <2> QED BY <2>4, CutShort
<1> HIDE DEF t
<1>7. ASSUME NEW g \in Files, e[g].used
      PROVE  /\ Holds(t, e[g].first, Need(e[g].size))
             /\ n[g].dirty /\ g \notin X => Holds(t, n[g].first, Need(n[g].size))
  <2>1. CASE g = f BY <1>5, <2>1
  <2>2. CASE g # f
    <3>1. e[g] = entry[g] /\ n[g] = node[g] BY <2>2
    <3>2. Keeps(table, t, entry[g].first) BY <1>6, <1>7, <2>2, <3>1
    <3>3. /\ Holds(table, entry[g].first, Need(entry[g].size))
          /\ node[g].dirty => Holds(table, node[g].first, Need(node[g].size))
      BY <1>1, <1>7, <3>1 DEF Steady, Sizes
    <3>4. node[g].dirty => node[g].first = entry[g].first BY <1>1, SteadyDirty
    <3> QED BY <3>1, <3>2, <3>3, <3>4, HoldsKept
  <2> QED BY <2>1, <2>2
<1>8. Sizes(t, e, n, X) BY <1>7 DEF Sizes
<1> QED BY <1>8 DEF t

\* The two writes of a shrink that keeps k clusters, and what is left to free.
CutSafe(f, len, k) ==
    LET c == entry[f].first
        q == Chain(table, c)
        rest == SubSeq(q, k + 1, Len(q))
        cut == Held(rest[1], 0, Cut(f, len, q[k]))
        held == Held(rest[1], 0, AtTail(q[k]))
        to == Entry(c, len)
        n == IF node[f].pinned THEN CleanNode(c, len) ELSE NoNode
        v == Put(World, f, to, n)
        g == [table |-> CutAt(table, q[k]), entry |-> v.entry, node |-> v.node]
        b == FatStep(held, [x \in {q[k]} |-> EOC], held)
    IN  /\ q[k] \in Clusters /\ table[q[k]] # Free
        /\ to \in Entries /\ n \in Nodes /\ rest \in Seq(Clusters)
        /\ Safe(World, EntryStep(cut, f, to, n, held)) /\ b \in AllSteps /\ Safe(v, b) /\ Landed(v, b) = g
        /\ v \in Worlds /\ v.table = table
        /\ v.entry = [entry EXCEPT ![f] = to] /\ v.node = [node EXCEPT ![f] = n]
        /\ Good(g, NoPending) /\ Loose(g.table, g.entry, rest)

\* They are safe.
LEMMA CutSteps ==
  ASSUME Good(World, NoPending), NEW f \in Files, entry[f].used, NEW len \in 0 .. MaxSize,
         entry[f].first # 0, NEW k \in Nat, k # 0, k < Len(Chain(table, entry[f].first))
  PROVE  CutSafe(f, len, k)
<1> DEFINE c == entry[f].first
           q == Chain(table, c)
           last == q[k]
           rest == SubSeq(q, k + 1, Len(q))
           h == rest[1]
           cut == Held(h, 0, Cut(f, len, last))
           held == Held(h, 0, AtTail(last))
           w == World
           to == Entry(c, len)
           x == [entry EXCEPT ![f] = to]
           a == Store(cut, f, c, len, held)
           d == [y \in {last} |-> EOC]
           b == FatStep(held, d, held)
           n == IF node[f].pinned THEN CleanNode(c, len) ELSE NoNode
           v == Put(w, f, to, n)
           u == CutAt(table, last)
           g == [table |-> u, entry |-> v.entry, node |-> v.node]
<1>1. /\ w.table = table /\ w.entry = entry /\ w.node = node /\ w \in Worlds
      /\ table \in [Clusters -> Values] /\ entry \in [Files -> Entries] /\ node \in [Files -> Nodes]
      /\ Sound(table, entry)
  BY WorldFields
<1>2. node[f] \in Nodes /\ Agree(entry[f], node[f]) BY ReadyState
<1>3. c # 0 /\ c \in Clusters /\ table[c] # Free /\ LinkedBy(table, entry, c, {}, {f}) BY <1>1, FirstLinked, Zenon
<1>4. IsPath(table, q) /\ Len(q) \in Nat /\ table[q[Len(q)]] = EOC /\ q \in Seq(Clusters)
      /\ \A i, j \in 1 .. Len(q) : q[i] = q[j] => i = j
  BY <1>1, <1>3, FileChain DEF IsPath
<1>5. k < Len(q) OBVIOUS
<1>6. to \in Entries /\ n \in Nodes /\ to.used /\ to.first = c BY <1>3, NodeTypes DEF Entry
<1>7. Agree(to, n)
  <2>1. n.dirty = FALSE /\ (n.pinned => n.first = c) BY DEF CleanNode, NoNode
  <2> HIDE DEF n, to, c
  <2> QED BY <1>6, <2>1 DEF Agree
<1>8. \E z \in Worlds : Runs(w, <<a, b>> \o Finished(FreeChain(rest)), z) BY <1>3, CutRuns, Zenon
<1>a. a = EntryStep(cut, f, to, n, held) BY DEF Store
<1> HIDE DEF c, q, to, n, a, w
<1>9. IsPath(table, rest) /\ rest # <<>> /\ h = q[k + 1]
  <2>1. \A i \in 1 .. Len(q) : k < i => table[q[i]] = table[q[i]] OBVIOUS
  <2> QED BY <1>4, <1>5, <2>1, PathRest
<1>10. last \in Clusters /\ h \in Clusters /\ table[last] = h
  <2>1. k \in 1 .. Len(q) - 1 BY <1>4, <1>5
  <2>2. Sound(table, entry) /\ IsPath(table, q) BY <1>1, <1>4
  <2>3. /\ q[k] \in Clusters /\ q[k + 1] \in Clusters /\ table[q[k]] = q[k + 1]
        /\ LinkedBy(table, entry, q[k + 1], {q[k]}, {})
    BY <2>1, <2>2, PathLinked, Zenon
  <2> QED BY <1>9, <2>3, Zenon
<1>11. h # 0 /\ table[last] # Free BY <1>10, Numbers, Zenon
<1>12. rest \in Seq(Clusters) BY <1>9 DEF IsPath
<1>13. \E S : Finished(FreeChain(rest)) \in Seq(S) BY <1>12, PlanSeq, Zenon
<1>14. Safe(w, a) /\ Safe(Landed(w, a), b)
  <2> HIDE DEF b, rest
  <2> QED BY <1>8, <1>13, TwoSafe
<1>len. Len(rest) = Len(q) - k /\ \A j \in 1 .. Len(q) - k : rest[j] = q[k + j]
  BY <1>4, <1>5, RestIs, Zenon
<1>b. ASSUME NEW i \in 1 .. Len(rest)
      PROVE  rest[i] = q[k + i] /\ k + i \in 1 .. Len(q) /\ k # k + i
  <2>1. Len(rest) = Len(q) - k /\ \A j \in 1 .. Len(q) - k : rest[j] = q[k + j]
    BY <1>len
  <2> HIDE DEF rest
  <2> DEFINE lr == Len(rest)
             lq == Len(q)
  <2>2. lq \in Nat /\ lr = lq - k /\ i \in 1 .. lr /\ k < lq BY <1>4, <1>5, <2>1
  <2>3. rest[i] = q[k + i] BY <2>1, <2>2
  <2> HIDE DEF lr, lq
  <2>4. k + i \in 1 .. lq /\ k # k + i BY <2>2
  <2> QED BY <2>3, <2>4 DEF lr, lq
<1> HIDE DEF cut, held, h, rest
<1>18. Landed(w, a) = v
  <2> DEFINE s == EntryStep(cut, f, to, n, held)
  <2>1. s.kind = "entry" /\ s.file = f /\ s.to = to /\ s.node = n BY DEF EntryStep
  <2> HIDE DEF s
  <2>2. Landed(w, s) = Put(w, f, to, n) BY <2>1 DEF Landed, Put
  <2> QED BY <1>a, <2>2 DEF s
<1>19. Good(v, NoPending)
  <2>1. to.used /\ to.first # 0 => w.table[to.first] # Free /\ LinkedBy(w.table, w.entry, to.first, {}, {f})
    BY <1>1, <1>3, <1>6
  <2>2. Good(w, NoPending) BY DEF w
  <2> QED BY <1>6, <1>7, <2>1, <2>2, PutNone, Zenon
<1>20. v.table = table /\ v.entry = x /\ v.node = [node EXCEPT ![f] = n] /\ v \in Worlds
  BY <1>1, <1>19 DEF Good, Put
<1> HIDE DEF v, x
<1>21. Safe(v, b) BY <1>14, <1>18
<1>22. b \in AllSteps
  <2> HIDE DEF b
  <2> QED BY <1>21 DEF Safe
<1>23. Landed(v, b) = g
  <2>1. b.kind = "fat" /\ b.patch = d BY FatStepFields
  <2>2. Patched(table, d) = u BY DEF Patched, CutAt
  <2> HIDE DEF b, d, u
  <2> QED BY <1>20, <2>1, <2>2 DEF Landed
<1> HIDE DEF g
<1>24. g.table = u /\ g.entry = x /\ g.node = v.node BY <1>20 DEF g
<1>25. \A y \in Clusters : u[y] = IF y = last THEN EOC ELSE table[y] BY DEF CutAt
<1>c. Good(g, held)
  <2>1. b.post = held BY FatStepFields
  <2> HIDE DEF b
  <2> QED BY <1>21, <1>23, <2>1 DEF Safe
<1> HIDE DEF u
<1>26. Good(g, NoPending)
  <2>1. NodeOK(g.table, g.entry, g.node, NoPending)
    <3>1. NodeOK(v.table, v.entry, v.node, NoPending) BY <1>19 DEF Good
    <3> QED BY <1>20, <1>24, <3>1, NodesFit
  <2> QED BY <1>c, <2>1, NonePending, PendingType DEF Good
<1>31. ASSUME NEW i \in 1 .. Len(rest) PROVE u[rest[i]] = table[rest[i]]
  <2>1. k \in 1 .. Len(q) /\ k # k + i /\ k + i \in 1 .. Len(q)
    <3>1. k + i \in 1 .. Len(q) BY <1>b, Zenon
    <3>2. Len(q) \in Nat BY <1>4, Zenon
    <3>3. Len(rest) = Len(q) - k BY <1>len
    <3> HIDE DEF q, rest
    <3>4. i \in Nat /\ i >= 1 BY <3>2, <3>3
    <3> QED BY <3>1, <3>2, <3>4, <1>5
  <2>2. q[k + i] # last /\ q[k + i] \in Clusters BY <1>4, <2>1 DEF last
  <2> QED BY <1>25, <1>b, <2>2, Zenon
<1>32. Loose(g.table, g.entry, rest)
  <2>1. IsPath(u, rest)
    <3>1. /\ rest \in Seq(Clusters)
          /\ \A i \in 1 .. Len(rest) : table[rest[i]] # Free
          /\ \A i \in 1 .. Len(rest) - 1 : table[rest[i]] = rest[i + 1]
          /\ \A i, j \in 1 .. Len(rest) : rest[i] = rest[j] => i = j
      BY <1>9 DEF IsPath
    <3>2. \A i \in 1 .. Len(rest) : u[rest[i]] # Free BY <1>31, <3>1, Zenon
    <3>3. \A i \in 1 .. Len(rest) - 1 : u[rest[i]] = rest[i + 1]
      <4>1. \A i \in 1 .. Len(rest) - 1 : i \in 1 .. Len(rest) BY <3>1
      <4> QED BY <1>31, <3>1, <4>1, Zenon
    <3> QED BY <3>1, <3>2, <3>3 DEF IsPath
  <2>2. LinkedBy(u, x, h, {}, {})
    <3>1. ASSUME NEW y \in Clusters PROVE u[y] # h
      <4>1. CASE y = last BY <1>10, <1>25, <4>1, Numbers
      <4>2. CASE y # last
        <5>1. u[y] = table[y] BY <1>25, <4>2
        <5> QED BY <1>1, <1>10, <4>2, <5>1 DEF Sound
      <4> QED BY <4>1, <4>2
    <3>2. ASSUME NEW e \in Files, x[e].used, x[e].first = h PROVE FALSE
      <4>1. Sound(v.table, v.entry) BY <1>19 DEF Good
      <4> QED BY <1>10, <1>11, <1>20, <3>2, <4>1 DEF Sound
    <3> QED BY <3>1, <3>2 DEF LinkedBy
  <2> QED BY <1>24, <2>1, <2>2 DEF Loose, h
<1> QED BY <1>6, <1>10, <1>11, <1>12, <1>14, <1>20, <1>21, <1>22, <1>23, <1>26, <1>32, <1>a, Zenon
       DEF CutSafe, w, x, c, q, to, n, cut, held, h, rest, v, g, u

\* Cutting twice.
LEMMA CutTwice ==
  ASSUME NEW t, NEW c
  PROVE  CutAt(CutAt(t, c), c) = CutAt(t, c)
<1> DEFINE u == CutAt(t, c)
<1>1. \A x \in Clusters : u[x] = IF x = c THEN EOC ELSE t[x] BY DEF CutAt
<1> HIDE DEF u
<1>2. CutAt(u, c) = [x \in Clusters |-> IF x = c THEN EOC ELSE t[x]] BY <1>1 DEF CutAt
<1> QED BY <1>2 DEF CutAt, u

\* ... a shrink that keeps some clusters, ...
LEMMA CutFit ==
  ASSUME Good(World, NoPending), Steady(World), NEW f \in Files, entry[f].used, NEW len \in 0 .. MaxSize,
         entry[f].first # 0, len < State(f).size,
         NEW k \in Nat, k # 0, k < Len(Chain(table, entry[f].first)), Need(len) = k
  PROVE  LET c == entry[f].first
             q == Chain(table, c)
             last == q[k]
             rest == SubSeq(q, k + 1, Len(q))
             cut == Held(rest[1], 0, Cut(f, len, last))
             held == Held(rest[1], 0, AtTail(last))
             s == <<Store(cut, f, c, len, held), FatStep(held, [x \in {last} |-> EOC], held)>>
                  \o Finished(FreeChain(rest))
         IN  \E z : Goes(FitSteps, World, s, z)
<1> DEFINE c == entry[f].first
           q == Chain(table, c)
           last == q[k]
           rest == SubSeq(q, k + 1, Len(q))
           cut == Held(rest[1], 0, Cut(f, len, last))
           held == Held(rest[1], 0, AtTail(last))
           w == World
           to == Entry(c, len)
           n == IF node[f].pinned THEN CleanNode(c, len) ELSE NoNode
           v == Put(w, f, to, n)
           y == Put(w, f, to, w.node[f])
           u == CutAt(table, last)
           g == [table |-> u, entry |-> v.entry, node |-> v.node]
           b == FatStep(held, [x \in {last} |-> EOC], held)
           a == EntryStep(cut, f, to, n, held)
           o == cut.owner
<1>1. /\ w.table = table /\ w.entry = entry /\ w.node = node /\ w \in Worlds
      /\ table \in [Clusters -> Values] /\ entry \in [Files -> Entries] /\ node \in [Files -> Nodes]
      /\ Sound(table, entry)
  BY WorldFields
<1>2. /\ last \in Clusters /\ table[last] # Free
      /\ to \in Entries /\ n \in Nodes /\ rest \in Seq(Clusters)
      /\ Safe(w, a) /\ b \in AllSteps /\ Safe(v, b) /\ Landed(v, b) = g
      /\ v \in Worlds /\ v.table = table
      /\ v.entry = [entry EXCEPT ![f] = to] /\ v.node = [node EXCEPT ![f] = n]
      /\ Good(g, NoPending) /\ Loose(g.table, g.entry, rest)
  <2>1. CutSafe(f, len, k) BY CutSteps
  <2> QED BY <2>1, Zenon DEF CutSafe
<1>3. /\ to.used /\ to.first = c /\ to.size = len
      /\ ~n.dirty /\ InStep(to, n)
  BY DEF Entry, CleanNode, NoNode, InStep
<1>4. /\ o.kind = "cut" /\ o.file = f /\ o.size = len /\ o.at = last
      /\ held.owner.kind = "tail" /\ held.owner.at = last /\ cut.owner = o
  <2> HIDE DEF last, rest
  <2> QED BY DEF Held, Cut, AtTail
<1>5. /\ g.table = u /\ g.entry = v.entry /\ g.node = v.node OBVIOUS
<1>6. Store(cut, f, c, len, held) = a BY DEF Store
<1>7. Good(w, NoPending) /\ Steady(w) /\ k <= Len(q) /\ Need(to.size) = k
  <2>1. Len(q) \in Nat
    <3>1. c \in Clusters /\ table[c] # Free /\ LinkedBy(table, entry, c, {}, {f}) BY <1>1, FirstLinked, Zenon
    <3> QED BY <3>1, ChainIsPath DEF IsPath
  <2> QED BY <1>3, <2>1
<1>8. y.table = table /\ y.entry = [entry EXCEPT ![f] = to] /\ y.node = node
  <2>1. [w.node EXCEPT ![f] = w.node[f]] = w.node BY <1>1, SameEntry
  <2> QED BY <1>1, <2>1 DEF Put
<1> HIDE DEF n, to, a, v, g, o, u, y, cut, held, rest, w
<1>9. u = CutAt(table, q[k]) BY DEF u
<1>10. \A e, m, X : /\ \A h \in Files : h # f => e[h] = entry[h] /\ m[h] = node[h]
                    /\ e[f].used /\ e[f].first = c /\ Need(e[f].size) = k /\ (m[f].dirty => f \in X)
                    => Sizes(u, e, m, X)
  <2> SUFFICES ASSUME NEW e, NEW m, NEW X, \A h \in Files : h # f => e[h] = entry[h] /\ m[h] = node[h],
                      e[f].used, e[f].first = c, Need(e[f].size) = k, m[f].dirty => f \in X
               PROVE  Sizes(u, e, m, X)
    OBVIOUS
  <2>1. Good(World, NoPending) /\ Steady(World) BY <1>7 DEF w
  <2> DEFINE q1 == Chain(table, entry[f].first)
  <2>2. q1 = Chain(table, entry[f].first) /\ k <= Len(q1) BY <1>7
  <2> HIDE DEF q1
  <2>3. Sizes(CutAt(table, q1[k]), e, m, X) BY <2>1, <2>2, CutHolds, Zenon
  <2> QED BY <1>9, <2>3 DEF q1
<1> HIDE DEF q, last
<1>11. Holds(table, c, k)
  <2>1. c \in Clusters \cup {0} /\ (c # 0 => table[c] # Free)
    <3>1. c \in Clusters /\ table[c] # Free /\ LinkedBy(table, entry, c, {}, {f}) BY <1>1, FirstLinked, Zenon
    <3> QED BY <3>1
  <2>2. Holds(table, c, k) <=> k <= Len(Chain(table, c)) BY <2>1, HoldsChain
  <2> QED BY <1>7, <2>2 DEF q
<1> HIDE DEF c
<1>12. node[f].dirty => node[f].size # len
  <2> SUFFICES ASSUME node[f].dirty PROVE node[f].size # len OBVIOUS
  <2>1. node[f].pinned /\ entry[f].used /\ node[f].first = entry[f].first BY <1>1, <1>7, SteadyDirty
  <2>2. State(f) = node[f] BY <2>1 DEF State
  <2>3. len \in Nat /\ node[f].size \in Nat BY <1>1, SizeAssumption DEF Nodes
  <2> QED BY <2>2, <2>3
<1>13. Fit(w, cut)
  <2>1. Sizes(w.table, w.entry, w.node, {}) BY <1>7 DEF Steady
  <2>2. ASSUME Took(w.entry, o) PROVE Sizes(CutAt(w.table, o.at), w.entry, w.node, {f})
    <3>1. entry[f].size = len BY <1>1, <1>4, <2>2 DEF Took
    <3>2. Sizes(u, entry, node, {f}) BY <1>10, <3>1 DEF c
    <3> QED BY <1>1, <1>4, <3>2 DEF u
  <2> QED BY <1>1, <1>4, <1>7, <1>12, <2>1, <2>2, Zenon DEF Fit, Severed, Cutters, Steady
<1>14. \A h \in Files : h # f => /\ v.entry[h] = entry[h] /\ v.node[h] = node[h]
                                 /\ y.entry[h] = entry[h] /\ y.node[h] = node[h]
  BY <1>1, <1>2, <1>8
<1>15. v.entry[f] = to /\ v.node[f] = n /\ y.entry[f] = to /\ y.node[f] = node[f] BY <1>1, <1>2, <1>8
<1>16. Fit(y, cut)
  <2>1. Sizes(table, y.entry, node, {})
    <3>1. Sizes(table, entry, node, {}) BY <1>1, <1>7 DEF Steady
    <3>2. node[f].dirty => Holds(table, node[f].first, Need(node[f].size)) BY <3>1 DEF Sizes
    <3>3. entry = [h \in Files |-> entry[h]] /\ node = [h \in Files |-> node[h]] BY <1>1
    <3>4. Holds(table, to.first, Need(to.size)) BY <1>3, <1>7, <1>11
    <3>5. Sizes(table, [entry EXCEPT ![f] = to], [node EXCEPT ![f] = node[f]], {}) BY <3>1, <3>2, <3>3, <3>4, SizesPut, Zenon
    <3>6. [node EXCEPT ![f] = node[f]] = node BY <1>1
    <3> QED BY <1>8, <3>5, <3>6
  <2>2. Sizes(CutAt(y.table, o.at), y.entry, y.node, {f})
    <3>1. y.entry[f].used /\ y.entry[f].first = c /\ Need(y.entry[f].size) = k BY <1>3, <1>7, <1>15
    <3>2. Sizes(u, y.entry, y.node, {f}) BY <1>10, <1>14, <3>1
    <3> QED BY <1>4, <1>8, <3>2 DEF u
  <2>3. ASSUME NEW h \in Files PROVE InStep(y.entry[h], y.node[h]) \/ Mends(y, cut, h)
    <3>1. CASE h = f
      <4>1. CASE ~node[f].pinned BY <1>15, <3>1, <4>1 DEF InStep
      <4>2. CASE node[f].pinned
        <5>1. node[f].first = c
          <6>1. InStep(entry[f], node[f]) BY <1>1, <1>7 DEF Steady
          <6> QED BY <4>2, <6>1 DEF InStep, c
        <5>2. Took(y.entry, o) BY <1>3, <1>4, <1>15 DEF Took
        <5>3. y.node[f].first = y.entry[f].first BY <1>3, <1>15, <5>1
        <5> QED BY <1>4, <3>1, <5>2, <5>3 DEF Mends
      <4> QED BY <4>1, <4>2
    <3>2. CASE h # f
      <4>1. InStep(entry[h], node[h]) BY <1>1, <1>7 DEF Steady
      <4> QED BY <1>14, <3>2, <4>1
    <3> QED BY <3>1, <3>2
  <2> QED BY <1>4, <1>8, <1>12, <2>1, <2>2, <2>3, Zenon DEF Fit, Severed, Cutters
<1>17. Steady(v)
  <2>1. Holds(w.table, to.first, Need(to.size)) BY <1>1, <1>3, <1>7, <1>11
  <2>2. Steady(Put(w, f, to, n)) BY <1>1, <1>2, <1>3, <1>7, <2>1, SteadyPut
  <2> QED BY <2>2 DEF v
<1>18. Sizes(u, v.entry, v.node, {})
  <2>1. v.entry[f].used /\ v.entry[f].first = c /\ Need(v.entry[f].size) = k BY <1>3, <1>7, <1>15
  <2>2. ~v.node[f].dirty BY <1>3, <1>15
  <2> QED BY <1>10, <1>14, <2>1, <2>2
<1>19. Fit(v, held)
  <2>1. Sizes(CutAt(v.table, held.owner.at), v.entry, v.node, {}) BY <1>2, <1>4, <1>18 DEF u
  <2> QED BY <1>4, <1>17, <2>1, FitSteady
<1>20. Steady(g) BY <1>5, <1>17, <1>18 DEF Steady
<1>21. Fit(g, held)
  <2>1. CutAt(g.table, held.owner.at) = u BY <1>4, <1>5, CutTwice DEF u
  <2>2. Sizes(CutAt(g.table, held.owner.at), g.entry, g.node, {}) BY <1>5, <1>18, <2>1
  <2> QED BY <1>4, <1>20, <2>2, FitSteady
<1>22. Saves(v, g)
  <2>1. g.entry = v.entry /\ g.table = CutAt(v.table, last) /\ v.table[last] # Free BY <1>2, <1>5 DEF u
  <2>2. Sizes(g.table, v.entry, v.node, {}) BY <1>5, <1>18
  <2> QED BY <2>1, <2>2, SavesCut, Zenon
<1>23. Goes(FitSteps, w, <<a>>, v)
  <2>1. w.entry[f].used /\ to.used => to.first = w.entry[f].first \/ w.entry[f].first = 0 \/ to.size = 0
    BY <1>1, <1>3 DEF c
  <2>2. Safe(w, EntryStep(cut, f, to, n, held)) BY <1>2 DEF a
  <2>3. Fit(Put(w, f, to, n), held) /\ Fit(Put(w, f, to, w.node[f]), cut) BY <1>16, <1>19 DEF v, y
  <2>4. Goes(FitSteps, w, <<EntryStep(cut, f, to, n, held)>>, Put(w, f, to, n))
    BY <1>1, <1>2, <1>13, <2>1, <2>2, <2>3, EntryGoes
  <2> QED BY <2>4 DEF a, v
<1>24. Goes(FitSteps, v, <<b>>, g)
  <2>1. <<v, b>> \in FitSteps BY <1>2, <1>19, <1>21, <1>22, FatFit
  <2> HIDE DEF b
  <2> QED BY <1>2, <2>1, TightFirst
<1>25. PICK z : Goes(FitSteps, g, Finished(FreeChain(rest)), z) BY <1>2, <1>20, FreeChainFit
<1>26. a \in AllSteps /\ b \in AllSteps BY <1>2 DEF Safe
<1> HIDE DEF b
<1>27. Goes(FitSteps, w, <<a>> \o <<b>>, g) BY <1>23, <1>24, GoesJoin
<1>28. <<a>> \o <<b>> = <<a, b>> BY <1>26, JoinTwo
<1>29. Goes(FitSteps, w, <<a, b>> \o Finished(FreeChain(rest)), z) BY <1>25, <1>27, <1>28, GoesJoin, Zenon
<1> QED BY <1>6, <1>29 DEF w, a, b, rest, held, cut, last, q, c

\* ... truncate, ...
LEMMA ShrinkFit ==
  ASSUME Good(World, NoPending), Steady(World), NEW f \in Files, entry[f].used, NEW len \in 0 .. MaxSize,
         len < State(f).size
  PROVE  \E z : Goes(FitSteps, World, ShrinkPlan(f, len), z)
<1> DEFINE c == entry[f].first
           chain == Chain(table, c)
           keep == Need(len)
           w == World
<1>1. /\ w.table = table /\ w.entry = entry /\ w.node = node /\ w \in Worlds /\ entry \in [Files -> Entries]
      /\ node \in [Files -> Nodes] /\ table \in [Clusters -> Values] /\ Sound(table, entry)
  BY WorldFields
<1>2. State(f).first = c /\ State(f) \in Nodes BY ReadyState
<1>3. keep \in Nat
  <2>1. len \in Nat BY SizeAssumption
  <2> QED BY <2>1, NeedOne
<1>4. Len(chain) \in Nat /\ (c = 0 => Len(chain) = 0)
  <2>1. c = 0 => chain = <<>> BY <1>1, FileChain
  <2>2. c # 0 => Len(chain) \in Nat BY <1>1, FileChain
  <2> QED BY <2>1, <2>2
<1> HIDE DEF keep
<1>5. CASE keep = 0 /\ c # 0
  <2>1. ShrinkPlan(f, len) = <<Store(Held(c, 0, EntryOf(f)), f, 0, len, Held(c, 0, EntryOf(f)))>>
                              \o Finished(FreeChain(chain))
    BY <1>2, <1>5 DEF ShrinkPlan, keep
  <2> QED BY <1>5, <2>1, EmptyFit DEF keep
<1>6. CASE keep # 0 /\ keep < Len(chain)
  <2> DEFINE last == chain[keep]
             rest == SubSeq(chain, keep + 1, Len(chain))
             cut == Held(rest[1], 0, Cut(f, len, last))
             held == Held(rest[1], 0, AtTail(last))
  <2>1. c # 0 BY <1>3, <1>4, <1>6
  <2>2. ShrinkPlan(f, len) =
          <<Store(cut, f, c, len, held), FatStep(held, [x \in {last} |-> EOC], held)>>
          \o Finished(FreeChain(rest))
    BY <1>2, <1>6, Zenon DEF ShrinkPlan, keep
  <2>3. Need(len) = keep BY DEF keep
  <2>4. \E z : Goes(FitSteps, World, <<Store(cut, f, c, len, held), FatStep(held, [x \in {last} |-> EOC], held)>>
                                     \o Finished(FreeChain(rest)), z)
    BY <1>3, <1>6, <2>1, <2>3, CutFit, Zenon
  <2> QED BY <2>2, <2>4, Zenon
<1>7. CASE ~(keep = 0 /\ c # 0) /\ ~(keep # 0 /\ keep < Len(chain))
  <2> DEFINE to == Entry(c, len)
             k == IF node[f].pinned THEN CleanNode(c, len) ELSE NoNode
             s == EntryStep(NoPending, f, to, k, NoPending)
  <2>1. ShrinkPlan(f, len) = <<s>> BY <1>2, <1>7, Zenon DEF ShrinkPlan, keep, Store
  <2>2. PICK z : Runs(w, <<s>>, z) BY <2>1, ShrinkRuns
  <2>3. <<s>> \o <<>> = <<s>> /\ \E S : <<>> \in Seq(S)
    <3>1. <<s>> \in Seq({s}) /\ <<>> \in Seq({s}) OBVIOUS
    <3> HIDE DEF s
    <3> QED BY <3>1
  <2>4. Safe(w, s)
    <3> HIDE DEF s, w
    <3> QED BY <2>2, <2>3, FirstSafe, Zenon
  <2>5. to \in Entries /\ to.used /\ to.first = c /\ to.size = len /\ k \in Nodes
    <3>1. c \in Clusters \cup {0} BY <1>1 DEF Entries
    <3> QED BY <3>1, NodeTypes DEF Entry
  <2>6. InStep(to, k) /\ ~k.dirty BY DEF InStep, Entry, CleanNode, NoNode
  <2>7. Steady(w) /\ Good(w, NoPending) OBVIOUS
  <2>8. Holds(table, c, Need(len))
    <3> DEFINE z0 == State(f).size
    <3>1. Holds(table, c, Need(z0)) BY <1>2, StateHolds
    <3>2. z0 \in Nat /\ len \in Nat /\ len <= z0 BY <1>2, SizeAssumption DEF Nodes
    <3> HIDE DEF z0
    <3>3. Need(len) \in Nat /\ Need(z0) \in Nat /\ Need(len) <= Need(z0) BY <3>2, NeedMono
    <3> QED BY <3>1, <3>3, HoldsLess
  <2> HIDE DEF to, k, w, s
  <2>9. Holds(w.table, to.first, Need(to.size)) BY <1>1, <2>5, <2>8
  <2>10. Steady(Put(w, f, to, k)) BY <1>1, <2>5, <2>6, <2>7, <2>9, SteadyPut
  <2>11. Unseen(w, NoPending, f, to) \/ Fit(Put(w, f, to, w.node[f]), NoPending)
    <3>1. CASE node[f].pinned
      <4>1. State(f) = node[f] BY <3>1 DEF State
      <4> QED BY <1>1, <2>5, <3>1, <4>1 DEF Unseen
    <3>2. CASE ~node[f].pinned
      <4>1. InStep(to, w.node[f]) /\ w.node[f] \in Nodes BY <1>1, <3>2 DEF InStep
      <4>2. ~w.node[f].dirty BY <1>1, <2>7, <3>2, SteadyDirty
      <4>3. Steady(Put(w, f, to, w.node[f])) BY <1>1, <2>5, <2>7, <2>9, <4>1, <4>2, SteadyPut
      <4> QED BY <4>3, FitNone
    <3> QED BY <3>1, <3>2
  <2>12. Fit(w, NoPending) /\ Fit(Put(w, f, to, k), NoPending) BY <2>7, <2>10, FitNone
  <2>13. Goes(FitSteps, w, <<EntryStep(NoPending, f, to, k, NoPending)>>, Put(w, f, to, k))
    <3>1. Safe(w, EntryStep(NoPending, f, to, k, NoPending)) BY <2>4 DEF s
    <3>2. w.entry[f].used /\ to.used => to.first = w.entry[f].first \/ w.entry[f].first = 0 \/ to.size = 0
      BY <1>1, <2>5
    <3> QED BY <1>1, <2>5, <2>11, <2>12, <3>1, <3>2, EntryGoes
  <2> QED BY <2>1, <2>13 DEF w, s
<1> QED BY <1>5, <1>6, <1>7

-----------------------------------------------------------------------------
(* Publication and growth. *)

\* ... close, fsync and sync, whatever is pending, ...
LEMMA FlushFit ==
  ASSUME NEW p, Good(World, p), Fit(World, p), NEW f \in Files, node[f].dirty, entry[f].used
  PROVE  LET s == <<Store(p, f, node[f].first, node[f].size, p)>>
         IN  \E z : Goes(FitSteps, World, s, z)
<1> DEFINE w == World
           n == node[f]
           to == Entry(n.first, n.size)
           k == CleanNode(n.first, n.size)
           s == EntryStep(p, f, to, k, p)
           o == p.owner
           u == Put(w, f, to, w.node[f])
           v == Put(w, f, to, k)
<1>1. /\ w.table = table /\ w.entry = entry /\ w.node = node /\ w \in Worlds
      /\ table \in [Clusters -> Values] /\ entry \in [Files -> Entries] /\ node \in [Files -> Nodes]
      /\ NodeOK(table, entry, node, p)
  BY WorldFields
<1>2. n \in Nodes /\ n.first \in Clusters \cup {0} /\ n.size \in 0 .. MaxSize BY <1>1 DEF Nodes
<1>3. NodeFits(table, entry[f], n, p, f) BY <1>1 DEF NodeOK
<1>4. n.pinned /\ n.first # 0 BY <1>3 DEF NodeFits
<1>5. /\ to \in Entries /\ to.used /\ to.first = n.first /\ to.size = n.size
      /\ k \in Nodes /\ ~k.dirty /\ k.first = n.first /\ k.size = n.size
  BY <1>2, NodeTypes DEF Entry, CleanNode
<1>6. Store(p, f, n.first, n.size, p) = s BY <1>4 DEF Store
<1>7. PICK z : Runs(w, <<s>>, z) BY <1>6, FlushRuns
<1>8. <<s>> \o <<>> = <<s>> /\ \E S : <<>> \in Seq(S)
  <2> HIDE DEF s
  <2> QED BY EmptyEnd
<1>9. Safe(w, s)
  <2> HIDE DEF s, w
  <2> QED BY <1>7, <1>8, FirstSafe, Zenon
<1>10. n.dirty /\ entry[f].used /\ Fit(w, p) OBVIOUS
<1>11. InStep(to, n) /\ InStep(to, k)
  <2> HIDE DEF to, k
  <2> QED BY <1>4, <1>5, <1>10 DEF InStep
<1>12. u.table = table /\ u.entry = [entry EXCEPT ![f] = to] /\ u.node = [node EXCEPT ![f] = n]
  BY <1>1 DEF Put
<1>13. v.table = table /\ v.entry = [entry EXCEPT ![f] = to] /\ v.node = [node EXCEPT ![f] = k]
  BY <1>1 DEF Put
<1>14. \A g \in Files : g # f => /\ u.entry[g] = entry[g] /\ u.node[g] = node[g]
                                 /\ v.entry[g] = entry[g] /\ v.node[g] = node[g]
  BY <1>1, <1>12, <1>13
<1>15. u.entry[f] = to /\ v.entry[f] = to /\ u.node[f] = n /\ v.node[f] = k BY <1>1, <1>12, <1>13
<1> HIDE DEF to, k, n, w, u, v, o, s
\* The table with or without the cut.
<1>16. ASSUME NEW t, NEW X, Sizes(t, entry, node, X), f \notin X, NEW y \in {u, v}
       PROVE  Sizes(t, y.entry, y.node, X)
  <2>1. Holds(t, n.first, Need(n.size)) BY <1>10, <1>16 DEF Sizes, n
  <2>2. entry = [g \in Files |-> entry[g]] /\ node = [g \in Files |-> node[g]] BY <1>1
  <2>3. Sizes(t, [entry EXCEPT ![f] = to], [node EXCEPT ![f] = n], X)
    BY <1>5, <1>16, <2>1, <2>2, SizesPut, Zenon
  <2>4. Sizes(t, [entry EXCEPT ![f] = to], [node EXCEPT ![f] = k], X)
    BY <1>5, <1>16, <2>1, <2>2, SizesPut, Zenon
  <2> QED BY <1>12, <1>13, <1>16, <2>3, <2>4
<1>17. /\ Sizes(table, entry, node, {})
       /\ Severed(entry, o) => Sizes(CutAt(table, o.at), entry, node, Cutters(o))
       /\ o.kind = "cut" /\ node[o.file].dirty => node[o.file].size # o.size
       /\ \A g \in Files : InStep(entry[g], node[g]) \/ Mends(w, p, g)
  BY <1>1, <1>10 DEF Fit, o
<1>18. o.kind = "cut" => o.file \in Files
  <2>1. o \in Owners BY DEF Good, Pendings, o
  <2> QED BY <2>1, OwnerParts
<1>19. ASSUME NEW y \in {u, v} PROVE Fit(y, p)
  <2>1. Sizes(y.table, y.entry, y.node, {}) BY <1>12, <1>13, <1>16, <1>17
  <2>2. ASSUME o.kind = "cut", o.file = f PROVE ~Took(y.entry, o)
    <3>1. n.size # o.size BY <1>10, <1>17, <2>2 DEF n
    <3>2. y.entry[f] = to BY <1>15
    <3> QED BY <1>5, <2>2, <3>1, <3>2 DEF Took
  <2>3. ASSUME o.kind = "cut", o.file # f PROVE Took(y.entry, o) <=> Took(entry, o)
    <3>1. y.entry[o.file] = entry[o.file] BY <1>14, <1>18, <2>3
    <3> QED BY <3>1 DEF Took
  <2>4. ASSUME Severed(y.entry, o) PROVE Sizes(CutAt(y.table, o.at), y.entry, y.node, Cutters(o))
    <3>1. Severed(entry, o) /\ f \notin Cutters(o) BY <2>2, <2>3, <2>4 DEF Severed, Cutters
    <3>2. Sizes(CutAt(table, o.at), entry, node, Cutters(o)) BY <1>17, <3>1
    <3>3. y.table = table BY <1>12, <1>13
    <3> QED BY <1>16, <3>1, <3>2, <3>3
  <2>5. ASSUME o.kind = "cut", y.node[o.file].dirty PROVE y.node[o.file].size # o.size
    <3>1. CASE o.file = f
      <4>1. n.size # o.size BY <1>10, <1>17, <2>5, <3>1 DEF n
      <4>2. y.node[f] \in {n, k} BY <1>15
      <4> QED BY <1>5, <3>1, <4>1, <4>2
    <3>2. CASE o.file # f
      <4>1. y.node[o.file] = node[o.file] BY <1>14, <1>18, <2>5, <3>2
      <4> QED BY <1>17, <2>5, <4>1
    <3> QED BY <3>1, <3>2
  <2>6. ASSUME NEW g \in Files PROVE InStep(y.entry[g], y.node[g]) \/ Mends(y, p, g)
    <3>1. CASE g = f BY <1>11, <1>15, <3>1
    <3>2. CASE g # f
      <4>1. y.entry[g] = entry[g] /\ y.node[g] = node[g] BY <1>14, <3>2
      <4>2. CASE InStep(entry[g], node[g]) BY <4>1, <4>2
      <4>3. CASE Mends(w, p, g)
        <5>1. \/ o.kind = "cut" /\ o.file = g /\ Took(entry, o) /\ node[g].first = entry[g].first
              \/ o.kind = "entry" /\ o.file = g /\ entry[g].used /\ node[g].first # entry[g].first
                 /\ 0 \in {node[g].first, entry[g].first}
              \/ o.kind = "removed" /\ o.file = g /\ ~entry[g].used /\ node[g].first = p.head
          BY <1>1, <4>3 DEF Mends, o
        <5>2. o.kind = "cut" /\ o.file = g => (Took(y.entry, o) <=> Took(entry, o)) BY <2>3, <3>2
        <5> QED BY <4>1, <5>1, <5>2 DEF Mends, o
      <4> QED BY <1>17, <4>2, <4>3
    <3> QED BY <3>1, <3>2
  <2> QED BY <2>1, <2>4, <2>5, <2>6 DEF Fit, o
<1>20. entry[f].first = n.first \/ entry[f].first = 0 BY <1>3, <1>4 DEF NodeFits
<1>21. Goes(FitSteps, w, <<EntryStep(p, f, to, k, p)>>, Put(w, f, to, k))
  <2>1. Fit(Put(w, f, to, k), p) /\ Fit(Put(w, f, to, w.node[f]), p) BY <1>19 DEF u, v
  <2>2. w.entry[f].used /\ to.used => to.first = w.entry[f].first \/ w.entry[f].first = 0 \/ to.size = 0
    BY <1>1, <1>5, <1>20
  <2>3. Safe(w, EntryStep(p, f, to, k, p)) BY <1>9 DEF s
  <2> QED BY <1>1, <1>5, <1>10, <2>1, <2>2, <2>3, EntryGoes
<1> QED BY <1>6, <1>21 DEF w, n, s

\* The end of growth, once the chain from the first cluster holds the size.
LEMMA PublishFit ==
  ASSUME Good(World, NoPending), NEW f \in Files, entry[f].used,
         NEW w, Good(w, NoPending), w.node = node, w.entry = entry, Steady(w),
         NEW held, Good(w, held), Fit(w, held), NEW first \in Clusters, NEW size \in 0 .. MaxSize,
         \/ first = entry[f].first
         \/ /\ entry[f].first = 0 /\ held = Held(first, 0, EntryOf(f))
            /\ w.table[first] # Free /\ LinkedBy(w.table, w.entry, first, {}, {}),
         held = NoPending \/ held.owner.kind = "tail" \/ held.owner = EntryOf(f),
         Holds(w.table, first, Need(size))
  PROVE  \E z : Goes(FitSteps, w, Publish(held, f, first, size), z)
<1> DEFINE n == State(f)
           to == Entry(first, size)
<1>1. /\ n.first = entry[f].first /\ n \in Nodes /\ n.pinned
      /\ node[f].pinned => n = node[f]
      /\ entry[f] \in Entries /\ node[f] \in Nodes
  BY ReadyState
<1>2. w \in Worlds BY DEF Good
<1>3. w.entry \in [Files -> Entries] /\ w.node \in [Files -> Nodes] /\ entry \in [Files -> Entries]
  BY <1>2 DEF Worlds
<1>4. to \in Entries /\ to.used /\ to.first = first /\ to.size = size /\ first # 0
  BY NodeTypes, Numbers DEF Entry
<1>5. \E z \in Worlds : Runs(w, Publish(held, f, first, size), z)
  BY PublishRuns
<1>6. /\ first = entry[f].first \/ (entry[f].first = 0 /\ held.owner = EntryOf(f))
      /\ Holds(w.table, to.first, Need(to.size)) /\ Fit(w, held) /\ Steady(w)
  BY <1>4, HeldFields
<1>7. /\ Holds(w.table, entry[f].first, Need(entry[f].size))
      /\ node[f].dirty => Holds(w.table, node[f].first, Need(node[f].size))
      /\ InStep(entry[f], node[f])
  BY <1>3 DEF Steady, Sizes
<1> HIDE DEF to
<1>8. CASE node[f].pinned /\ first = n.first
  <2> DEFINE k == [n EXCEPT !.size = size, !.dirty = TRUE]
             s == DataStep(held, f, k, NoPending)
             v == Put(w, f, w.entry[f], k)
  <2>1. Publish(held, f, first, size) = <<s>> BY <1>8 DEF Publish
  <2>a. k \in Nodes /\ k.pinned /\ k.first = first /\ k.size = size /\ k.dirty BY <1>1, <1>8, Zenon DEF Nodes
  <2> HIDE DEF k
  <2>2. Safe(w, s)
    <3> HIDE DEF s
    <3> QED BY <1>5, <2>1, EmptyEnd, FirstSafe, Zenon
  <2>3. Steady(v)
    <3>1. InStep(w.entry[f], k) BY <1>1, <1>8, <2>a DEF InStep
    <3>2. Holds(w.table, k.first, Need(k.size)) BY <2>a
    <3>3. w.entry[f] \in Entries BY <1>3
    <3> QED BY <1>2, <1>6, <1>7, <2>a, <3>1, <3>2, <3>3, SteadyPut
  <2>4. s \in AllSteps BY <2>2 DEF Safe
  <2>5. Landed(w, s) = v
    <3>1. s.kind = "data" /\ s.file = f /\ s.node = k BY DEF DataStep
    <3>2. [w.entry EXCEPT ![f] = w.entry[f]] = w.entry BY <1>2, SameEntry, Zenon
    <3> HIDE DEF s
    <3> QED BY <3>1, <3>2 DEF Landed, Put
  <2>6. <<w, s>> \in FitSteps
    <3>1. Fit(Put(w, f, w.entry[f], k), NoPending) BY <2>3, FitNone
    <3> QED BY <1>2, <1>6, <2>4, <3>1, DataFit
  <2> HIDE DEF s, v
  <2>7. Goes(FitSteps, w, <<s>>, v) BY <2>2, <2>5, <2>6, TightFirst
  <2> QED BY <2>1, <2>7
<1>9. CASE ~(node[f].pinned /\ first = n.first)
  <2> DEFINE s == DataStep(held, f, node[f], held)
             k == IF node[f].pinned THEN CleanNode(first, size) ELSE NoNode
             r == EntryStep(held, f, to, k, NoPending)
             y == Put(w, f, to, w.node[f])
  <2>1. Publish(held, f, first, size) = <<s, r>> BY <1>9 DEF Publish, Store, to
  <2>a. k \in Nodes /\ ~k.dirty /\ (k.pinned => k.first = first /\ k.size = size)
    BY NodeTypes DEF CleanNode, NoNode
  <2> HIDE DEF k
  <2>2. Put(w, f, w.entry[f], node[f]) = w BY <1>2, SameEntry, Zenon
  <2>3. Landed(w, s) = w
    <3>1. s.kind = "data" /\ s.file = f /\ s.node = node[f] BY DEF DataStep
    <3>2. [w.entry EXCEPT ![f] = w.entry[f]] = w.entry BY <1>2, SameEntry, Zenon
    <3> HIDE DEF s
    <3>3. Landed(w, s) = Put(w, f, w.entry[f], node[f]) BY <3>1, <3>2 DEF Landed, Put
    <3> QED BY <2>2, <3>3
  <2>4. Safe(w, s) /\ Safe(w, r)
    <3> HIDE DEF s, r
    <3>1. <<s, r>> \o <<>> = <<s, r>> /\ \E S : <<>> \in Seq(S)
      <4>1. <<s, r>> \in Seq({s, r}) /\ <<>> \in Seq({s, r}) OBVIOUS
      <4> QED BY <4>1
    <3>2. Safe(w, s) /\ Safe(Landed(w, s), r) BY <1>5, <2>1, <3>1, TwoSafe, Zenon
    <3> QED BY <2>3, <3>2
  <2>5. s \in AllSteps /\ r \in AllSteps BY <2>4 DEF Safe
  <2>6. <<w, s>> \in FitSteps
    <3>1. Fit(Put(w, f, w.entry[f], node[f]), held) BY <1>6, <2>2
    <3> QED BY <1>2, <1>6, <2>5, <3>1, DataFit
  <2>7. Goes(FitSteps, w, <<s>>, w)
    <3> HIDE DEF s
    <3> QED BY <2>3, <2>4, <2>6, TightFirst
  <2>8. Steady(Put(w, f, to, k))
    <3>1. InStep(to, k) BY <1>4, <2>a DEF InStep
    <3> QED BY <1>2, <1>4, <1>6, <2>a, <3>1, SteadyPut
  <2>b. w.node[f] = node[f] /\ w.entry[f] = entry[f] OBVIOUS
  <2>9. Unseen(w, held, f, to) \/ Fit(y, held)
    <3>1. CASE ~node[f].pinned
      <4>1. ~node[f].dirty
        <5>1. w.node[f].dirty => w.node[f].pinned BY <1>6, SteadyDirty
        <5> QED BY <2>b, <3>1, <5>1
      <4>2. InStep(to, w.node[f]) /\ ~w.node[f].dirty /\ w.node[f] \in Nodes
        BY <1>1, <2>b, <3>1, <4>1 DEF InStep
      <4>3. Steady(y) BY <1>2, <1>4, <1>6, <4>2, SteadyPut
      <4> HIDE DEF y
      <4>4. CASE held = NoPending BY <4>3, <4>4, FitNone
      <4>5. CASE held.owner.kind = "tail" BY <2>b, <4>1, <4>5 DEF Unseen
      <4>6. CASE held.owner = EntryOf(f)
        <5>1. held.owner.kind = "entry" BY <4>6 DEF EntryOf
        <5> QED BY <4>3, <5>1, FitSteady
      <4> QED BY <4>4, <4>5, <4>6
    <3>2. CASE node[f].pinned
      <4>1. entry[f].first = 0 /\ held.owner = EntryOf(f) BY <1>1, <1>6, <1>9, <3>2
      <4>2. held.owner.kind = "entry" /\ held.owner.file = f BY <4>1 DEF EntryOf
      <4>3. node[f].first = 0 BY <1>7, <3>2, <4>1 DEF InStep
      <4>4. y.table = w.table /\ y.entry = [entry EXCEPT ![f] = to] /\ y.node = node
        <5>1. [w.node EXCEPT ![f] = w.node[f]] = w.node BY <1>2, SameEntry, Zenon
        <5> QED BY <5>1 DEF Put
      <4> HIDE DEF y
      <4>5. y.entry[f] = to /\ \A g \in Files : g # f => y.entry[g] = entry[g] BY <1>3, <4>4
      <4>6. Sizes(y.table, y.entry, y.node, {})
        <5>1. Sizes(w.table, entry, node, {}) BY <1>6 DEF Steady
        <5>2. ASSUME NEW g \in Files, y.entry[g].used
              PROVE  /\ Holds(w.table, y.entry[g].first, Need(y.entry[g].size))
                     /\ node[g].dirty => Holds(w.table, node[g].first, Need(node[g].size))
          <6>1. CASE g = f
            <7>1. y.entry[g] = to BY <4>5, <6>1
            <7>2. Holds(w.table, to.first, Need(to.size)) BY <1>6
            <7>3. node[f].dirty => Holds(w.table, node[f].first, Need(node[f].size)) BY <1>7
            <7> QED BY <6>1, <7>1, <7>2, <7>3
          <6>2. CASE g # f
            <7>1. y.entry[g] = entry[g] BY <4>5, <6>2
            <7> QED BY <5>1, <5>2, <7>1 DEF Sizes
          <6> QED BY <6>1, <6>2
        <5> QED BY <4>4, <5>2 DEF Sizes
      <4>7. ASSUME NEW g \in Files PROVE InStep(y.entry[g], y.node[g]) \/ Mends(y, held, g)
        <5>1. CASE g = f BY <1>4, <4>2, <4>3, <4>4, <4>5, <5>1 DEF Mends
        <5>2. CASE g # f
          <6>1. InStep(entry[g], node[g]) BY <1>6 DEF Steady
          <6> QED BY <4>4, <4>5, <5>2, <6>1
        <5> QED BY <5>1, <5>2
      <4> QED BY <4>2, <4>6, <4>7 DEF Fit, Severed
    <3> QED BY <3>1, <3>2
  <2>10. Goes(FitSteps, w, <<r>>, Put(w, f, to, k))
    <3>1. Fit(Put(w, f, to, k), NoPending) BY <2>8, FitNone
    <3>2. w.entry[f].used /\ to.used => to.first = w.entry[f].first \/ w.entry[f].first = 0 \/ to.size = 0
      BY <1>4, <1>6, <2>b
    <3>3. Safe(w, EntryStep(held, f, to, k, NoPending)) BY <2>4
    <3> QED BY <1>2, <1>4, <1>6, <2>9, <3>1, <3>2, <3>3, EntryGoes
  <2> HIDE DEF s, r
  <2>11. Goes(FitSteps, w, <<s>> \o <<r>>, Put(w, f, to, k)) BY <2>7, <2>10, GoesJoin
  <2>12. <<s>> \o <<r>> = <<s, r>> BY <2>5, JoinTwo
  <2> QED BY <2>1, <2>11, <2>12, Zenon
<1> QED BY <1>8, <1>9

\* p, continued by q, is a path.
Continues(t, p, q) ==
    LET r == p \o q
    IN  /\ IsPath(t, r) /\ Len(r) = Len(p) + Len(q)
        /\ r # <<>> /\ r[1] = IF p = <<>> THEN q[1] ELSE p[1]

\* A chain with the clusters that were allocated.
LEMMA GrownPath ==
  ASSUME NEW w, Good(w, NoPending), NEW q, NEW tail, Fresh(w.table, w.entry, q, tail),
         NEW p, IsPath(w.table, p), IF p = <<>> THEN tail = 0 ELSE p[Len(p)] = tail
  PROVE  Continues(AllocWorld(w, q, 1, {tail} \ {0}).table, p, q)
<1> DEFINE u == Allocated(w.table, q, 1, {tail} \ {0})
           r == p \o q
           m == Len(p)
           n == Len(q)
           t == w.table
<1>1. /\ q \in Seq(Clusters) /\ n \in Nat /\ n >= 1 /\ tail \in Clusters \cup {0}
      /\ \A i \in 1 .. n : t[q[i]] = Free
      /\ \A i, j \in 1 .. n : q[i] = q[j] => i = j
  BY DEF Fresh
<1>2. /\ p \in Seq(Clusters) /\ m \in Nat
      /\ \A i \in 1 .. m : t[p[i]] # Free
      /\ \A i \in 1 .. m - 1 : t[p[i]] = p[i + 1]
      /\ \A i, j \in 1 .. m : p[i] = p[j] => i = j
  BY DEF IsPath
<1>3. (p = <<>> <=> m = 0) /\ (p # <<>> => m \in 1 .. m /\ p[m] = tail) BY <1>2
<1>4. (\A i \in 1 .. n : q[i] \in Clusters) /\ (\A i \in 1 .. m : p[i] \in Clusters) BY <1>1, <1>2
<1>5. /\ \A i \in 1 .. n : u[q[i]] = After(q, i)
      /\ \A c \in Clusters : (\A i \in 1 .. n : q[i] # c) => u[c] = IF c \in {tail} \ {0} THEN q[1] ELSE t[c]
  <2>1. 1 \in 1 .. Len(q) + 1 /\ {tail} \ {0} \in SUBSET ({tail} \ {0}) /\ ({tail} \ {0} # {} => 1 = 1) BY <1>1
  <2>2. /\ \A i \in 1 .. Len(q) : u[q[i]] = IF i < 1 THEN Free ELSE After(q, i)
        /\ \A c \in Clusters : (\A i \in 1 .. Len(q) : q[i] # c) =>
             u[c] = IF c \in {tail} \ {0} THEN q[1] ELSE w.table[c]
    BY <2>1, AllocatedFacts
  <2>3. \A i \in 1 .. n : ~(i < 1) BY <1>1
  <2> HIDE DEF u
  <2> QED BY <2>2, <2>3
<1>6. /\ r \in Seq(Clusters) /\ Len(r) = m + n
      /\ \A i \in 1 .. m : r[i] = p[i]
      /\ \A i \in 1 .. n : r[m + i] = q[i]
  <2>1. p \in Seq(Clusters) /\ q \in Seq(Clusters) BY <1>1, <1>2
  <2>2. p \o q \in Seq(Clusters) BY <2>1
  <2>3. /\ Len(p \o q) = Len(p) + Len(q)
        /\ \A i \in 1 .. Len(p) : (p \o q)[i] = p[i]
        /\ \A i \in 1 .. Len(q) : (p \o q)[Len(p) + i] = q[i]
    BY <2>1, Concat
  <2> QED BY <2>2, <2>3
<1> HIDE DEF u, r, t
<1>7. /\ m \in 1 .. m => u[p[m]] = q[1]
      /\ \A i \in 1 .. m - 1 : u[p[i]] = p[i + 1]
  <2>1. ASSUME NEW i \in 1 .. m PROVE u[p[i]] = IF p[i] \in {tail} \ {0} THEN q[1] ELSE t[p[i]]
    <3>1. p[i] \in Clusters /\ \A j \in 1 .. n : q[j] # p[i] BY <1>1, <1>2, <1>4
    <3> HIDE DEF m, n
    <3> QED BY <1>5, <3>1
  <2>2. ASSUME m \in 1 .. m PROVE u[p[m]] = q[1]
    <3>1. p # <<>> /\ p[m] = tail BY <1>3, <2>2
    <3>2. p[m] # 0 BY <1>4, <2>2, Numbers
    <3> QED BY <2>1, <2>2, <3>1, <3>2
  <2>3. ASSUME NEW i \in 1 .. m - 1 PROVE u[p[i]] = p[i + 1]
    <3>1. i \in 1 .. m /\ m \in 1 .. m /\ i # m /\ m # 0 BY <1>2
    <3>2. p[m] = tail /\ p[i] # p[m] BY <1>2, <1>3, <3>1
    <3>3. t[p[i]] = p[i + 1] BY <1>2
    <3> QED BY <2>1, <3>1, <3>2, <3>3
  <2> QED BY <2>2, <2>3
<1>8. \A i \in 1 .. m : u[p[i]] # Free
  <2> TAKE i \in 1 .. m
  <2>1. CASE i = m
    <3>1. u[p[i]] = q[1] BY <1>7, <2>1
    <3>2. 1 \in 1 .. n BY <1>1
    <3>3. q[1] \in Clusters BY <1>4, <3>2
    <3> QED BY <3>1, <3>3, Numbers
  <2>2. CASE i # m
    <3>1. i \in 1 .. m - 1 /\ i + 1 \in 1 .. m BY <1>2, <2>2
    <3>2. u[p[i]] = p[i + 1] /\ p[i + 1] \in Clusters BY <1>4, <1>7, <3>1
    <3> QED BY <3>2, Numbers
  <2> QED BY <2>1, <2>2
<1>9. /\ \A i \in 1 .. n : u[q[i]] # Free
      /\ \A i \in 1 .. n - 1 : u[q[i]] = q[i + 1]
  <2>1. \A i \in 1 .. n : i # n => i + 1 \in 1 .. n BY <1>1
  <2>2. \A i \in 1 .. n - 1 : i \in 1 .. n /\ i # n BY <1>1
  <2>3. \A i \in 1 .. n : i # n => q[i + 1] \in Clusters BY <1>4, <2>1
  <2> QED BY <1>5, <2>2, <2>3, Numbers DEF After
\* Where the elements of the concatenation are.
<1>10. ASSUME NEW i \in 1 .. m + n
       PROVE  \/ i \in 1 .. m /\ r[i] = p[i]
              \/ i - m \in 1 .. n /\ r[i] = q[i - m] /\ ~(i <= m)
  <2>1. CASE i <= m
    <3>1. i \in 1 .. m BY <1>1, <1>2, <2>1
    <3> QED BY <1>6, <3>1
  <2>2. CASE ~(i <= m)
    <3> DEFINE j == i - m
    <3>1. j \in 1 .. n /\ i = m + j BY <1>1, <1>2, <2>2
    <3> HIDE DEF j, m, n
    <3>2. r[i] = q[j] BY <1>6, <3>1
    <3> QED BY <2>2, <3>1, <3>2 DEF j
  <2> QED BY <2>1, <2>2
<1>11. \A i \in 1 .. Len(r) : u[r[i]] # Free
  <2> TAKE i \in 1 .. Len(r)
  <2>1. i \in 1 .. m + n BY <1>6
  <2>2. CASE i \in 1 .. m /\ r[i] = p[i] BY <1>8, <2>2
  <2>3. CASE i - m \in 1 .. n /\ r[i] = q[i - m] BY <1>9, <2>3
  <2> QED BY <1>10, <2>1, <2>2, <2>3
<1>12. \A i \in 1 .. Len(r) - 1 : u[r[i]] = r[i + 1]
  <2> TAKE i \in 1 .. Len(r) - 1
  <2>1. i \in 1 .. m + n /\ i + 1 \in 1 .. m + n /\ i \in 1 .. m + n - 1 BY <1>1, <1>2, <1>6
  <2>2. CASE i \in 1 .. m - 1
    <3>1. i \in 1 .. m /\ i + 1 \in 1 .. m BY <1>2, <2>2
    <3> QED BY <1>6, <1>7, <2>2, <3>1
  <2>3. CASE i = m
    <3>1. m \in 1 .. m /\ 1 \in 1 .. n BY <1>1, <1>2, <2>1, <2>3
    <3> QED BY <1>6, <1>7, <2>3, <3>1
  <2>4. CASE ~(i <= m)
    <3> DEFINE j == i - m
    <3>1. j \in 1 .. n - 1 /\ j \in 1 .. n /\ j + 1 \in 1 .. n /\ i = m + j /\ i + 1 = m + (j + 1) BY <1>1, <1>2, <2>1, <2>4
    <3> HIDE DEF j, m, n
    <3>2. r[i] = q[j] /\ r[i + 1] = q[j + 1] BY <1>6, <3>1
    <3> QED BY <1>9, <3>1, <3>2
  <2> QED BY <1>2, <2>1, <2>2, <2>3, <2>4
<1>13. \A i, j \in 1 .. Len(r) : r[i] = r[j] => i = j
  <2> TAKE i, j \in 1 .. Len(r)
  <2>1. i \in 1 .. m + n /\ j \in 1 .. m + n BY <1>6
  <2>2. \A a \in 1 .. m, b \in 1 .. n : p[a] # q[b] BY <1>1, <1>2
  <2>3. CASE i \in 1 .. m /\ r[i] = p[i]
    <3>1. CASE j \in 1 .. m /\ r[j] = p[j] BY <1>2, <2>3, <3>1, Zenon
    <3>2. CASE j - m \in 1 .. n /\ r[j] = q[j - m] /\ ~(j <= m) BY <2>2, <2>3, <3>2, Zenon
    <3> QED BY <1>10, <2>1, <3>1, <3>2
  <2>4. CASE i - m \in 1 .. n /\ r[i] = q[i - m] /\ ~(i <= m)
    <3>1. CASE j \in 1 .. m /\ r[j] = p[j] BY <2>2, <2>4, <3>1, Zenon
    <3>2. CASE j - m \in 1 .. n /\ r[j] = q[j - m] /\ ~(j <= m)
      <4> DEFINE a == i - m
                 b == j - m
      <4>1. a \in 1 .. n /\ b \in 1 .. n /\ r[i] = q[a] /\ r[j] = q[b] BY <2>4, <3>2
      <4>2. a = b => i = j BY <1>2, <2>1
      <4> HIDE DEF a, b
      <4>3. q[a] = q[b] => a = b BY <1>1, <4>1
      <4> QED BY <4>1, <4>2, <4>3
    <3> QED BY <1>10, <2>1, <3>1, <3>2
  <2> QED BY <1>10, <2>1, <2>3, <2>4
<1>14. IsPath(u, r) BY <1>6, <1>11, <1>12, <1>13 DEF IsPath
<1>15. r # <<>> /\ r[1] = IF p = <<>> THEN q[1] ELSE p[1]
  <2>1. r # <<>> BY <1>1, <1>2, <1>6
  <2>2. CASE m = 0
    <3>1. r[m + 1] = q[1] BY <1>1, <1>6
    <3>2. m + 1 = 1 BY <2>2
    <3> HIDE DEF m
    <3> QED BY <1>3, <2>1, <2>2, <3>1, <3>2
  <2>3. CASE m # 0
    <3>1. 1 \in 1 .. m BY <1>2, <2>3
    <3> QED BY <1>3, <1>6, <2>1, <2>3, <3>1
  <2> QED BY <2>2, <2>3
<1>16. AllocWorld(w, q, 1, {tail} \ {0}).table = u BY DEF AllocWorld, u, t
<1>17. Continues(u, p, q) BY <1>6, <1>14, <1>15 DEF Continues, r
<1> QED BY <1>16, <1>17

\* ... and write.
LEMMA GrowFit ==
  ASSUME Good(World, NoPending), Steady(World), NEW f \in Files, entry[f].used, NEW end \in 1 .. MaxSize,
         NEW from \in Clusters,
         Need(end) - Len(Chain(table, State(f).first)) <= Cardinality({c \in Clusters : table[c] = Free})
  PROVE  \E z : Goes(FitSteps, World, GrowPlan(f, end, from), z)
<1> DEFINE n == State(f)
           c == n.first
           chain == Chain(table, c)
           count == Need(end) - Len(chain)
           size == IF end > n.size THEN end ELSE n.size
           tail == IF c = 0 THEN 0 ELSE Reached(chain)
           owner == IF c = 0 THEN EntryOf(f) ELSE AtTail(tail)
           q == Found(from, count)
           first == IF c = 0 THEN q[1] ELSE c
           held == Held(q[1], 0, owner)
           w == World
<1>1. /\ w.table = table /\ w.entry = entry /\ w.node = node /\ w \in Worlds
      /\ table \in [Clusters -> Values] /\ entry \in [Files -> Entries] /\ node \in [Files -> Nodes]
      /\ Sound(table, entry) /\ NodeOK(table, entry, node, NoPending)
  BY WorldFields
<1>2. n \in Nodes /\ c = entry[f].first /\ c \in Clusters \cup {0} /\ size \in 0 .. MaxSize /\ n.size \in Nat
  <2>1. n \in Nodes /\ c = entry[f].first BY ReadyState
  <2>2. c \in Clusters \cup {0} /\ n.size \in 0 .. MaxSize BY <2>1 DEF Nodes
  <2>3. end \in 0 .. MaxSize BY SizeAssumption
  <2> QED BY <2>1, <2>2, <2>3, SizeAssumption
<1>3. Need(end) \in Nat /\ Need(end) >= 1
  <2>1. end \in Nat /\ end >= 1 BY SizeAssumption
  <2> QED BY <2>1, NeedOne
<1>b. Need(n.size) \in Nat BY <1>2, NeedMono
<1>4. /\ c = 0 => chain = <<>>
      /\ c # 0 => /\ IsPath(table, chain) /\ Len(chain) \in Nat /\ Len(chain) >= 1 /\ chain[1] = c
                  /\ chain[Len(chain)] \in Clusters /\ table[chain[Len(chain)]] = EOC
  BY <1>1, <1>2, FileChain
<1>0. Holds(table, c, Need(n.size)) /\ Steady(w) /\ Good(w, NoPending)
  BY <1>2, StateHolds
<1>c. size = end \/ size = n.size OBVIOUS
<1>d. \A k \in Nat : Holds(table, c, k) <=> k <= Len(chain)
  <2>1. c \in Clusters \cup {0} /\ (c # 0 => table[c] # Free)
    <3>1. c # 0 => table[c] # Free BY <1>1, <1>2 DEF Sound
    <3> QED BY <1>2, <3>1
  <2> HIDE DEF c
  <2> QED BY <2>1, HoldsChain
<1> HIDE DEF chain, n, size
<1>5. Len(chain) \in Nat /\ (c = 0 => Len(chain) = 0) BY <1>4
<1>6. GrowPlan(f, end, from) =
        IF count <= 0 THEN Publish(NoPending, f, c, size)
        ELSE Allocate(q, tail, owner) \o Publish(held, f, first, size)
  BY DEF GrowPlan, chain, n, size
<1>7. CASE count <= 0
  <2>1. c # 0 /\ c \in Clusters BY <1>2, <1>3, <1>5, <1>7
  <2>2. Holds(w.table, c, Need(size))
    <3>1. Need(end) <= Len(chain) BY <1>3, <1>5, <1>7
    <3>2. Holds(table, c, Need(end)) BY <1>3, <1>d, <3>1
    <3> QED BY <1>0, <1>1, <1>c, <3>2
  <2>3. Good(w, NoPending) /\ w.node = node /\ w.entry = entry /\ Steady(w) /\ Fit(w, NoPending)
    BY <1>0, <1>1, FitNone
  <2> HIDE DEF w, c
  <2>4. \E z : Goes(FitSteps, w, Publish(NoPending, f, c, size), z)
    BY <1>2, <2>1, <2>2, <2>3, PublishFit
  <2> QED BY <1>6, <1>7, <2>4 DEF w
<1>8. CASE ~(count <= 0)
  <2>1. count \in Nat /\ count >= 1 /\ count <= Cardinality({d \in Clusters : table[d] = Free})
        /\ count + Len(chain) = Need(end)
    BY <1>3, <1>5, <1>8 DEF chain, n
  <2>2. /\ q \in Seq(Clusters) /\ Len(q) = count
        /\ \A i \in 1 .. count : table[q[i]] = Free
        /\ \A i, j \in 1 .. count : q[i] = q[j] => i = j
    <3> HIDE DEF count
    <3> QED BY <2>1, FoundFree, Zenon
  <2> HIDE DEF count, q
  <2>3. tail \in Clusters \cup {0} /\ (tail # 0 => table[tail] = EOC) /\ (tail = 0 <=> c = 0)
    BY <1>4, Numbers DEF Reached
  <2>4. Fresh(table, entry, q, tail)
    <3>1. q # <<>> BY <2>1, <2>2
    <3> QED BY <1>1, <2>2, <2>3, <3>1 DEF Fresh
  <2>5. OwnerFor(owner, tail)
    <3>1. CASE c = 0 BY <2>3, <3>1, OwnerTypes DEF OwnerFor
    <3>2. CASE c # 0 BY <2>3, <3>2, OwnerTypes DEF OwnerFor
    <3> QED BY <3>1, <3>2
  <2>0. tail # 0 => chain[Len(chain)] = tail BY DEF Reached
  <2>a. /\ owner.kind \in {"tail", "entry"} /\ (owner.kind = "tail" => owner.at = tail)
        /\ c # 0 => owner.kind = "tail"
        /\ c = 0 => owner = EntryOf(f)
    <3> HIDE DEF tail
    <3> QED BY DEF EntryOf, AtTail
  <2> HIDE DEF tail, owner
  <2> DEFINE L == {tail} \ {0}
             v == AllocWorld(w, q, 1, L)
             A == FitSteps
  <2>6. Goes(A, w, Allocate(q, tail, owner), v)
    <3>1. Allocates(A, w, q, tail, owner) BY <1>0, <1>1, <2>4, <2>5, AllocatesFit
    <3> HIDE DEF A
    <3> QED BY <1>1, <2>4, <2>5, <3>1, AllocateGoes
  <2>b. Continues(v.table, chain, q)
    <3>1. Fresh(w.table, w.entry, q, tail) BY <1>1, <2>4
    <3>2. IsPath(w.table, chain)
      <4>1. CASE c # 0 BY <1>1, <1>4, <4>1
      <4>2. CASE c = 0
        <5>1. chain = <<>> BY <1>4, <4>2
        <5> QED BY <5>1 DEF IsPath
      <4> QED BY <4>1, <4>2
    <3>3. IF chain = <<>> THEN tail = 0 ELSE chain[Len(chain)] = tail
      <4>1. c # 0 => chain # <<>> BY <1>4
      <4> QED BY <1>4, <2>0, <2>3, <4>1
    <3>4. Good(w, NoPending) BY <1>0
    <3> HIDE DEF w
    <3> QED BY <3>1, <3>2, <3>3, <3>4, GrownPath, Zenon
  <2>7. 1 \in 1 .. Len(q) + 1 /\ 1 <= Len(q) /\ L \in SUBSET ({tail} \ {0}) /\ 1 \in 1 .. Len(q)
    BY <2>1, <2>2
  <2> HIDE DEF L
  <2>8. Good(v, NoPending) /\ Good(v, held) BY <1>1, <2>4, <2>5, <2>7, AllocGood
  <2>9. v.table = Allocated(table, q, 1, L) /\ v.entry = entry /\ v.node = node
    BY <1>1 DEF AllocWorld
  <2>10. /\ v.table[q[1]] = After(q, 1) /\ LinkedBy(v.table, entry, q[1], L, {})
    <3> DEFINE u == Allocated(table, q, 1, L)
    <3>1. /\ \A i \in 1 .. Len(q) : u[q[i]] = IF i < 1 THEN Free ELSE After(q, i)
          /\ 1 <= Len(q) => LinkedBy(u, entry, q[1], L, {})
      BY <2>4, <2>7, AllocatedFacts
    <3> HIDE DEF u
    <3> QED BY <2>7, <2>9, <3>1 DEF u
  <2>11. q[1] \in Clusters /\ After(q, 1) # Free
    <3>1. q[1] \in Clusters BY <2>2, <2>7
    <3>2. 1 # Len(q) => 1 + 1 \in 1 .. Len(q) BY <2>1, <2>2
    <3>3. 1 # Len(q) => q[1 + 1] \in Clusters BY <2>2, <3>2
    <3> QED BY <3>1, <3>3, Numbers DEF After
  <2>12. Steady(v) /\ (\A x : Keeps(table, v.table, x)) /\ Sizes(CutAt(v.table, tail), v.entry, v.node, {})
    <3>1. 1 \in 1 .. Len(q) + 1 /\ L \in SUBSET ({tail} \ {0}) /\ (L # {} => 1 = 1) BY <2>7
    <3>2. Good(w, NoPending) /\ Fresh(w.table, w.entry, q, tail) /\ Steady(w) BY <1>0, <1>1, <2>4
    <3>3. w.table = table BY <1>1
    <3> HIDE DEF w
    <3> QED BY <3>1, <3>2, <3>3, AllocSteady, Zenon
  <2>13. held.owner = owner BY HeldFields
  <2> HIDE DEF v
  <2>14. Fit(v, held) BY <2>a, <2>12, <2>13, FitSteady
  <2>15. first \in Clusters /\ Holds(v.table, first, Need(size))
    <3> DEFINE r == chain \o q
    <3>1. IsPath(v.table, r) /\ Len(r) = Need(end) /\ r # <<>> /\ r[1] = IF chain = <<>> THEN q[1] ELSE chain[1]
      <4>1. Len(chain) + Len(q) = Need(end) BY <1>5, <2>1, <2>2
      <4> QED BY <2>b, <4>1 DEF Continues
    <3> HIDE DEF r
    <3>2. r[1] = first BY <1>4, <1>5, <3>1
    <3>3. Holds(v.table, first, Need(end)) BY <3>1, <3>2 DEF Holds, From
    <3>4. Holds(v.table, first, Need(n.size))
      <4>1. CASE c # 0
        <5>1. first = c /\ Keeps(table, v.table, c) BY <2>12, <4>1
        <5> HIDE DEF first, c
        <5> QED BY <1>0, <5>1, HoldsKept
      <4>2. CASE c = 0
        <5>1. c \notin Clusters BY <4>2, Numbers
        <5>2. Need(n.size) = 0 BY <1>0, <5>1, HoldsNone
        <5> QED BY <5>2 DEF Holds
      <4> QED BY <4>1, <4>2
    <3> QED BY <1>2, <1>c, <2>11, <3>3, <3>4
  <2>16. \E z : Goes(A, v, Publish(held, f, first, size), z)
    <3>1. CASE c = 0
      <4>1. first = q[1] /\ L = {} /\ held = Held(first, 0, EntryOf(f)) /\ entry[f].first = 0 /\ held.owner = EntryOf(f)
        BY <1>2, <2>3, <2>a, <2>13, <3>1 DEF L
      <4>2. v.table[first] # Free /\ LinkedBy(v.table, v.entry, first, {}, {})
        BY <2>9, <2>10, <2>11, <4>1
      <4> HIDE DEF held, first, c
      <4> QED BY <1>2, <2>8, <2>9, <2>12, <2>14, <2>15, <4>1, <4>2, PublishFit
    <3>2. CASE c # 0
      <4>1. first = entry[f].first BY <1>2, <3>2
      <4>2. held.owner.kind = "tail" BY <2>a, <2>13, <3>2
      <4> HIDE DEF held, first, c
      <4> QED BY <1>2, <2>8, <2>9, <2>12, <2>14, <2>15, <4>1, <4>2, PublishFit
    <3> QED BY <3>1, <3>2
  <2>17. PICK z : Goes(A, v, Publish(held, f, first, size), z) BY <2>16
  <2> DEFINE s == Allocate(q, tail, owner)
             r == Publish(held, f, first, size)
  <2>18. Goes(A, w, s, v) /\ Goes(A, v, r, z) BY <2>6, <2>17
  <2>19. GrowPlan(f, end, from) = s \o r BY <1>6, <1>8 DEF count, tail, owner, q
  <2> HIDE DEF s, r, w, A
  <2>20. Goes(A, w, s \o r, z) BY <2>18, GoesJoin
  <2> QED BY <2>19, <2>20 DEF w, A
<1> QED BY <1>7, <1>8

-----------------------------------------------------------------------------
(* Recovery keeps the sizes. *)

\* The node table after recovery.
Mended(n) ==
    /\ \A f \in Files : InStep(entry[f], n[f]) /\ (n[f] = node[f] \/ ~n[f].dirty)
    /\ pending.owner.kind = "cut" /\ Took(entry, pending.owner) => ~n[pending.owner.file].dirty

\* Recovery brings every node in step with its entry, with its size.
LEMMA RecoveredFit ==
  ASSUME Good(World, pending), Fit(World, pending)
  PROVE  Mended(Recovered(OwnerLinks(pending)))
<1> DEFINE p == pending
           o == p.owner
           owned == OwnerLinks(p)
           N == Recovered(owned)
<1>1. /\ table \in [Clusters -> Values] /\ entry \in [Files -> Entries] /\ node \in [Files -> Nodes]
      /\ NodeOK(table, entry, node, p) /\ p \in Pendings
      /\ World.table = table /\ World.entry = entry /\ World.node = node
  BY WorldFields DEF Good
<1>2. o \in Owners BY <1>1 DEF Pendings
<1>3. /\ o.kind \in {"none", "tail", "cut", "entry", "removed"}
      /\ o.kind \in {"cut", "entry", "removed"} => o.file \in Files
  BY <1>2, OwnerParts
<1>4. \A f \in Files : InStep(entry[f], node[f]) \/ Mends(World, p, f) BY <1>1 DEF Fit
<1>5. o.kind = "removed" => (owned <=> p.head # 0 /\ Links(o, p.head)) BY DEF OwnerLinks, IsTail
<1>6. owned \in BOOLEAN BY OwnerLinkType
<1> DEFINE g == o.file
<1>7. ASSUME NEW f \in Files, ~(o.kind \in {"cut", "entry", "removed"} /\ f = g) PROVE InStep(entry[f], node[f])
  BY <1>4, <1>7 DEF Mends
<1>8. ASSUME NEW k, N = [node EXCEPT ![g] = k], g \in Files, InStep(entry[g], k), ~k.dirty,
             \A f \in Files : f # g => InStep(entry[f], node[f])
      PROVE  (\A f \in Files : InStep(entry[f], N[f]) /\ (N[f] = node[f] \/ ~N[f].dirty)) /\ ~N[g].dirty
  BY <1>1, <1>8
<1> HIDE DEF owned, N
<1>9. CASE o.kind \in {"none", "tail"}
  <2>1. N = node BY <1>9 DEF N, Recovered
  <2>2. \A f \in Files : InStep(entry[f], node[f]) BY <1>7, <1>9
  <2>3. Mended(N) BY <1>9, <2>1, <2>2 DEF Mended
  <2> QED BY <2>3 DEF N, owned
<1>10. CASE o.kind = "cut"
  <2>1. g \in Files /\ \A f \in Files : f # g => InStep(entry[f], node[f]) BY <1>3, <1>7, <1>10
  <2>2. o.kind # "entry" /\ o.kind # "removed" BY <1>10
  <2>3. Shrunk(o) <=> Took(entry, o) BY DEF Shrunk, Took
  <2>4. InStep(entry[g], node[g]) \/ (Took(entry, o) /\ node[g].first = entry[g].first)
    BY <1>1, <1>4, <2>1, <2>2 DEF Mends
  <2>5. CASE Shrunk(o) /\ node[g].pinned
    <3> DEFINE k == CleanNode(node[g].first, o.size)
    <3>1. N = [node EXCEPT ![g] = k] BY <1>10, <2>5 DEF N, Recovered
    <3>2. node[g].first = entry[g].first BY <2>4, <2>5 DEF InStep
    <3>3. InStep(entry[g], k) /\ ~k.dirty BY <2>5, <3>2 DEF InStep, CleanNode, Shrunk
    <3> HIDE DEF k
    <3>4. (\A f \in Files : InStep(entry[f], N[f]) /\ (N[f] = node[f] \/ ~N[f].dirty)) /\ ~N[g].dirty
      BY <1>8, <2>1, <3>1, <3>3, Zenon
    <3>5. Mended(N) BY <3>4 DEF Mended
    <3> QED BY <3>5 DEF N, owned
  <2>6. CASE ~(Shrunk(o) /\ node[g].pinned)
    <3>1. N = node BY <1>10, <2>6 DEF N, Recovered
    <3>2. InStep(entry[g], node[g])
      <4>1. CASE Shrunk(o) BY <2>6, <4>1 DEF InStep
      <4>2. CASE ~Shrunk(o) BY <2>3, <2>4, <4>2
      <4> QED BY <4>1, <4>2
    <3>3. Shrunk(o) => ~node[g].dirty
      <4>1. NodeFits(table, entry[g], node[g], p, g) BY <1>1, <2>1 DEF NodeOK
      <4> QED BY <2>6, <4>1 DEF NodeFits
    <3>4. \A f \in Files : InStep(entry[f], N[f]) BY <2>1, <3>1, <3>2
    <3>5. Mended(N) BY <2>3, <3>1, <3>3, <3>4 DEF Mended
    <3> QED BY <3>5 DEF N, owned
  <2> QED BY <2>5, <2>6
<1>11. CASE o.kind = "entry"
  <2>1. g \in Files /\ \A f \in Files : f # g => InStep(entry[f], node[f]) BY <1>3, <1>7, <1>11
  <2>2. o.kind # "cut" /\ o.kind # "removed" BY <1>11
  <2>4. InStep(entry[g], node[g]) \/ (entry[g].used /\ node[g].first # entry[g].first)
    BY <1>1, <1>4, <2>1, <2>2 DEF Mends
  <2>5. CASE node[g].pinned /\ entry[g].used /\ node[g].first # entry[g].first
    <3> DEFINE k == CleanNode(entry[g].first, entry[g].size)
    <3>1. N = [node EXCEPT ![g] = k] BY <1>11, <2>5 DEF N, Recovered
    <3>3. InStep(entry[g], k) /\ ~k.dirty BY <2>5 DEF InStep, CleanNode
    <3> HIDE DEF k
    <3>4. \A f \in Files : InStep(entry[f], N[f]) /\ (N[f] = node[f] \/ ~N[f].dirty)
      BY <1>8, <2>1, <3>1, <3>3, Zenon
    <3>5. Mended(N) BY <2>2, <3>4 DEF Mended
    <3> QED BY <3>5 DEF N, owned
  <2>6. CASE ~(node[g].pinned /\ entry[g].used /\ node[g].first # entry[g].first)
    <3>1. N = node BY <1>11, <2>6 DEF N, Recovered
    <3>2. InStep(entry[g], node[g]) BY <2>4, <2>6 DEF InStep
    <3>4. \A f \in Files : InStep(entry[f], N[f]) BY <2>1, <3>1, <3>2
    <3>5. Mended(N) BY <2>2, <3>1, <3>4 DEF Mended
    <3> QED BY <3>5 DEF N, owned
  <2> QED BY <2>5, <2>6
<1>12. CASE o.kind = "removed"
  <2>1. g \in Files /\ \A f \in Files : f # g => InStep(entry[f], node[f]) BY <1>3, <1>7, <1>12
  <2>2. o.kind # "cut" /\ o.kind # "entry" BY <1>12
  <2>4. InStep(entry[g], node[g]) \/ (~entry[g].used /\ node[g].first = p.head)
    BY <1>1, <1>4, <2>1, <2>2 DEF Mends
  <2>7. ~entry[g].used => ~owned BY <1>5, <1>12 DEF Links
  <2>5. CASE ~owned /\ node[g].pinned /\ node[g].first = p.head
    <3> DEFINE k == NoNode
    <3>1. N = [node EXCEPT ![g] = k] BY <1>12, <2>5 DEF N, Recovered
    <3>3. InStep(entry[g], k) /\ ~k.dirty BY DEF InStep, NoNode
    <3> HIDE DEF k
    <3>4. \A f \in Files : InStep(entry[f], N[f]) /\ (N[f] = node[f] \/ ~N[f].dirty)
      BY <1>8, <2>1, <3>1, <3>3, Zenon
    <3>5. Mended(N) BY <2>2, <3>4 DEF Mended
    <3> QED BY <3>5 DEF N, owned
  <2>6. CASE ~(~owned /\ node[g].pinned /\ node[g].first = p.head)
    <3>1. N = node BY <1>12, <2>6 DEF N, Recovered
    <3>2. InStep(entry[g], node[g]) BY <2>4, <2>6, <2>7 DEF InStep
    <3>4. \A f \in Files : InStep(entry[f], N[f]) BY <2>1, <3>1, <3>2
    <3>5. Mended(N) BY <2>2, <3>1, <3>4 DEF Mended
    <3> QED BY <3>5 DEF N, owned
  <2> QED BY <2>5, <2>6
<1> QED BY <1>3, <1>9, <1>10, <1>11, <1>12

\* Then the sizes are steady, also when the chain is to be cut.
LEMMA MendedFit ==
  ASSUME Good(World, pending), Fit(World, pending),
         NEW w \in Worlds, w.table = table, w.entry = entry, Mended(w.node)
  PROVE  /\ Steady(w) /\ Fit(w, pending)
         /\ Severed(entry, pending.owner) => Sizes(CutAt(table, pending.owner.at), entry, w.node, {})
<1> DEFINE o == pending.owner
           n == w.node
<1>1. World.table = table /\ World.entry = entry /\ World.node = node /\ pending \in Pendings BY WorldFields DEF Good
<1>2. /\ Sizes(table, entry, node, {})
      /\ Severed(entry, o) => Sizes(CutAt(table, o.at), entry, node, Cutters(o))
      /\ o.kind = "cut" /\ node[o.file].dirty => node[o.file].size # o.size
  BY <1>1 DEF Fit
<1>3. /\ \A f \in Files : InStep(entry[f], n[f]) /\ (n[f] = node[f] \/ ~n[f].dirty)
      /\ o.kind = "cut" /\ Took(entry, o) => ~n[o.file].dirty
  BY DEF Mended
<1>5. o.kind = "cut" => o.file \in Files
  <2>1. o \in Owners BY <1>1 DEF Pendings
  <2> QED BY <2>1, OwnerParts
<1> HIDE DEF o, n
<1>4. ASSUME NEW t, NEW X, Sizes(t, entry, node, X), \A f \in X : f \in Files => ~n[f].dirty
      PROVE  Sizes(t, entry, n, {})
  <2> SUFFICES ASSUME NEW f \in Files, entry[f].used
               PROVE  /\ Holds(t, entry[f].first, Need(entry[f].size))
                      /\ n[f].dirty => Holds(t, n[f].first, Need(n[f].size))
    BY DEF Sizes
  <2>1. /\ Holds(t, entry[f].first, Need(entry[f].size))
        /\ node[f].dirty /\ f \notin X => Holds(t, node[f].first, Need(node[f].size))
    BY <1>4 DEF Sizes
  <2>2. n[f] = node[f] \/ ~n[f].dirty BY <1>3
  <2> QED BY <1>4, <2>1, <2>2
<1>6. Sizes(table, entry, n, {}) BY <1>2, <1>4
<1>7. Severed(entry, o) => Sizes(CutAt(table, o.at), entry, n, {})
  <2> SUFFICES ASSUME Severed(entry, o) PROVE Sizes(CutAt(table, o.at), entry, n, {}) OBVIOUS
  <2>1. \A f \in Cutters(o) : f \in Files => ~n[f].dirty BY <1>3 DEF Severed, Cutters
  <2> QED BY <1>2, <1>4, <2>1
<1>8. Steady(w) BY <1>3, <1>6 DEF Steady, n
<1>9. o.kind = "cut" /\ n[o.file].dirty => n[o.file].size # o.size BY <1>2, <1>3, <1>5
<1>10. Severed(entry, o) => Sizes(CutAt(table, o.at), entry, n, Cutters(o)) BY <1>7 DEF Sizes
<1>11. Fit(w, pending) BY <1>3, <1>6, <1>9, <1>10 DEF Fit, o, n
<1> QED BY <1>7, <1>8, <1>11 DEF o, n

\* reclaim frees what is in no file.
LEMMA ReclaimFit ==
  ASSUME NEW w, Good(w, NoPending), Steady(w), NEW A, NEW x, NEW h, CutOff(table, w.table, w.entry, A, x, h)
  PROVE  \E z : Goes(FitSteps, w, ReclaimAll(h, x), z) /\ Steady(z)
<1> DEFINE q == Chain(table, x)
           S == Prefix(q, Len(q))
           d == [c \in {q[i] : i \in DOMAIN q} |-> Free]
           r == Chain(Patched(table, d), h)
           v == Freed(w, q, Len(q))
<1>1. Loose(w.table, w.entry, q) /\ Kept(w.table, w.entry, q, h) BY ExtraLoose
<1>2. Loose(FreedTable(w.table, S), w.entry, Chain(FreedTable(table, S), h)) BY HeadLoose
<1>3. q \in Seq(Clusters) /\ DOMAIN q = 1 .. Len(q) BY <1>1 DEF Loose, IsPath
<1>0. table \in [Clusters -> Values] BY DEF CutOff
<1>4. Patched(table, d) = FreedTable(table, S)
  <2> DEFINE D == {q[i] : i \in DOMAIN q}
  <2>1. D = S /\ DOMAIN d = D BY <1>3 DEF Prefix
  <2>2. \A c \in D : d[c] = Free OBVIOUS
  <2> HIDE DEF d, D, S
  <2> QED BY <2>1, <2>2 DEF Patched, FreedTable
<1>5. ReclaimAll(h, x) = Reclaim(q, h) \o Reclaim(r, 0) BY DEF ReclaimAll
<1> HIDE DEF q, d
<1>6. Frees(Reclaim(q, h), q, h) BY <1>3, ReclaimFrees
<1>7. Goes(FitSteps, w, Reclaim(q, h), v) /\ Steady(v) BY <1>1, <1>6, FreesFit
<1>8. Good(v, NoPending) BY <1>1, <1>6, FreesRun
<1>9. v.table = FreedTable(w.table, S) /\ v.entry = w.entry BY DEF Freed
<1> HIDE DEF v, S
<1>10. Loose(v.table, v.entry, r) BY <1>2, <1>4, <1>9
<1> HIDE DEF r
<1>11. r \in Seq(Clusters) BY <1>10 DEF Loose, IsPath
<1>12. Frees(Reclaim(r, 0), r, 0) BY <1>11, ReclaimFrees
<1>13. Kept(v.table, v.entry, r, 0) BY DEF Kept
<1> DEFINE z == Freed(v, r, Len(r))
<1>14. Goes(FitSteps, v, Reclaim(r, 0), z) /\ Steady(z) BY <1>7, <1>8, <1>10, <1>12, <1>13, FreesFit
<1> HIDE DEF z
<1>15. Goes(FitSteps, w, Reclaim(q, h) \o Reclaim(r, 0), z) BY <1>7, <1>14, GoesJoin
<1> QED BY <1>5, <1>14, <1>15

\* Recovery keeps the sizes, and may itself be cut.
LEMMA RecoverFit ==
  ASSUME Good(World, pending), Fit(World, pending),
         NEW w, w \in Worlds, w.table = table, w.entry = entry,
         \A f \in Files : Agree(entry[f], w.node[f]), Mended(w.node),
         OwnerLinks(pending) => IsTail(pending.owner) /\ (pending.owner.kind = "cut" => Took(entry, pending.owner))
  PROVE  \E z : Goes(FitSteps, w, Finished(RecoverPlan(pending)), z)
<1> DEFINE p == pending
           o == p.owner
           x == p.extra
           h == p.head
<1>1. /\ table \in [Clusters -> Values] /\ entry \in [Files -> Entries] /\ p \in Pendings
      /\ Sound(table, entry) /\ PendOK(table, entry, p)
  BY WorldFields DEF Good
<1>2. Unowned(p) \in Pendings /\ NoPending \in Pendings BY <1>1, UnownedFields, PendingType
<1>3. ASSUME NEW t, NEW r \in Pendings PROVE NodeOK(t, entry, w.node, r) BY AgreeFits DEF NodeOK
<1>4. Good(w, p) /\ Good(w, NoPending)
  <2>1. PendOK(table, entry, NoPending) BY NonePending
  <2> QED BY <1>1, <1>2, <1>3, <2>1 DEF Good
<1>7. /\ Steady(w) /\ Fit(w, p)
      /\ Severed(entry, o) => Sizes(CutAt(table, o.at), entry, w.node, {})
  BY MendedFit
<1>5. CASE ~OwnerLinks(p)
  <2>1. CutOff(table, w.table, w.entry, {}, x, h) BY <1>5, UnownedCut
  <2> DEFINE s == ReclaimAll(h, x)
  <2>2. RecoverPlan(p) = <<>> \o s BY <1>5 DEF RecoverPlan
  <2> HIDE DEF x, h
  <2>3. PICK z : Goes(FitSteps, w, s, z) /\ Steady(z) BY <1>4, <1>7, <2>1, ReclaimFit
  <2> HIDE DEF s
  <2>4. <<>> \o s = s
    <3>1. s \in Seq(AllSteps) BY <2>3 DEF Goes
    <3> QED BY <3>1
  <2>5. Goes(FitSteps, w, Finished(s), z) BY <2>3, FitsFinish
  <2> QED BY <2>2, <2>4, <2>5
<1>6. CASE OwnerLinks(p)
  <2> DEFINE at == o.at
             d == [y \in {at} |-> EOC]
             u == Patched(table, d)
             v == [table |-> u, entry |-> entry, node |-> w.node]
  <2>0. IsTail(o) /\ Severed(entry, o) BY <1>6 DEF IsTail, Severed
  <2>1. at \in Clusters /\ u \in [Clusters -> Values] /\ u[at] = EOC /\ CutOff(table, u, entry, {at}, x, h)
    BY <1>6, OwnedCut
  <2>2. PendOK(u, entry, p) /\ PendOK(u, entry, Unowned(p))
    <3>1. IsTail(p.owner) => u[at] = EOC \/ p.extra = 0 BY <2>1
    <3> HIDE DEF u
    <3> QED BY <1>1, <2>1, <3>1, CutPending
  <2>3. {at} \in Groups /\ d \in [{at} -> Values] BY <2>1, SingleGroup, Numbers, Zenon
  <2>a. u = CutAt(table, at) BY <2>1 DEF Patched, CutAt
  <2>b. table[at] # Free BY <2>1 DEF CutOff
  <2>c. /\ \A f \in Files : InStep(entry[f], w.node[f])
        /\ o.kind = "cut" => ~w.node[o.file].dirty
    BY <1>6 DEF Mended
  <2>d. Sizes(CutAt(table, at), entry, w.node, {}) BY <1>7, <2>0
  <2> HIDE DEF u, d, at
  <2>4. v.table = u /\ v.entry = entry /\ v.node = w.node OBVIOUS
  <2>5. v \in Worlds BY <1>1, <2>1 DEF Worlds
  <2>e. v = [table |-> Patched(w.table, d), entry |-> w.entry, node |-> w.node] BY DEF u
  <2> HIDE DEF v
  <2>6. Sound(u, entry) BY <2>1 DEF CutOff
  <2>7. Good(v, p) /\ Good(v, Unowned(p)) /\ Good(v, NoPending)
    <3>1. PendOK(u, entry, NoPending) BY NonePending
    <3> QED BY <1>1, <1>2, <1>3, <2>2, <2>4, <2>5, <2>6, <3>1 DEF Good
  <2> DEFINE a == FatStep(p, d, Unowned(p))
  <2>8. Safe(w, a) /\ Landed(w, a) = v
    <3> DEFINE r == Unowned(p)
    <3>2. Good(v, r) BY <2>7
    <3> HIDE DEF r, p
    <3>3. Safe(w, FatStep(p, d, r)) /\ Landed(w, FatStep(p, d, r)) = v
      BY <1>4, <2>3, <2>7, <2>e, <3>2, FatStepSafe
    <3> QED BY <3>3 DEF r
  <2>9. CutOff(table, v.table, v.entry, {at}, x, h) BY <2>1, <2>4
  <2>10. Steady(v) BY <2>a, <2>c, <2>d, <2>4 DEF Steady
  <2>11. Fit(v, Unowned(p))
    <3>1. Unowned(p).owner.kind = "none" BY <1>1, UnownedFields, PendingType
    <3> QED BY <2>10, <3>1, SteadyFit
  <2>12. Fit(v, p)
    <3>1. CutAt(v.table, o.at) = CutAt(table, at) BY <2>a, <2>4, CutTwice DEF at
    <3>2. Sizes(CutAt(v.table, o.at), v.entry, v.node, {}) BY <2>d, <2>4, <3>1
    <3>3. Sizes(CutAt(v.table, o.at), v.entry, v.node, Cutters(o)) BY <3>2 DEF Sizes
    <3> HIDE DEF at
    <3> QED BY <2>c, <2>4, <2>10, <3>3 DEF Fit, Steady
  <2>13. Saves(w, v)
    <3>1. v.table = CutAt(w.table, at) /\ v.entry = w.entry /\ w.table[at] # Free BY <2>a, <2>b, <2>4
    <3>2. Sizes(v.table, w.entry, w.node, {}) BY <2>a, <2>d, <2>4
    <3> QED BY <3>1, <3>2, SavesCut
  <2>14. <<w, a>> \in FitSteps
    <3> DEFINE r == Unowned(p)
    <3>1. a = FatStep(p, d, r) /\ a \in AllSteps BY <2>8 DEF Safe
    <3>2. Fit(v, r) BY <2>11
    <3> HIDE DEF r, a, p
    <3>3. FatStep(p, d, r) \in AllSteps /\ Landed(w, FatStep(p, d, r)) = v BY <2>8, <3>1
    <3>4. <<w, FatStep(p, d, r)>> \in FitSteps BY <1>7, <2>12, <2>13, <3>2, <3>3, FatFit
    <3> QED BY <3>1, <3>4
  <2> DEFINE s == ReclaimAll(h, x)
  <2>16. RecoverPlan(p) = <<a>> \o s BY <1>6 DEF RecoverPlan, d, at
  <2> HIDE DEF x, h, a
  <2>19. PICK z : Goes(FitSteps, v, s, z) /\ Steady(z) BY <2>7, <2>9, <2>10, ReclaimFit
  <2> HIDE DEF s
  <2>20. Goes(FitSteps, w, <<a>>, v) BY <2>8, <2>14, TightFirst
  <2>21. Goes(FitSteps, w, <<a>> \o s, z) BY <2>19, <2>20, GoesJoin
  <2>22. Goes(FitSteps, w, Finished(<<a>> \o s), z) BY <2>19, <2>21, FitsFinish
  <2> QED BY <2>16, <2>22
<1> QED BY <1>5, <1>6

-----------------------------------------------------------------------------
(* The steps of the specification keep the sizes. *)

\* The inductive invariant: what recovery will leave is steady, wherever the
\* running operation is cut.
SizeInv ==
    /\ ChainInv
    /\ Fit(World, pending)
    /\ \E z : Goes(FitSteps, World, steps, z)

\* An operation that starts with a plan that fits.
LEMMA StartFit ==
  ASSUME SizeInv, NEW s, Start(s), ChainInv', \E z : Goes(FitSteps, World, s, z)
  PROVE  SizeInv'
<1>1. World' = World /\ pending' = pending /\ steps' = s
  BY DEF Start, World
<1>2. PICK z : Goes(FitSteps, World, s, z) OBVIOUS
<1>3. Goes(FitSteps, World', steps', z) BY <1>1, <1>2
<1>4. Fit(World', pending') BY <1>1 DEF SizeInv
<1> QED BY <1>3, <1>4 DEF SizeInv

\* Nothing runs after the step.
LEMMA IdleFit ==
  ASSUME ChainInv', steps' = <<>>, Fit(World', pending')
  PROVE  SizeInv'
<1>1. World' \in Worlds BY DEF ChainInv, Good
<1>2. Goes(FitSteps, World', steps', World') BY <1>1, GoesNone
<1> QED BY <1>2 DEF SizeInv

\* After prepare nothing is left to mend.
LEMMA ReadySteady ==
  ASSUME SizeInv, Ready
  PROVE  Good(World, NoPending) /\ Steady(World)
<1>1. pending = NoPending /\ Fit(World, pending) /\ ChainInv BY DEF Ready, SizeInv
<1> QED BY <1>1, FitNone, ReadyGood

\* create keeps the invariant, ...
LEMMA CreateSize ==
  ASSUME SizeInv, NEW f \in Files, Create(f), UNCHANGED fat12
  PROVE  SizeInv'
<1> DEFINE s == <<EntryStep(NoPending, f, Entry(0, 0), CleanNode(0, 0), NoPending)>>
<1>1. Start(s) /\ Ready /\ ~entry[f].used BY DEF Create
<1>2. \E z : Goes(FitSteps, World, s, z) BY <1>1, ReadySteady, CreateFit
<1>3. ChainInv' BY CreateKeeps DEF SizeInv
<1> HIDE DEF s
<1> QED BY <1>1, <1>2, <1>3, StartFit

\* ... remove_entry, ...
LEMMA UnlinkSize ==
  ASSUME SizeInv, NEW f \in Files, Unlink(f), UNCHANGED fat12
  PROVE  SizeInv'
<1> DEFINE first == State(f).first
           held == IF first = 0 THEN NoPending ELSE Held(first, 0, Removed(f))
           s == <<EntryStep(held, f, NoEntry, NoNode, held)>> \o Finished(FreeChain(Chain(table, first)))
<1>1. Start(s) /\ Ready /\ entry[f].used BY DEF Unlink
<1>2. \E z : Goes(FitSteps, World, s, z) BY <1>1, ReadySteady, UnlinkFit
<1>3. ChainInv' BY UnlinkKeeps DEF SizeInv
<1> HIDE DEF s
<1> QED BY <1>1, <1>2, <1>3, StartFit

\* ... close, fsync and sync, ...
LEMMA FlushSize ==
  ASSUME SizeInv, NEW f \in Files, FlushNode(f), UNCHANGED fat12
  PROVE  SizeInv'
<1> DEFINE s == <<Store(pending, f, node[f].first, node[f].size, pending)>>
<1>1. Start(s) /\ node[f].dirty /\ entry[f].used BY DEF FlushNode
<1>2. Good(World, pending) /\ Fit(World, pending) BY DEF SizeInv, ChainInv
<1>3. \E z : Goes(FitSteps, World, s, z) BY <1>1, <1>2, FlushFit
<1>4. ChainInv' BY FlushKeeps DEF SizeInv
<1> HIDE DEF s
<1> QED BY <1>1, <1>3, <1>4, StartFit

\* ... write, ...
LEMMA GrowSize ==
  ASSUME SizeInv, NEW f \in Files, NEW end \in 1 .. MaxSize, Grow(f, end), UNCHANGED fat12
  PROVE  SizeInv'
<1>1. Ready /\ entry[f].used /\ Good(World, NoPending) /\ Steady(World)
  BY ReadySteady DEF Grow
<1>2. PICK from \in Clusters :
        /\ Start(GrowPlan(f, end, from))
        /\ Need(end) - Len(Chain(table, State(f).first)) <= Cardinality({c \in Clusters : table[c] = Free})
  BY <1>1, GrowStarts, Zenon DEF SizeInv
<1>3. \E z : Goes(FitSteps, World, GrowPlan(f, end, from), z) BY <1>1, <1>2, GrowFit
<1>4. ChainInv' BY GrowKeeps DEF SizeInv
<1> QED BY <1>2, <1>3, <1>4, StartFit

\* ... and truncate.
LEMMA ShrinkSize ==
  ASSUME SizeInv, NEW f \in Files, NEW len \in 0 .. MaxSize - 1, Shrink(f, len), UNCHANGED fat12
  PROVE  SizeInv'
<1>1. Ready /\ entry[f].used /\ len < State(f).size BY DEF Shrink
<1>2. Good(World, NoPending) /\ Steady(World) BY <1>1, ReadySteady
<1>3. Start(ShrinkPlan(f, len)) BY Zenon DEF Shrink, ShrinkPlan
<1>4. len \in 0 .. MaxSize BY SizeAssumption
<1>5. \E z : Goes(FitSteps, World, ShrinkPlan(f, len), z) BY <1>1, <1>2, <1>4, ShrinkFit
<1>6. ChainInv' BY ShrinkKeeps DEF SizeInv
<1> QED BY <1>3, <1>5, <1>6, StartFit

\* A node takes what its entry records, or goes.
LEMMA PinSize ==
  ASSUME SizeInv, ChainInv', NEW f \in Files, NEW k, ~k.dirty, InStep(entry[f], k), Idle,
         node' = [node EXCEPT ![f] = k], UNCHANGED <<table, entry, pending, steps>>
  PROVE  SizeInv'
<1> DEFINE w == World
           v == World'
           o == pending.owner
<1>1. Good(w, pending) /\ Fit(w, pending) BY DEF SizeInv, ChainInv
<1>2. pending \in Pendings /\ node \in [Files -> Nodes] BY <1>1, WorldFields DEF Good
<1>3. /\ v.table = w.table /\ v.entry = w.entry /\ w.entry = entry /\ w.node = node
      /\ v.node = [node EXCEPT ![f] = k]
  BY DEF World
<1>4. v.node[f] = k /\ \A g \in Files : g # f => v.node[g] = node[g] BY <1>2, <1>3
<1>5. o.kind = "cut" => o.file \in Files
  <2>1. o \in Owners BY <1>2 DEF Pendings
  <2> QED BY <2>1, OwnerParts
<1> HIDE DEF w, v
<1>6. ASSUME NEW t, NEW X, Sizes(t, w.entry, w.node, X) PROVE Sizes(t, v.entry, v.node, X)
  <2>1. \A g \in Files : v.node[g].dirty => v.node[g] = w.node[g] BY <1>3, <1>4
  <2> QED BY <1>3, <1>6, <2>1 DEF Sizes
<1>7. ASSUME NEW g \in Files PROVE InStep(v.entry[g], v.node[g]) \/ Mends(v, pending, g)
  <2>1. CASE g = f BY <1>3, <1>4, <2>1
  <2>2. CASE g # f
    <3>1. InStep(w.entry[g], w.node[g]) \/ Mends(w, pending, g) BY <1>1 DEF Fit
    <3> QED BY <1>3, <1>4, <2>2, <3>1 DEF Mends
  <2> QED BY <2>1, <2>2
<1>8. o.kind = "cut" /\ v.node[o.file].dirty => v.node[o.file].size # o.size
  <2> SUFFICES ASSUME o.kind = "cut", v.node[o.file].dirty PROVE v.node[o.file].size # o.size OBVIOUS
  <2>1. v.node[o.file] = w.node[o.file] BY <1>3, <1>4, <1>5
  <2> QED BY <1>1, <2>1 DEF Fit
<1>9. Sizes(v.table, v.entry, v.node, {}) BY <1>1, <1>3, <1>6, Zenon DEF Fit
<1>10. Severed(v.entry, o) => Sizes(CutAt(v.table, o.at), v.entry, v.node, Cutters(o))
  BY <1>1, <1>3, <1>6, Zenon DEF Fit
<1>11. Fit(v, pending) BY <1>7, <1>8, <1>9, <1>10 DEF Fit
<1>12. steps' = <<>> /\ pending' = pending BY DEF Idle
<1>13. Fit(World', pending') BY <1>11, <1>12 DEF v
<1> QED BY <1>12, <1>13, IdleFit

\* lookup keeps the invariant, ...
LEMMA LookupSize ==
  ASSUME SizeInv, NEW f \in Files, Lookup(f), UNCHANGED fat12
  PROVE  SizeInv'
<1>1. ChainInv' BY LookupKeeps DEF SizeInv
<1> DEFINE k == CleanNode(entry[f].first, entry[f].size)
<1>2. ~k.dirty /\ InStep(entry[f], k) BY DEF CleanNode, Lookup, InStep
<1>3. Idle /\ node' = [node EXCEPT ![f] = k] /\ UNCHANGED <<table, entry, pending, steps>> BY DEF Lookup
<1> HIDE DEF k
<1> QED BY <1>1, <1>2, <1>3, PinSize, Zenon

\* ... and forget.
LEMMA ForgetSize ==
  ASSUME SizeInv, NEW f \in Files, Forget(f), UNCHANGED fat12
  PROVE  SizeInv'
<1>1. ChainInv' BY ForgetKeeps DEF SizeInv
<1> DEFINE k == NoNode
<1>2. ~k.dirty /\ InStep(entry[f], k) BY DEF NoNode, InStep
<1>3. Idle /\ node' = [node EXCEPT ![f] = k] /\ UNCHANGED <<table, entry, pending, steps>> BY DEF Forget
<1> HIDE DEF k
<1> QED BY <1>1, <1>2, <1>3, PinSize, Zenon

\* Recovery keeps the invariant.
LEMMA RecoverSize ==
  ASSUME SizeInv, Recover, UNCHANGED fat12
  PROVE  SizeInv'
<1> DEFINE p == pending
           o == p.owner
           owned == OwnerLinks(p)
           halt == (o.kind = "cut" /\ ~Shrunk(o)) \/ (owned /\ ~IsTail(o))
           s == IF halt THEN <<>> ELSE RecoverPlan(p)
           w == World'
<1>1. /\ node' = Recovered(owned) /\ steps' = Finished(s) /\ issued' = FALSE
      /\ pending' = IF s = <<>> THEN NoPending ELSE IF owned THEN p ELSE Unowned(p)
      /\ table' = table /\ entry' = entry
  BY DEF Recover, OwnerLinks, IsTail, RecoverPlan, Unowned
<1>2. Good(World, p) /\ p \in Pendings /\ Fit(World, p) BY DEF SizeInv, ChainInv, Good
<1>3. /\ table \in [Clusters -> Values] /\ entry \in [Files -> Entries] /\ node \in [Files -> Nodes]
      /\ World.table = table /\ World.entry = entry /\ World.node = node
  BY <1>2, WorldFields
<1>4. owned \in BOOLEAN BY OwnerLinkType
<1>5. o.kind = "removed" => (owned <=> p.head # 0 /\ Links(o, p.head)) BY DEF OwnerLinks, IsTail
<1>15. ChainInv' BY RecoverKeeps DEF SizeInv
<1>8. Mended(node') BY <1>1, <1>2, RecoveredFit
<1> HIDE DEF owned
<1>6. node' \in [Files -> Nodes] /\ \A f \in Files : Agree(entry[f], node'[f])
  BY <1>1, <1>2, <1>4, <1>5, RecoveredAgrees
<1>7. w.table = table /\ w.entry = entry /\ w.node = node' /\ w \in Worlds
  BY <1>1, <1>3, <1>6 DEF World, Worlds
<1>10. w = World' OBVIOUS
<1> HIDE DEF w
<1>9. Steady(w) /\ Fit(w, p) BY <1>2, <1>7, <1>8, MendedFit
<1>14. \A r \in Pendings : Fit(w, NoPending) /\ Fit(w, Unowned(r))
  <2> TAKE r \in Pendings
  <2>1. Unowned(r).owner.kind = "none" BY UnownedFields, PendingType
  <2> QED BY <1>9, <2>1, FitNone, SteadyFit
<1>13. Fit(World', pending') BY <1>1, <1>2, <1>4, <1>9, <1>10, <1>14
<1>11. CASE halt
  <2>1. s = <<>> BY <1>11
  <2>2. Finished(<<>>) = <<>> BY DEF Finished
  <2>3. steps' = <<>> BY <1>1, <2>1, <2>2
  <2> QED BY <1>13, <1>15, <2>3, IdleFit
<1>12. CASE ~halt
  <2>1. s = RecoverPlan(p) BY <1>12
  <2>2. OwnerLinks(p) => IsTail(o) /\ (o.kind = "cut" => Took(entry, o))
    BY <1>12 DEF owned, Shrunk, Took
  <2>3. \A f \in Files : Agree(entry[f], w.node[f]) BY <1>6, <1>7
  <2>4. Mended(w.node) BY <1>7, <1>8
  <2>5. \E z : Goes(FitSteps, w, Finished(RecoverPlan(p)), z)
    <3> HIDE DEF halt, s
    <3> QED BY <1>2, <1>7, <2>2, <2>3, <2>4, RecoverFit
  <2>6. \E z : Goes(FitSteps, World', steps', z) BY <1>1, <1>10, <2>1, <2>5
  <2> QED BY <1>13, <1>15, <2>6 DEF SizeInv
<1> QED BY <1>11, <1>12

\* The first step of a running operation.
LEMMA FirstFit ==
  ASSUME SizeInv, ~Idle
  PROVE  /\ Fitting(World, steps[1]) /\ Head(steps) = steps[1]
         /\ \E z : Goes(FitSteps, Landed(World, steps[1]), Tail(steps), z)
<1>1. PICK z : Goes(FitSteps, World, steps, z) BY DEF SizeInv
<1>2. steps # <<>> BY DEF Idle
<1>3. <<World, steps[1]>> \in FitSteps /\ Goes(FitSteps, Landed(World, steps[1]), Tail(steps), z)
  BY <1>1, <1>2, GoesTail
<1>4. Fitting(World, steps[1]) BY <1>3 DEF FitSteps
<1>5. Head(steps) = steps[1] BY <1>1, <1>2 DEF Goes
<1> QED BY <1>3, <1>4, <1>5

\* Sending a write keeps the invariant, ...
LEMMA IssueSize ==
  ASSUME SizeInv, Issue, UNCHANGED fat12
  PROVE  SizeInv'
<1>1. ~Idle /\ pending' = Head(steps).pre BY DEF Issue
<1>2. Fitting(World, steps[1]) /\ Head(steps) = steps[1] BY <1>1, FirstFit
<1>3. World' = World /\ steps' = steps BY DEF Issue, World
<1>4. Fit(World', pending') BY <1>1, <1>2, <1>3 DEF Fitting
<1>5. \E z : Goes(FitSteps, World', steps', z) BY <1>3 DEF SizeInv
<1>6. ChainInv' BY IssueKeeps DEF SizeInv
<1> QED BY <1>4, <1>5, <1>6 DEF SizeInv

\* ... its success, ...
LEMMA LandSize ==
  ASSUME SizeInv, Land, UNCHANGED fat12
  PROVE  SizeInv' /\ Saves(World, World')
<1>1. ~Idle BY DEF SizeInv, ChainInv, Land, Idle
<1> DEFINE s == steps[1]
<1>2. Fitting(World, s) /\ Head(steps) = s BY <1>1, FirstFit
<1>3. PICK z : Goes(FitSteps, Landed(World, s), Tail(steps), z) BY <1>1, FirstFit
<1>4. World.table = table /\ World.entry = entry /\ World.node = node BY DEF World
<1> HIDE DEF s
<1>5. World' = Landed(World, s) BY <1>2, <1>4, Zenon DEF Land, Applied, Landed, World
<1>6. pending' = s.post /\ steps' = Tail(steps) BY <1>2 DEF Land
<1>7. Fit(World', pending') BY <1>2, <1>5, <1>6 DEF Fitting
<1>8. Goes(FitSteps, World', steps', z) BY <1>3, <1>5, <1>6
<1>9. ChainInv' BY LandKeeps DEF SizeInv
<1>10. Saves(World, World')
  <2>1. Landed(World, s).table = Written(World, s).table /\ Landed(World, s).entry = Written(World, s).entry
    BY DEF Landed, Written
  <2>2. Saves(World, Written(World, s)) BY <1>2 DEF Fitting
  <2>3. Saves(World, Landed(World, s)) BY <2>1, <2>2 DEF Saves
  <2> QED BY <1>5, <2>3
<1> QED BY <1>7, <1>8, <1>9, <1>10 DEF SizeInv

\* ... a cut before its effect, ...
LEMMA CutBeforeSize ==
  ASSUME SizeInv, CutBefore, UNCHANGED fat12
  PROVE  SizeInv'
<1>1. World' = World /\ pending' = pending /\ steps' = <<>> BY DEF CutBefore, World
<1>2. Fit(World', pending') BY <1>1 DEF SizeInv
<1>3. ChainInv' BY CutBeforeKeeps DEF SizeInv
<1> QED BY <1>1, <1>2, <1>3, IdleFit

\* ... and one after it, but for the writes that Windows names.
LEMMA CutAfterSize ==
  ASSUME Windows = {}, SizeInv, CutAfter, UNCHANGED fat12
  PROVE  SizeInv' /\ Saves(World, World')
<1>1. ~Idle /\ pending = steps[1].pre BY DEF SizeInv, ChainInv, CutAfter, Idle
<1> DEFINE s == steps[1]
<1>2. Fitting(World, s) /\ Head(steps) = s BY <1>1, FirstFit
<1>3. World.table = table /\ World.entry = entry /\ World.node = node BY DEF World
<1>4. pending = s.pre BY <1>1
<1> HIDE DEF s
<1>5. World' = Written(World, s) BY <1>2, <1>3 DEF CutAfter, Applied, Written, World
<1>6. pending' = pending /\ steps' = <<>> BY DEF CutAfter
<1>7. ~Late(World, s)
  <2>1. Early(s) = {} BY <1>2 DEF CutAfter
  <2> QED BY <1>3, <2>1 DEF Early, Late, Unseen
<1>8. Fit(World', pending') BY <1>2, <1>4, <1>5, <1>6, <1>7 DEF Fitting
<1>9. ChainInv' BY CutAfterKeeps DEF SizeInv
<1>10. Saves(World, World') BY <1>2, <1>5 DEF Fitting
<1> QED BY <1>6, <1>8, <1>9, <1>10, IdleFit

\* A mount forgets the sizes still to be written, and what is pending.
LEMMA RemountSize ==
  ASSUME SizeInv, Remount, UNCHANGED fat12
  PROVE  SizeInv'
<1>1. ChainInv' BY RemountKeeps DEF SizeInv
<1>2. /\ World'.table = table /\ World'.entry = entry
      /\ World'.node = [f \in Files |-> NoNode]
      /\ pending' = NoPending /\ steps' = <<>>
  BY DEF Remount, World
<1>3. Sizes(table, entry, node, {}) BY DEF SizeInv, Fit, World
<1>4. \A f \in Files : ~World'.node[f].dirty /\ ~World'.node[f].pinned BY <1>2 DEF NoNode
<1> DEFINE v == World'
<1>5. v.table = table /\ v.entry = entry BY <1>2
<1> HIDE DEF v
<1>6. \A f \in Files : ~v.node[f].dirty /\ ~v.node[f].pinned BY <1>4 DEF v
<1>7. Sizes(v.table, v.entry, v.node, {}) BY <1>3, <1>5, <1>6 DEF Sizes
<1>8. Steady(v) BY <1>6, <1>7 DEF Steady, InStep
<1>9. Fit(v, NoPending) BY <1>8, FitNone
<1>10. Fit(World', pending') BY <1>2, <1>9 DEF v
<1> QED BY <1>1, <1>2, <1>10, IdleFit

\* The invariant holds at first, ...
LEMMA InitSize ==
  ASSUME Init
  PROVE  SizeInv
<1>1. ChainInv BY InitHolds
<1>2. World \in Worlds BY <1>1 DEF ChainInv, Good
<1>3. World.entry = [f \in Files |-> NoEntry] /\ World.node = [f \in Files |-> NoNode] BY DEF Init, World
<1>4. \A f \in Files : ~World.entry[f].used /\ ~World.node[f].pinned BY <1>3 DEF NoEntry, NoNode
<1>5. Steady(World) BY <1>4 DEF Steady, Sizes, InStep
<1>6. pending = NoPending /\ steps = <<>> BY DEF Init
<1>7. Fit(World, pending) BY <1>5, <1>6, FitNone
<1>8. Goes(FitSteps, World, <<>>, World) BY <1>2, GoesNone
<1> QED BY <1>1, <1>6, <1>7, <1>8 DEF SizeInv

\* Where neither the table nor the entries change, the files keep their data.
LEMMA SameSaves ==
  ASSUME SizeInv, SizeInv', table' = table, entry' = entry
  PROVE  Saves(World, World')
<1>1. World \in Worlds /\ World' \in Worlds BY DEF SizeInv, ChainInv, Good
<1>2. World.table = table /\ World.entry = entry /\ World'.table = table /\ World'.entry = entry BY DEF World
<1> DEFINE w == World
           v == World'
<1>3. w \in Worlds /\ v \in Worlds BY <1>1
<1>4. v.table = w.table /\ \A f \in Files : v.entry[f].first = w.entry[f].first BY <1>2
<1> HIDE DEF w, v
<1>5. Saves(w, v) BY <1>3, <1>4, SavesSame
<1> QED BY <1>5 DEF w, v

\* ... and every step keeps it, and what the files have.
LEMMA NextSize ==
  ASSUME Windows = {}, SizeInv, [Next]_vars
  PROVE  SizeInv' /\ Saves(World, World')
<1>a. ASSUME SizeInv', table' = table, entry' = entry PROVE SizeInv' /\ Saves(World, World')
  BY <1>a, SameSaves
<1>1. CASE UNCHANGED vars
  <2>1. ChainInv' BY NextKeeps DEF SizeInv
  <2>2. World' = World /\ pending' = pending /\ steps' = steps /\ table' = table /\ entry' = entry
    BY <1>1 DEF vars, World
  <2>3. SizeInv' BY <2>1, <2>2 DEF SizeInv
  <2> QED BY <1>a, <2>2, <2>3
<1>2. CASE Next
  <2> USE <1>2 DEF Next
  <2>a. ASSUME NEW s, Start(s) PROVE table' = table /\ entry' = entry BY <2>a DEF Start
  <2>1. CASE \E f \in Files : Create(f)
    <3>1. SizeInv' BY <2>1, CreateSize
    <3>2. table' = table /\ entry' = entry BY <2>1, <2>a DEF Create
    <3> QED BY <1>a, <3>1, <3>2
  <2>2. CASE \E f \in Files : Unlink(f)
    <3>1. SizeInv' BY <2>2, UnlinkSize
    <3>2. table' = table /\ entry' = entry BY <2>2, <2>a DEF Unlink
    <3> QED BY <1>a, <3>1, <3>2
  <2>3. CASE \E f \in Files : FlushNode(f)
    <3>1. SizeInv' BY <2>3, FlushSize
    <3>2. table' = table /\ entry' = entry BY <2>3, <2>a DEF FlushNode
    <3> QED BY <1>a, <3>1, <3>2
  <2>4. CASE \E f \in Files : Lookup(f)
    <3>1. SizeInv' BY <2>4, LookupSize
    <3>2. table' = table /\ entry' = entry BY <2>4 DEF Lookup
    <3> QED BY <1>a, <3>1, <3>2
  <2>5. CASE \E f \in Files : Forget(f)
    <3>1. SizeInv' BY <2>5, ForgetSize
    <3>2. table' = table /\ entry' = entry BY <2>5 DEF Forget
    <3> QED BY <1>a, <3>1, <3>2
  <2>6. CASE \E f \in Files, size \in 1 .. MaxSize : Grow(f, size)
    <3>1. PICK f \in Files, size \in 1 .. MaxSize : Grow(f, size) BY <2>6
    <3>2. SizeInv' BY <3>1, GrowSize
    <3>3. \E s : Start(s) BY <3>1, GrowStarts, Zenon DEF SizeInv
    <3> QED BY <1>a, <2>a, <3>2, <3>3
  <2>7. CASE \E f \in Files, size \in 0 .. MaxSize - 1 : Shrink(f, size)
    <3>1. SizeInv' BY <2>7, ShrinkSize
    <3>2. \E s : Start(s) BY <2>7 DEF Shrink
    <3> QED BY <1>a, <2>a, <3>1, <3>2
  <2>8. CASE Recover
    <3>1. SizeInv' BY <2>8, RecoverSize
    <3>2. table' = table /\ entry' = entry BY <2>8 DEF Recover
    <3> QED BY <1>a, <3>1, <3>2
  <2>9. CASE Issue
    <3>1. SizeInv' BY <2>9, IssueSize
    <3>2. table' = table /\ entry' = entry BY <2>9 DEF Issue
    <3> QED BY <1>a, <3>1, <3>2
  <2>10. CASE Land BY <2>10, LandSize
  <2>11. CASE CutBefore
    <3>1. SizeInv' BY <2>11, CutBeforeSize
    <3>2. table' = table /\ entry' = entry BY <2>11 DEF CutBefore
    <3> QED BY <1>a, <3>1, <3>2
  <2>12. CASE CutAfter BY <2>12, CutAfterSize
  <2>13. CASE Remount
    <3>1. SizeInv' BY <2>13, RemountSize
    <3>2. table' = table /\ entry' = entry BY <2>13 DEF Remount
    <3> QED BY <1>a, <3>1, <3>2
  <2> QED BY <2>1, <2>2, <2>3, <2>4, <2>5, <2>6, <2>7, <2>8, <2>9, <2>10, <2>11, <2>12, <2>13 DEF Step
<1> QED BY <1>1, <1>2

-----------------------------------------------------------------------------
(* What the invariant implies. *)

\* The chain of a file holds the size in its entry.
LEMMA EntryHolds ==
  ASSUME SizeInv, NEW f \in Files, entry[f].used
  PROVE  /\ entry[f].first \in Clusters \cup {0} /\ (entry[f].first # 0 => table[entry[f].first] # Free)
         /\ entry[f].size \in Nat /\ Need(entry[f].size) \in Nat
         /\ Holds(table, entry[f].first, Need(entry[f].size))
         /\ Len(Chain(table, entry[f].first)) \in Nat
         /\ Need(entry[f].size) <= Len(Chain(table, entry[f].first))
<1>1. /\ table \in [Clusters -> Values] /\ entry \in [Files -> Entries] /\ Sound(table, entry)
  BY WorldFields DEF SizeInv, ChainInv
<1> DEFINE c == entry[f].first
           n == entry[f].size
<1>2. c \in Clusters \cup {0} /\ n \in Nat BY <1>1, SizeAssumption DEF Entries
<1>3. c # 0 => table[c] # Free BY <1>1 DEF Sound
<1>4. Holds(table, c, Need(n)) BY DEF SizeInv, Fit, Sizes, World
<1> HIDE DEF c, n
<1>5. Need(n) \in Nat BY <1>2, NeedMono
<1>6. Len(Chain(table, c)) \in Nat /\ (Holds(table, c, Need(n)) <=> Need(n) <= Len(Chain(table, c)))
  BY <1>2, <1>3, <1>5, HoldsChain
<1> QED BY <1>2, <1>3, <1>4, <1>5, <1>6 DEF c, n

\* No read runs off the end of a chain.
LEMMA SizeChain ==
  ASSUME SizeInv
  PROVE  SizeWithinChain
  BY EntryHolds DEF SizeWithinChain

\* With nothing pending, the node table has what the entries record.
LEMMA SizeNodes ==
  ASSUME SizeInv
  PROVE  NodesAgree
<1> SUFFICES ASSUME Ready, NEW f \in Files, node[f].pinned
             PROVE  /\ entry[f].used /\ node[f].first = entry[f].first
                    /\ IF node[f].dirty THEN Need(node[f].size) <= Len(Chain(table, node[f].first))
                                        ELSE node[f].size = entry[f].size
  BY DEF NodesAgree
<1>1. Steady(World) /\ Good(World, NoPending) BY ReadySteady
<1>2. World.table = table /\ World.entry = entry /\ World.node = node BY DEF World
<1>3. InStep(entry[f], node[f]) BY <1>1, <1>2 DEF Steady
<1>4. entry[f].used /\ node[f].first = entry[f].first /\ (node[f].dirty \/ node[f].size = entry[f].size)
  BY <1>3 DEF InStep
<1>5. node[f].dirty => Holds(table, entry[f].first, Need(node[f].size))
  BY <1>1, <1>2, <1>4 DEF Steady, Sizes
<1>6. node[f].size \in Nat
  <2>1. node \in [Files -> Nodes] BY <1>1, WorldFields
  <2> QED BY <2>1, SizeAssumption DEF Nodes
<1> DEFINE c == entry[f].first
           n == node[f].size
<1>7. c \in Clusters \cup {0} /\ (c # 0 => table[c] # Free) BY <1>4, EntryHolds
<1>8. Need(n) \in Nat BY <1>6, NeedMono
<1>9. node[f].dirty => Holds(table, c, Need(n)) BY <1>5
<1> HIDE DEF c, n
<1>10. node[f].dirty => Need(n) <= Len(Chain(table, c)) BY <1>7, <1>8, <1>9, HoldsChain
<1> QED BY <1>4, <1>10 DEF c, n

\* A file keeps its clusters under the size that it keeps.
LEMMA SizeKept ==
  ASSUME SizeInv, SizeInv', Saves(World, World'), NEW f \in Files, entry[f].used, entry'[f].used
  PROVE  LET old == Chain(table, entry[f].first)
             new == Chain(table', entry'[f].first)
             kept == IF entry[f].size < entry'[f].size THEN entry[f].size ELSE entry'[f].size
         IN  \A i \in 1 .. Need(kept) : i \in DOMAIN new /\ new[i] = old[i]
<1> DEFINE a == entry[f].size
           b == entry'[f].size
           c == entry[f].first
           d == entry'[f].first
           t == table
           u == table'
           old == Chain(t, c)
           new == Chain(u, d)
           kept == IF a < b THEN a ELSE b
           k == Need(kept)
<1>1. /\ c \in Clusters \cup {0} /\ (c # 0 => t[c] # Free) /\ a \in Nat /\ Need(a) \in Nat
      /\ Holds(t, c, Need(a))
  BY EntryHolds
<1>2. d \in Clusters \cup {0} /\ (d # 0 => u[d] # Free) /\ b \in Nat
  <2>1. /\ table' \in [Clusters -> Values] /\ entry' \in [Files -> Entries] /\ Sound(table', entry')
    <3>1. Good(World', pending') BY DEF SizeInv, ChainInv
    <3>2. World'.table = table' /\ World'.entry = entry' BY DEF World
    <3> QED BY <3>1, <3>2 DEF Good, Worlds
  <2> QED BY <2>1, SizeAssumption DEF Sound, Entries
<1>3. \A s : From(t, c, s) /\ Len(s) = k => From(u, d, s)
  <2>1. World.table = table /\ World.entry = entry /\ World'.table = table' /\ World'.entry = entry' BY DEF World
  <2> QED BY <2>1 DEF Saves
<1>4. kept \in Nat /\ kept <= a BY <1>1, <1>2
<1> HIDE DEF a, b, c, d, t, u, kept
<1>5. k \in Nat /\ k <= Need(a) BY <1>1, <1>4, NeedMono
<1> HIDE DEF k
<1>6. Holds(t, c, k) BY <1>1, <1>5, HoldsLess
<1>7. ASSUME NEW i \in 1 .. k PROVE i \in DOMAIN new /\ new[i] = old[i]
  <2>1. k # 0 BY <1>5
  <2>2. PICK s : From(t, c, s) /\ Len(s) = k BY <1>6, <2>1 DEF Holds
  <2>3. From(u, d, s) BY <1>3, <2>2
  <2>4. ASSUME NEW x \in Clusters \cup {0}, NEW r, From(r, x, s) PROVE x \in Clusters
    <3>1. s \in Seq(Clusters) /\ s # <<>> /\ s[1] = x BY <2>4 DEF From, IsPath
    <3> QED BY <3>1
  <2>5. c \in Clusters /\ d \in Clusters BY <1>1, <1>2, <2>2, <2>3, <2>4
  <2>6. t[c] # Free /\ u[d] # Free BY <1>1, <1>2, <2>5, Numbers
  <2>7. \A j \in 1 .. Len(s) : old[j] = s[j] BY <2>2, <2>5, <2>6, ChainLongest
  <2>8. /\ Len(new) \in Nat /\ Len(s) \in Nat /\ Len(s) <= Len(new)
        /\ \A j \in 1 .. Len(s) : new[j] = s[j]
    BY <2>3, <2>5, <2>6, ChainLongest
  <2>9. new \in Seq(Clusters)
    <3>1. IsPath(u, new) BY <2>5, <2>6, ChainIsPath
    <3> QED BY <3>1 DEF IsPath
  <2> HIDE DEF new, old
  <2>10. i \in 1 .. Len(s) BY <2>2
  <2>11. i \in 1 .. Len(new) BY <2>8, <2>10
  <2> QED BY <2>7, <2>8, <2>9, <2>10, <2>11
<1> QED BY <1>7 DEF a, b, c, d, t, u, kept, k, old, new

\* "... no read runs off the end of a chain": wherever write, truncate,
\* unlink, create, fsync and recovery are cut, every entry's size is within
\* its chain, at every instant.  For any number of clusters and files, any
\* placement of the entries on the device and both kinds of FAT, when a cut
\* does not fall behind the writes that EarlySteps names.
THEOREM SizesHold == ASSUME Windows = {} PROVE Spec => []SizeWithinChain
<1>1. Init => SizeInv BY InitSize
<1>2. SizeInv /\ [Next]_vars => SizeInv' BY NextSize
<1>3. SizeInv => SizeWithinChain BY SizeChain
<1> QED BY <1>1, <1>2, <1>3, PTL DEF Spec

\* "The driver's own state stays consistent with the disk": once nothing is
\* pending, also after recovery, the node table has the entries' first
\* clusters and sizes, but for sizes still to be written that the chains hold.
THEOREM NodesStayInStep == ASSUME Windows = {} PROVE Spec => []NodesAgree
<1>1. Init => SizeInv BY InitSize
<1>2. SizeInv /\ [Next]_vars => SizeInv' BY NextSize
<1>3. SizeInv => NodesAgree BY SizeNodes
<1> QED BY <1>1, <1>2, <1>3, PTL DEF Spec

\* No write, no cut and no recovery takes away or moves what a file had: the
\* clusters under the size that it keeps stay the same, in the same order.
THEOREM DataStays == ASSUME Windows = {} PROVE Spec => DataKept
<1>1. Init => SizeInv BY InitSize
<1>2. SizeInv /\ [Next]_vars => SizeInv' BY NextSize
<1>3. SizeInv /\ [Next]_vars =>
        [\A f \in Files : entry[f].used /\ entry'[f].used =>
            LET old == Chain(table, entry[f].first)
                new == Chain(table', entry'[f].first)
                kept == IF entry[f].size < entry'[f].size THEN entry[f].size ELSE entry'[f].size
            IN  \A i \in 1 .. Need(kept) : i \in DOMAIN new /\ new[i] = old[i]]_vars
  BY NextSize, SizeKept
<1> QED BY <1>1, <1>2, <1>3, PTL DEF Spec, DataKept
=============================================================================
