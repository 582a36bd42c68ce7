-------------------------- MODULE FatChainsProofs --------------------------
(***************************************************************************)
(* Proofs about FatChains: chains are sound at every instant, and the      *)
(* table is written one group of entries at a time.                        *)
(*                                                                         *)
(* An operation fixes its writes when it starts, so the invariant speaks   *)
(* of the writes that are left: Runs says that each of them is safe in the *)
(* state that those before it lead to, where Safe means that the disk fits *)
(* what is pending before the write, after it while the caller does not    *)
(* know, and after it once it does.  What an operation does to the chains  *)
(* is proved of its plan alone; the steps of the specification then only   *)
(* take one write off the plan, or give up the rest of it.                 *)
(*                                                                         *)
(*   chains         Chain computes a path that ends where the table does   *)
(*   Nth            the k-th element of a finite set                       *)
(*   plans          composition of safe plans                              *)
(*   freeing        of a path that nothing leads to, from its start        *)
(*   allocation     of a chain, from its end                               *)
(*   operations     create, unlink, flush, growth, truncation              *)
(*   recovery       what is cut off and freed, and what nodes learn        *)
(*   the steps      each action keeps the invariant                        *)
(***************************************************************************)
EXTENDS FatChains, WellFoundedInduction, FiniteSetTheorems, TLAPS

\* The naturals are well founded.
LEMMA LessWellFounded == IsWellFoundedOn({r \in Nat \X Nat : r[1] < r[2]}, Nat)
  BY NatLessThanWellFounded DEF OpToRel

\* A set of naturals has a least element: induction, for what follows, over
\* a set of counterexamples.
LEMMA LeastNatural ==
  ASSUME NEW S \in SUBSET Nat, S # {}
  PROVE  \E n \in S : \A m \in S : n <= m
<1> DEFINE Less == {r \in Nat \X Nat : r[1] < r[2]}
<1>1. PICK x \in S : \A y \in S : ~(<<y, x>> \in Less)
  BY LessWellFounded, WFMin, Zenon
<1>2. ASSUME NEW y \in S PROVE x <= y
  <2>1. <<y, x>> \notin Less BY <1>1
  <2>2. <<y, x>> \in Nat \X Nat OBVIOUS
  <2>3. ~(<<y, x>>[1] < <<y, x>>[2]) BY <2>1, <2>2, Zenon
  <2> QED BY <2>3
<1> QED BY <1>2

\* The walk of Chain, step by step: from s, ...
Longer(t, s) ==
    LET next == IF s = <<>> THEN EOC ELSE t[s[Len(s)]]
    IN  IF next \in Clusters /\ t[next] # Free /\ (\A i \in DOMAIN s : s[i] # next)
        THEN Append(s, next) ELSE s
\* ... from its start, ...
Begin(t, c) == IF c \in Clusters /\ t[c] # Free THEN <<c>> ELSE <<>>
\* ... and as a function of the number of steps.
Body(t, c, g) == [n \in 0 .. Total |-> IF n = 0 THEN Begin(t, c) ELSE Longer(t, g[n - 1])]
\* The function that Chain defines.
Walk(t, c) == CHOOSE g : g = Body(t, c, g)

\* Chain in the terms above.
LEMMA ChainIsWalk == \A t, c : Chain(t, c) = Walk(t, c)[Total]
  BY DEF Chain, Walk, Body, Begin, Longer

\* There is a cluster.
LEMMA TotalType == Total \in Nat /\ Total >= 1 /\ MaxCluster \in Nat
  BY MaxClusterAssumption DEF Total

\* Some function g on 0 .. m has the steps of the walk.
Begun(t, c, m, g) ==
    /\ g = [n \in 0 .. m |-> g[n]]
    /\ g[0] = Begin(t, c)
    /\ \A n \in 1 .. m : g[n] = Longer(t, g[n - 1])

\* Such a function exists for every m.
LEMMA StepsExist ==
  ASSUME NEW t, NEW c, NEW m \in Nat
  PROVE  \E g : Begun(t, c, m, g)
<1> DEFINE S == {k \in Nat : ~\E g : Begun(t, c, k, g)}
<1> SUFFICES ASSUME S # {} PROVE FALSE
  OBVIOUS
<1>1. PICK k \in S : \A j \in S : k <= j
  BY LeastNatural, Zenon
<1>2. k # 0
  <2>1. Begun(t, c, 0, [n \in 0 .. 0 |-> Begin(t, c)])
    BY DEF Begun
  <2> QED BY <2>1
<1>3. k - 1 \in Nat /\ k - 1 \notin S
  BY <1>1, <1>2
<1>4. PICK g : Begun(t, c, k - 1, g)
  BY <1>3
<1> DEFINE h == [n \in 0 .. k |-> IF n = k THEN Longer(t, g[k - 1]) ELSE g[n]]
<1>5. Begun(t, c, k, h)
  <2>1. h[0] = Begin(t, c)
    BY <1>2, <1>4 DEF Begun
  <2>2. ASSUME NEW n \in 1 .. k PROVE h[n] = Longer(t, h[n - 1])
    <3>1. CASE n = k
      <4>1. h[k] = Longer(t, g[k - 1]) /\ h[k - 1] = g[k - 1] BY <1>2
      <4> QED BY <4>1, <3>1
    <3>2. CASE n # k
      <4>1. n \in 1 .. k - 1 /\ h[n] = g[n] /\ h[n - 1] = g[n - 1] BY <3>2
      <4>2. g[n] = Longer(t, g[n - 1]) BY <1>4, <4>1, Zenon DEF Begun
      <4> QED BY <4>1, <4>2
    <3> QED BY <3>1, <3>2
  <2>3. h = [n \in 0 .. k |-> h[n]]
    OBVIOUS
  <2> HIDE DEF h
  <2> QED BY <2>1, <2>2, <2>3, Zenon DEF Begun
<1> QED BY <1>5

\* So the recursive definition of Chain means what it says.
LEMMA WalkSteps ==
  ASSUME NEW t, NEW c
  PROVE  /\ Walk(t, c)[0] = Begin(t, c)
         /\ \A n \in 1 .. Total : Walk(t, c)[n] = Longer(t, Walk(t, c)[n - 1])
<1>1. PICK g : Begun(t, c, Total, g)
  BY StepsExist, TotalType
<1>2. g = Body(t, c, g)
  <2>1. \A n \in 0 .. Total : g[n] = IF n = 0 THEN Begin(t, c) ELSE Longer(t, g[n - 1])
    <3> TAKE n \in 0 .. Total
    <3>1. CASE n = 0 BY <1>1, <3>1 DEF Begun
    <3>2. CASE n # 0
      <4>1. n \in 1 .. Total BY <3>2, TotalType
      <4> QED BY <1>1, <3>2, <4>1 DEF Begun
    <3> QED BY <3>1, <3>2
  <2> QED BY <1>1, <2>1, Zenon DEF Begun, Body
<1>3. Walk(t, c) = Body(t, c, Walk(t, c))
  BY <1>2 DEF Walk
<1> DEFINE w == Walk(t, c)
<1>4. w = [n \in 0 .. Total |-> IF n = 0 THEN Begin(t, c) ELSE Longer(t, w[n - 1])]
  BY <1>3, Zenon DEF Body
<1> HIDE DEF w
<1>5. w[0] = Begin(t, c) /\ \A n \in 1 .. Total : w[n] = Longer(t, w[n - 1])
  BY <1>4, TotalType
<1> QED BY <1>5 DEF w

-----------------------------------------------------------------------------
(* Chains. *)

\* A path: distinct clusters, each linked to the next.
IsPath(t, s) ==
    /\ s \in Seq(Clusters)
    /\ \A i \in 1 .. Len(s) : t[s[i]] # Free
    /\ \A i \in 1 .. Len(s) - 1 : t[s[i]] = s[i + 1]
    /\ \A i, j \in 1 .. Len(s) : s[i] = s[j] => i = j

\* The walk has nowhere to go from the end of s.
Stuck(t, s) ==
    LET next == t[s[Len(s)]]
    IN  next \notin Clusters \/ t[next] = Free \/ \E i \in 1 .. Len(s) : s[i] = next

\* A walk either stays or goes on by one cluster.
LEMMA LongerPath ==
  ASSUME NEW t, NEW s, IsPath(t, s), s # <<>>
  PROVE  /\ IsPath(t, Longer(t, s)) /\ Longer(t, s) # <<>> /\ Longer(t, s)[1] = s[1]
         /\ \/ Longer(t, s) = s /\ Stuck(t, s)
            \/ Len(Longer(t, s)) = Len(s) + 1
<1> DEFINE next == t[s[Len(s)]]
<1>0. s \in Seq(Clusters) /\ Len(s) \in Nat /\ Len(s) >= 1 /\ DOMAIN s = 1 .. Len(s)
  BY DEF IsPath
<1>1. CASE next \in Clusters /\ t[next] # Free /\ (\A i \in DOMAIN s : s[i] # next)
  <2>1. Longer(t, s) = Append(s, next) BY <1>1 DEF Longer
  <2> DEFINE a == Append(s, next)
  <2> HIDE DEF next
  <2>2. /\ a \in Seq(Clusters) /\ Len(a) = Len(s) + 1 /\ a[Len(s) + 1] = next
        /\ \A i \in 1 .. Len(s) : a[i] = s[i]
    BY <1>0, <1>1
  <2> HIDE DEF a
  <2>3. \A i \in 1 .. Len(a) : t[a[i]] # Free
    BY <1>0, <1>1, <2>2 DEF IsPath
  <2>4. \A i \in 1 .. Len(a) - 1 : t[a[i]] = a[i + 1]
    <3>0. Len(a) - 1 = Len(s) BY <1>0, <2>2
    <3> SUFFICES ASSUME NEW i \in 1 .. Len(s) PROVE t[a[i]] = a[i + 1]
      BY <3>0
    <3>1. CASE i = Len(s) BY <1>0, <2>2, <3>1 DEF next
    <3>2. CASE i # Len(s)
      <4> DEFINE m == Len(s)
      <4>0. m \in Nat /\ i \in 1 .. m /\ i # m BY <1>0, <3>2, Zenon
      <4> HIDE DEF m
      <4>a. i \in 1 .. m - 1 /\ i \in 1 .. m /\ i + 1 \in 1 .. m BY <4>0
      <4>1. i \in 1 .. Len(s) - 1 /\ i \in 1 .. Len(s) /\ i + 1 \in 1 .. Len(s)
        BY <4>a DEF m
      <4> QED BY <2>2, <4>1 DEF IsPath
    <3> QED BY <3>1, <3>2
  <2>5. \A i, j \in 1 .. Len(a) : a[i] = a[j] => i = j
    BY <1>0, <1>1, <2>2 DEF IsPath
  <2>6. IsPath(t, a) /\ a # <<>> /\ a[1] = s[1]
    BY <1>0, <2>2, <2>3, <2>4, <2>5 DEF IsPath
  <2> QED BY <2>1, <2>2, <2>6 DEF a
<1>2. CASE ~(next \in Clusters /\ t[next] # Free /\ (\A i \in DOMAIN s : s[i] # next))
  <2>1. Longer(t, s) = s BY <1>2 DEF Longer
  <2>2. Stuck(t, s) BY <1>0, <1>2 DEF Stuck
  <2> QED BY <2>1, <2>2
<1> QED BY <1>1, <1>2

\* A walk that has nowhere to go stays.
LEMMA StuckStays ==
  ASSUME NEW t, NEW s, IsPath(t, s), s # <<>>, Stuck(t, s)
  PROVE  Longer(t, s) = s
<1>1. DOMAIN s = 1 .. Len(s) BY DEF IsPath
<1> QED BY <1>1, Zenon DEF Longer, Stuck

\* The clusters are Total.
LEMMA ClusterCount == IsFiniteSet(Clusters) /\ Cardinality(Clusters) = Total
  BY FS_Interval, MaxClusterAssumption DEF Clusters, Total

\* Distinct clusters are at most as many as there are.
LEMMA PathBound ==
  ASSUME NEW t, NEW s, IsPath(t, s)
  PROVE  Len(s) <= Total
<1>1. s \in [1 .. Len(s) -> Clusters] /\ Len(s) \in Nat
  BY DEF IsPath
<1>2. IsFiniteSet(1 .. Len(s)) /\ Cardinality(1 .. Len(s)) = Len(s)
  <2>1. 1 \in Int /\ Len(s) \in Int BY <1>1
  <2>2. /\ IsFiniteSet(1 .. Len(s))
        /\ Cardinality(1 .. Len(s)) = IF 1 > Len(s) THEN 0 ELSE Len(s) - 1 + 1
    BY <2>1, FS_Interval
  <2> QED BY <1>1, <2>2
<1>3. \A x, y \in 1 .. Len(s) : s[x] = s[y] => x = y
  BY DEF IsPath
<1>4. ~(Cardinality(Clusters) < Cardinality(1 .. Len(s)))
  BY <1>1, <1>2, <1>3, ClusterCount, FS_PigeonHole
<1> QED BY <1>1, <1>2, <1>4, ClusterCount, TotalType

\* The chain from a cluster that is in use is a path that ends only where the
\* table does.
LEMMA ChainIsPath ==
  ASSUME NEW t, NEW c \in Clusters, t[c] # Free
  PROVE  /\ IsPath(t, Chain(t, c)) /\ Chain(t, c) # <<>> /\ Chain(t, c)[1] = c
         /\ Stuck(t, Chain(t, c))
<1> DEFINE W(n) == Walk(t, c)[n]
           OK(n) == /\ IsPath(t, W(n)) /\ W(n) # <<>> /\ W(n)[1] = c
                    /\ Len(W(n)) = n + 1 \/ Stuck(t, W(n))
           Bad == {n \in Nat : n <= Total /\ ~OK(n)}
<1>1. OK(0)
  <2>1. W(0) = <<c>> BY WalkSteps, Zenon DEF Begin
  <2> HIDE DEF W
  <2>2. IsPath(t, <<c>>)
    <3> DEFINE s == <<c>>
    <3>1. s \in Seq(Clusters) /\ Len(s) = 1 /\ s[1] = c OBVIOUS
    <3> HIDE DEF s
    <3>2. IsPath(t, s) BY <3>1 DEF IsPath
    <3> QED BY <3>2 DEF s
  <2> QED BY <2>1, <2>2
<1>2. ASSUME NEW n \in Nat, n >= 1, n <= Total, OK(n - 1) PROVE OK(n)
  <2>1. W(n) = Longer(t, W(n - 1))
    <3>1. n \in 1 .. Total BY <1>2, TotalType
    <3> QED BY <3>1, WalkSteps
  <2> HIDE DEF W
  <2>2. /\ IsPath(t, W(n)) /\ W(n) # <<>> /\ W(n)[1] = c
        /\ \/ W(n) = W(n - 1) /\ Stuck(t, W(n - 1))
           \/ Len(W(n)) = Len(W(n - 1)) + 1
    BY <1>2, <2>1, LongerPath
  <2>3. CASE Stuck(t, W(n - 1))
    <3>1. W(n) = W(n - 1) BY <1>2, <2>1, <2>3, StuckStays
    <3> QED BY <2>2, <2>3, <3>1
  <2>4. CASE ~Stuck(t, W(n - 1))
    BY <1>2, <2>2, <2>4
  <2> QED BY <2>3, <2>4
<1>3. Bad = {}
  <2> SUFFICES ASSUME Bad # {} PROVE FALSE OBVIOUS
  <2> HIDE DEF OK, W
  <2>1. PICK n \in Bad : \A m \in Bad : n <= m BY LeastNatural, Zenon
  <2>2. n # 0 BY <1>1, <2>1
  <2>3. n - 1 \in Nat /\ n - 1 \notin Bad /\ n - 1 <= Total BY <2>1, <2>2, TotalType
  <2> QED BY <1>2, <2>1, <2>2, <2>3
<1>4. OK(Total)
  <2> HIDE DEF OK
  <2> QED BY <1>3, TotalType
<1>5. Chain(t, c) = W(Total) BY ChainIsWalk
<1> HIDE DEF W
<1>6. Len(W(Total)) # Total + 1
  <2>1. Len(W(Total)) <= Total BY <1>4, PathBound
  <2>2. Len(W(Total)) \in Nat BY <1>4 DEF IsPath
  <2> QED BY <2>1, <2>2, TotalType
<1> QED BY <1>4, <1>5, <1>6

\* There is no chain from a free cluster, or from none.
LEMMA NoChain ==
  ASSUME NEW t, NEW c, c \notin Clusters \/ t[c] = Free
  PROVE  Chain(t, c) = <<>>
<1> DEFINE W(n) == Walk(t, c)[n]
           Bad == {n \in Nat : n <= Total /\ W(n) # <<>>}
<1>1. W(0) = <<>> BY WalkSteps, Zenon DEF Begin
<1>2. ASSUME NEW n \in Nat, n >= 1, n <= Total, W(n - 1) = <<>> PROVE W(n) = <<>>
  <2>1. n \in 1 .. Total BY <1>2, TotalType
  <2>2. W(n) = Longer(t, W(n - 1)) BY <2>1, WalkSteps
  <2> HIDE DEF W
  <2>3. EOC \notin Clusters BY MaxClusterAssumption DEF EOC, Clusters
  <2> QED BY <1>2, <2>2, <2>3 DEF Longer
<1> HIDE DEF W
<1>3. Bad = {}
  <2> SUFFICES ASSUME Bad # {} PROVE FALSE OBVIOUS
  <2>1. PICK n \in Bad : \A m \in Bad : n <= m BY LeastNatural, Zenon
  <2>2. n # 0 BY <1>1, <2>1
  <2>3. n - 1 \in Nat /\ n - 1 \notin Bad /\ n - 1 <= Total BY <2>1, <2>2, TotalType
  <2> QED BY <1>2, <2>1, <2>2, <2>3
<1>4. W(Total) = <<>> BY <1>3, TotalType
<1> QED BY <1>4, ChainIsWalk DEF W

-----------------------------------------------------------------------------
(* The k-th element of a finite set. *)

\* The elements of S up to x.
Below(S, r, x) == {y \in S : r[y] <= r[x]}

\* Ranks tell the elements of S apart.
Ranked(S, r) ==
    /\ IsFiniteSet(S)
    /\ \A x \in S : r[x] \in Int
    /\ \A x, y \in S : r[x] = r[y] => x = y

\* Between one and all of S.
LEMMA BelowType ==
  ASSUME NEW S, NEW r, Ranked(S, r), NEW x \in S
  PROVE  /\ IsFiniteSet(Below(S, r, x)) /\ Cardinality(Below(S, r, x)) \in 1 .. Cardinality(S)
         /\ Cardinality(S) \in Nat /\ x \in Below(S, r, x)
<1>1. Below(S, r, x) \in SUBSET S /\ x \in Below(S, r, x) BY DEF Below, Ranked
<1>2. /\ IsFiniteSet(Below(S, r, x)) /\ Cardinality(S) \in Nat
      /\ Cardinality(Below(S, r, x)) <= Cardinality(S)
  BY <1>1, FS_Subset, FS_CardinalityType DEF Ranked
<1>3. Cardinality(Below(S, r, x)) \in Nat /\ Cardinality(Below(S, r, x)) # 0
  BY <1>1, <1>2, FS_CardinalityType, FS_EmptySet
<1> QED BY <1>1, <1>2, <1>3

\* The rank and the number of elements below grow together.
LEMMA BelowLess ==
  ASSUME NEW S, NEW r, Ranked(S, r), NEW x \in S, NEW y \in S
  PROVE  r[y] < r[x] <=> Cardinality(Below(S, r, y)) < Cardinality(Below(S, r, x))
<1> DEFINE B(z) == Below(S, r, z)
<1>1. ASSUME NEW u \in S, NEW v \in S, r[u] < r[v] PROVE Cardinality(B(u)) < Cardinality(B(v))
  <2>1. r[u] \in Int /\ r[v] \in Int BY DEF Ranked
  <2>2. B(u) \in SUBSET B(v)
    BY <1>1, <2>1 DEF Below, Ranked
  <2>3. v \in B(v) /\ v \notin B(u) BY <1>1, <2>1 DEF Below
  <2>4. IsFiniteSet(B(v)) /\ Cardinality(B(v)) \in Nat /\ Cardinality(B(u)) \in Nat
    BY BelowType
  <2>5. Cardinality(B(u)) <= Cardinality(B(v)) /\ Cardinality(B(v)) # Cardinality(B(u))
    BY <2>2, <2>3, <2>4, FS_Subset
  <2> QED BY <2>4, <2>5
<1>2. Cardinality(B(x)) \in Nat /\ Cardinality(B(y)) \in Nat BY BelowType
<1>3. r[x] \in Int /\ r[y] \in Int /\ (r[x] = r[y] => x = y) BY DEF Ranked
<1> HIDE DEF B
<1>4. r[y] < r[x] <=> Cardinality(B(y)) < Cardinality(B(x))
  BY <1>1, <1>2, <1>3
<1> QED BY <1>4 DEF B

\* Some element has exactly k elements up to it.
LEMMA NthExists ==
  ASSUME NEW S, NEW r, Ranked(S, r), NEW k \in 1 .. Cardinality(S)
  PROVE  \E x \in S : Cardinality(Below(S, r, x)) = k
<1> DEFINE N(x) == Cardinality(Below(S, r, x))
           Over == {N(x) : x \in {y \in S : N(y) >= k}}
<1>0. Cardinality(S) \in Nat /\ \A x \in S : N(x) \in Nat /\ N(x) >= 1 /\ N(x) <= Cardinality(S)
  BY BelowType, FS_CardinalityType DEF Ranked
<1>1. \E x \in S : N(x) >= k
  <2> SUFFICES ASSUME \A x \in S : N(x) < k PROVE FALSE BY <1>0
  <2> DEFINE g == [x \in S |-> N(x)]
  <2>1. g \in [S -> 1 .. k - 1] BY <1>0
  <2>2. IsFiniteSet(1 .. k - 1) /\ Cardinality(1 .. k - 1) = k - 1
    <3>1. 1 \in Int /\ k - 1 \in Int OBVIOUS
    <3>2. /\ IsFiniteSet(1 .. k - 1)
          /\ Cardinality(1 .. k - 1) = IF 1 > k - 1 THEN 0 ELSE k - 1 - 1 + 1
      BY <3>1, FS_Interval
    <3> QED BY <3>2
  <2>3. Cardinality(1 .. k - 1) < Cardinality(S) BY <1>0, <2>2
  <2> HIDE DEF g
  <2>4. PICK x, y \in S : x # y /\ g[x] = g[y]
    BY <2>1, <2>2, <2>3, FS_PigeonHole DEF Ranked
  <2>5. N(x) = N(y) BY <2>4 DEF g
  <2>6. r[x] < r[y] \/ r[y] < r[x] BY <2>4 DEF Ranked
  <2>7. N(x) < N(y) \/ N(y) < N(x) BY <2>6, BelowLess
  <2> QED BY <1>0, <2>5, <2>7
<1>2. Over \in SUBSET Nat /\ Over # {} BY <1>0, <1>1
<1>3. PICK m \in Over : \A j \in Over : m <= j BY <1>2, LeastNatural, Zenon
<1>4. PICK x \in S : N(x) = m /\ N(x) >= k BY <1>3
<1>5. \A y \in S : N(y) >= k => N(x) <= N(y) BY <1>3, <1>4
<1>6. CASE N(x) > k
  <2> DEFINE C == Below(S, r, x) \ {x}
  <2>1. \A y \in C : y \in S /\ N(y) < N(x)
    <3> TAKE y \in C
    <3>1. y \in S /\ r[y] <= r[x] /\ y # x BY DEF Below
    <3>2. r[y] < r[x] BY <3>1 DEF Ranked
    <3> QED BY <3>1, <3>2, BelowLess
  <2>2. IsFiniteSet(C) /\ Cardinality(C) = N(x) - 1
    <3>1. IsFiniteSet(Below(S, r, x)) /\ x \in Below(S, r, x) BY BelowType
    <3> QED BY <3>1, FS_RemoveElement
  <2> DEFINE g == [y \in C |-> N(y)]
  <2> HIDE DEF C
  <2>3. g \in [C -> 1 .. k - 1]
    <3> SUFFICES ASSUME NEW y \in C PROVE N(y) \in 1 .. k - 1 OBVIOUS
    <3>1. y \in S /\ N(y) < N(x) /\ N(y) \in Nat /\ N(y) >= 1 /\ N(x) \in Nat BY <1>0, <2>1
    <3>2. ~(N(y) >= k) BY <1>5, <3>1
    <3> HIDE DEF N
    <3> QED BY <3>1, <3>2, <1>0
  <2>4. IsFiniteSet(1 .. k - 1) /\ Cardinality(1 .. k - 1) = k - 1
    <3>1. 1 \in Int /\ k - 1 \in Int BY <1>0
    <3>2. /\ IsFiniteSet(1 .. k - 1)
          /\ Cardinality(1 .. k - 1) = IF 1 > k - 1 THEN 0 ELSE k - 1 - 1 + 1
      BY <3>1, FS_Interval
    <3> QED BY <1>0, <3>2
  <2>5. Cardinality(1 .. k - 1) < Cardinality(C) BY <1>0, <1>6, <2>2, <2>4
  <2> HIDE DEF g
  <2>6. PICK y, z \in C : y # z /\ g[y] = g[z]
    BY <2>2, <2>3, <2>4, <2>5, FS_PigeonHole
  <2>7. y \in S /\ z \in S /\ N(y) = N(z) BY <2>1, <2>6 DEF g
  <2>8. r[y] < r[z] \/ r[z] < r[y] BY <2>6, <2>7 DEF Ranked
  <2>9. N(y) < N(z) \/ N(z) < N(y) BY <2>7, <2>8, BelowLess
  <2> QED BY <1>0, <2>7, <2>9
<1>7. CASE N(x) = k BY <1>7
<1> HIDE DEF N
<1> QED BY <1>0, <1>4, <1>6, <1>7 DEF N

\* Nth picks the element with k elements up to it.
LEMMA NthIs ==
  ASSUME NEW S, NEW r, Ranked(S, r), NEW k \in 1 .. Cardinality(S)
  PROVE  Nth(S, r, k) \in S /\ Cardinality(Below(S, r, Nth(S, r, k))) = k
<1>1. \E x \in S : Cardinality({y \in S : r[y] <= r[x]}) = k BY NthExists DEF Below
<1>2. Nth(S, r, k) \in S /\ Cardinality({y \in S : r[y] <= r[Nth(S, r, k)]}) = k
  BY <1>1, Zenon DEF Nth
<1> QED BY <1>2 DEF Below

\* The elements come in the order of their ranks.
LEMMA NthOrder ==
  ASSUME NEW S, NEW r, Ranked(S, r), NEW j \in 1 .. Cardinality(S), NEW k \in 1 .. Cardinality(S)
  PROVE  j < k <=> r[Nth(S, r, j)] < r[Nth(S, r, k)]
  BY NthIs, BelowLess

\* Nothing lies between two that follow each other, before the first or after
\* the last.
LEMMA NthGap ==
  ASSUME NEW S, NEW r, Ranked(S, r), NEW k \in 1 .. Cardinality(S), NEW x \in S
  PROVE  /\ k + 1 \in 1 .. Cardinality(S) =>
              ~(r[Nth(S, r, k)] < r[x] /\ r[x] < r[Nth(S, r, k + 1)])
         /\ k = 1 => ~(r[x] < r[Nth(S, r, k)])
         /\ k = Cardinality(S) => ~(r[Nth(S, r, k)] < r[x])
<1> DEFINE N(y) == Cardinality(Below(S, r, y))
<1>1. N(x) \in 1 .. Cardinality(S) /\ Cardinality(S) \in Nat BY BelowType
<1>2. Nth(S, r, k) \in S /\ N(Nth(S, r, k)) = k BY NthIs
<1>3. k + 1 \in 1 .. Cardinality(S) =>
        Nth(S, r, k + 1) \in S /\ N(Nth(S, r, k + 1)) = k + 1 BY NthIs
<1>4. \A u, v \in S : r[u] < r[v] <=> N(u) < N(v) BY BelowLess
<1> HIDE DEF N
<1> QED BY <1>1, <1>2, <1>3, <1>4

-----------------------------------------------------------------------------
(* The inductive invariant. *)

\* Types of entries, nodes, pending clusters and patches of one group.
Entries == [used : BOOLEAN, first : Clusters \cup {0}, size : 0 .. MaxSize]
Nodes == [pinned : BOOLEAN, first : Clusters \cup {0}, size : 0 .. MaxSize, dirty : BOOLEAN]
Pendings == [head : Clusters \cup {0}, extra : Clusters \cup {0}, owner : Owners]
Patches == UNION {[D -> Values] : D \in Groups}

\* The steps of a plan.
FatSteps == [kind : {"fat"}, pre : Pendings, patch : Patches, post : Pendings]
EntrySteps ==
    [kind : {"entry"}, pre : Pendings, file : Files, to : Entries, node : Nodes, post : Pendings]
DataSteps == [kind : {"data"}, pre : Pendings, file : Files, node : Nodes, post : Pendings]
AllSteps == FatSteps \cup EntrySteps \cup DataSteps

\* A state of the disk and the node table.
Worlds ==
    [table : [Clusters -> Values], entry : [Files -> Entries], node : [Files -> Nodes]]

\* ChainsSound, without counting.
Sound(t, e) ==
    /\ \A c \in Clusters : t[c] \in Clusters => t[t[c]] # Free
    /\ \A f \in Files : e[f].used /\ e[f].first # 0 => t[e[f].first] # Free
    /\ \A c, d \in Clusters : t[c] = t[d] /\ t[c] \in Clusters => c = d
    /\ \A f, g \in Files :
          e[f].used /\ e[g].used /\ e[f].first = e[g].first /\ e[f].first # 0 => f = g
    /\ \A f \in Files, c \in Clusters : e[f].used /\ e[f].first # 0 => t[c] # e[f].first

\* Nothing but the clusters of D and the files of F links c.
LinkedBy(t, e, c, D, F) ==
    /\ \A d \in Clusters : t[d] = c => d \in D
    /\ \A f \in Files : e[f].used /\ e[f].first = c => f \in F

\* b is in every set of clusters that has a and all that its clusters link.
Closed(t, S) == \A c \in S : t[c] \in Clusters => t[c] \in S
Reaches(t, a, b) == \A S \in SUBSET Clusters : a \in S /\ Closed(t, S) => b \in S

\* The clusters and the files that an owner names.
IsTail(o) == o.kind \in {"tail", "cut"}
Tails(o) == IF IsTail(o) THEN {o.at} ELSE {}
Owning(o) == IF o.kind \in {"entry", "removed"} THEN {o.file} ELSE {}

\* What recovery may take for granted of the pending clusters p: at most their
\* owner links them, unless the extra chain leads to the head.
PendOK(t, e, p) ==
    /\ p.extra # 0 => LinkedBy(t, e, p.extra, Tails(p.owner), {})
    /\ p.head # 0 =>
         \/ LinkedBy(t, e, p.head, Tails(p.owner), Owning(p.owner))
         \/ p.extra # 0 /\ Reaches(t, p.extra, p.head)
    /\ p.extra # 0 /\ IsTail(p.owner) => t[p.owner.at] \in {EOC, p.extra}

\* A pinned node has the first cluster of its entry, unless the operation
\* that p remembers changed the entry and recovery will bring it in step.
NodeFits(t, d, k, p, f) ==
    /\ k.dirty => k.pinned /\ k.first # 0
    /\ k.pinned =>
         \/ k.first = IF d.used THEN d.first ELSE 0
         \/ p.owner = EntryOf(f) /\ d.used /\ k.first = 0
         \/ /\ p.owner = EntryOf(f) /\ d.used /\ d.first = 0 /\ k.first = p.head
            /\ p.extra = 0 /\ p.head # 0 /\ t[p.head] # Free
         \/ p.owner = Removed(f) /\ ~d.used /\ k.first = p.head /\ p.head # 0
NodeOK(t, e, n, p) == \A f \in Files : NodeFits(t, e[f], n[f], p, f)

\* The disk, the node table and the pending clusters p fit.
Good(w, p) ==
    /\ w \in Worlds /\ p \in Pendings
    /\ Sound(w.table, w.entry) /\ PendOK(w.table, w.entry, p)
    /\ NodeOK(w.table, w.entry, w.node, p)

\* The state after the write of a step, unnoticed and noticed.
Written(w, s) ==
    [table |-> IF s.kind = "fat" THEN Patched(w.table, s.patch) ELSE w.table,
     entry |-> IF s.kind = "entry" THEN [w.entry EXCEPT ![s.file] = s.to] ELSE w.entry,
     node |-> w.node]
Landed(w, s) ==
    [table |-> IF s.kind = "fat" THEN Patched(w.table, s.patch) ELSE w.table,
     entry |-> IF s.kind = "entry" THEN [w.entry EXCEPT ![s.file] = s.to] ELSE w.entry,
     node |-> IF s.kind = "fat" THEN w.node ELSE [w.node EXCEPT ![s.file] = s.node]]

\* Wherever a step is cut, what is pending fits what is on disk.
Safe(w, s) ==
    s \in AllSteps /\ Good(w, s.pre) /\ Good(Written(w, s), s.pre) /\ Good(Landed(w, s), s.post)

\* The steps of s are safe one after the other and lead from w to z.
Runs(w, s, z) ==
    /\ s \in Seq(AllSteps) /\ z \in Worlds
    /\ \E W \in [0 .. Len(s) -> Worlds] :
          /\ W[0] = w /\ W[Len(s)] = z
          /\ \A i \in 1 .. Len(s) : Safe(W[i - 1], s[i]) /\ W[i] = Landed(W[i - 1], s[i])

\* The state of the specification.
World == [table |-> table, entry |-> entry, node |-> node]

\* The inductive invariant: the state fits what is pending, and what the
\* running operation has left is safe, wherever it is cut.
ChainInv ==
    /\ fat12 \in Kinds /\ lost \in SUBSET Clusters /\ issued \in BOOLEAN
    /\ Good(World, pending)
    /\ \E z \in Worlds : Runs(World, steps, z)
    /\ issued => steps # <<>> /\ pending = steps[1].pre

-----------------------------------------------------------------------------
(* Plans. *)

\* A plan without steps.
LEMMA RunsNone ==
  ASSUME NEW w \in Worlds
  PROVE  Runs(w, <<>>, w)
<1> DEFINE W == [i \in 0 .. 0 |-> w]
<1>1. W \in [0 .. Len(<<>>) -> Worlds] /\ W[0] = w /\ W[Len(<<>>)] = w OBVIOUS
<1>2. <<>> \in Seq(AllSteps) /\ Len(<<>>) = 0 OBVIOUS
<1> HIDE DEF W
<1> QED BY <1>1, <1>2 DEF Runs

\* A plan of one safe step.
LEMMA RunsOne ==
  ASSUME NEW w, NEW s, Safe(w, s)
  PROVE  Runs(w, <<s>>, Landed(w, s))
<1>0. w \in Worlds /\ Landed(w, s) \in Worlds /\ s \in AllSteps BY DEF Safe, Good
<1> DEFINE W == [i \in 0 .. 1 |-> IF i = 0 THEN w ELSE Landed(w, s)]
           q == <<s>>
<1>1. W \in [0 .. 1 -> Worlds] /\ W[0] = w /\ W[1] = Landed(w, s) BY <1>0
<1>2. q \in Seq(AllSteps) /\ Len(q) = 1 /\ q[1] = s BY <1>0
<1> HIDE DEF W, q
<1>3. \A i \in 1 .. 1 : Safe(W[i - 1], q[i]) /\ W[i] = Landed(W[i - 1], q[i])
  BY <1>1, <1>2
<1>4. Runs(w, q, Landed(w, s)) BY <1>0, <1>1, <1>2, <1>3 DEF Runs
<1> QED BY <1>4 DEF q

\* A plan after another.
LEMMA RunsJoin ==
  ASSUME NEW w, NEW s, NEW x, NEW q, NEW z, Runs(w, s, x), Runs(x, q, z)
  PROVE  Runs(w, s \o q, z)
<1>1. PICK A \in [0 .. Len(s) -> Worlds] :
        /\ A[0] = w /\ A[Len(s)] = x
        /\ \A i \in 1 .. Len(s) : Safe(A[i - 1], s[i]) /\ A[i] = Landed(A[i - 1], s[i])
  BY Zenon DEF Runs
<1>2. PICK B \in [0 .. Len(q) -> Worlds] :
        /\ B[0] = x /\ B[Len(q)] = z
        /\ \A i \in 1 .. Len(q) : Safe(B[i - 1], q[i]) /\ B[i] = Landed(B[i - 1], q[i])
  BY Zenon DEF Runs
<1> DEFINE m == Len(s)
           l == Len(q)
           r == s \o q
           W == [i \in 0 .. m + l |-> IF i <= m THEN A[i] ELSE B[i - m]]
<1>3. m \in Nat /\ l \in Nat /\ s \in Seq(AllSteps) /\ q \in Seq(AllSteps) /\ z \in Worlds
  BY DEF Runs
<1>4. /\ r \in Seq(AllSteps) /\ Len(r) = m + l
      /\ \A i \in 1 .. m : r[i] = s[i]
      /\ \A i \in 1 .. l : r[m + i] = q[i]
  BY <1>3
<1> HIDE DEF m, l, r
<1>5. W \in [0 .. m + l -> Worlds] BY <1>1, <1>2, <1>3 DEF m, l
<1>6. \A i \in 0 .. m : W[i] = A[i] BY <1>3
<1>7. \A i \in 0 .. l : W[m + i] = B[i]
  <2> TAKE i \in 0 .. l
  <2>1. CASE i = 0
    <3>1. W[m + i] = A[m] BY <1>3, <2>1
    <3> QED BY <1>1, <1>2, <2>1, <3>1 DEF m
  <2>2. CASE i # 0
    <3>1. m + i \in 0 .. m + l /\ ~(m + i <= m) /\ (m + i) - m = i BY <1>3, <2>2
    <3> QED BY <3>1
  <2> QED BY <2>1, <2>2
<1> HIDE DEF W
<1>8. ASSUME NEW i \in 1 .. m + l
      PROVE  Safe(W[i - 1], r[i]) /\ W[i] = Landed(W[i - 1], r[i])
  <2>1. CASE i <= m
    <3>1. i \in 1 .. m /\ i \in 0 .. m /\ i - 1 \in 0 .. m BY <1>3, <2>1
    <3>2. W[i - 1] = A[i - 1] /\ W[i] = A[i] /\ r[i] = s[i] BY <1>4, <1>6, <3>1
    <3> QED BY <1>1, <3>1, <3>2 DEF m
  <2>2. CASE ~(i <= m)
    <3> DEFINE j == i - m
    <3>1. j \in 1 .. l /\ j \in 0 .. l /\ j - 1 \in 0 .. l /\ m + j = i /\ m + (j - 1) = i - 1
      BY <1>3, <2>2
    <3> HIDE DEF j
    <3>2. W[i - 1] = B[j - 1] /\ W[i] = B[j] /\ r[i] = q[j] BY <1>4, <1>7, <3>1
    <3> QED BY <1>2, <3>1, <3>2 DEF l
  <2> QED BY <2>1, <2>2
<1>9. W[0] = w /\ W[m + l] = z
  <2>1. 0 \in 0 .. m /\ l \in 0 .. l BY <1>3
  <2> QED BY <1>1, <1>2, <1>6, <1>7, <2>1 DEF l
<1>10. Runs(w, r, z) BY <1>3, <1>4, <1>5, <1>8, <1>9, Zenon DEF Runs
<1> QED BY <1>10 DEF r

\* The first step, and the rest.
LEMMA RunsTail ==
  ASSUME NEW w, NEW s, NEW z, Runs(w, s, z), s # <<>>
  PROVE  Safe(w, s[1]) /\ Runs(Landed(w, s[1]), Tail(s), z)
<1>1. PICK W \in [0 .. Len(s) -> Worlds] :
        /\ W[0] = w /\ W[Len(s)] = z
        /\ \A i \in 1 .. Len(s) : Safe(W[i - 1], s[i]) /\ W[i] = Landed(W[i - 1], s[i])
  BY DEF Runs
<1> DEFINE m == Len(s)
           q == Tail(s)
           V == [i \in 0 .. m - 1 |-> W[i + 1]]
<1>2. m \in Nat /\ m >= 1 /\ s \in Seq(AllSteps) /\ z \in Worlds BY DEF Runs
<1>3. /\ q \in Seq(AllSteps) /\ Len(q) = m - 1
      /\ \A i \in 1 .. m - 1 : q[i] = s[i + 1]
  BY <1>2
<1> HIDE DEF m, q
<1>4. V \in [0 .. m - 1 -> Worlds] /\ \A i \in 0 .. m - 1 : V[i] = W[i + 1] BY <1>1, <1>2 DEF m
<1> HIDE DEF V
<1>5. Safe(w, s[1]) /\ W[1] = Landed(w, s[1])
  <2>1. 1 \in 1 .. m /\ 1 - 1 = 0 BY <1>2
  <2> QED BY <1>1, <2>1 DEF m
<1>6. V[0] = Landed(w, s[1]) /\ V[m - 1] = z
  <2>1. 0 \in 0 .. m - 1 /\ m - 1 \in 0 .. m - 1 /\ (m - 1) + 1 = m /\ 0 + 1 = 1 BY <1>2
  <2> QED BY <1>1, <1>4, <1>5, <2>1 DEF m
<1>7. ASSUME NEW i \in 1 .. m - 1
      PROVE  Safe(V[i - 1], q[i]) /\ V[i] = Landed(V[i - 1], q[i])
  <2> DEFINE j == i + 1
  <2>1. j \in 1 .. m /\ j - 1 = i /\ i - 1 \in 0 .. m - 1 /\ i \in 0 .. m - 1 /\ (i - 1) + 1 = i
    BY <1>2
  <2>2. V[i - 1] = W[j - 1] /\ V[i] = W[j] /\ q[i] = s[j] BY <1>3, <1>4, <2>1
  <2> HIDE DEF j
  <2> QED BY <1>1, <2>1, <2>2 DEF m
<1>8. Runs(Landed(w, s[1]), q, z)
  BY <1>2, <1>3, <1>4, <1>6, <1>7, Zenon DEF Runs
<1> QED BY <1>5, <1>8 DEF q

\* The values of a table entry.
LEMMA Numbers ==
  /\ Free = 0 /\ Free \notin Clusters /\ EOC \notin Clusters /\ EOC # Free
  /\ Clusters \in SUBSET Nat /\ Values = Clusters \cup {Free, EOC}
  BY MaxClusterAssumption DEF Free, EOC, Clusters, Values

\* Nothing pending.
LEMMA PendingType ==
  /\ NoPending \in Pendings /\ NoPending.head = 0 /\ NoPending.extra = 0
  /\ NoPending.owner = Nothing /\ Nothing.kind = "none"
  BY DEF NoPending, Held, Nothing, Pendings, Owners

\* A step keeps its effect when it ends its operation.
LEMMA LastStep ==
  ASSUME NEW w, NEW s, Safe(w, s), Good(Landed(w, s), NoPending)
  PROVE  LET q == [s EXCEPT !.post = NoPending]
         IN  Safe(w, q) /\ Landed(w, q) = Landed(w, s)
<1> DEFINE q == [s EXCEPT !.post = NoPending]
<1>0. s \in AllSteps BY DEF Safe
<1>1. q \in AllSteps /\ q.kind = s.kind /\ q.pre = s.pre /\ q.post = NoPending
  BY <1>0, PendingType DEF AllSteps, FatSteps, EntrySteps, DataSteps
<1>2. /\ s.kind = "fat" => q.patch = s.patch
      /\ s.kind # "fat" => q.file = s.file /\ q.node = s.node
      /\ s.kind = "entry" => q.to = s.to
  BY <1>0 DEF AllSteps, FatSteps, EntrySteps, DataSteps
<1> HIDE DEF q
<1>3. Written(w, q) = Written(w, s) /\ Landed(w, q) = Landed(w, s)
  <2>1. s.kind \in {"fat", "entry", "data"}
    BY <1>0 DEF AllSteps, FatSteps, EntrySteps, DataSteps
  <2> QED BY <1>1, <1>2, <2>1 DEF Written, Landed
<1>4. Safe(w, q) BY <1>1, <1>3 DEF Safe
<1> QED BY <1>3, <1>4 DEF q

\* The end of an operation clears what is pending.
LEMMA RunsFinish ==
  ASSUME NEW w, NEW s, NEW z, Runs(w, s, z), Good(z, NoPending)
  PROVE  Runs(w, Finished(s), z)
<1>1. PICK W \in [0 .. Len(s) -> Worlds] :
        /\ W[0] = w /\ W[Len(s)] = z
        /\ \A i \in 1 .. Len(s) : Safe(W[i - 1], s[i]) /\ W[i] = Landed(W[i - 1], s[i])
  BY Zenon DEF Runs
<1> DEFINE m == Len(s)
           q == Finished(s)
<1>2. m \in Nat /\ s \in Seq(AllSteps) /\ DOMAIN s = 1 .. m /\ z \in Worlds BY DEF Runs
<1>3. q = [i \in 1 .. m |-> IF i = m THEN [s[i] EXCEPT !.post = NoPending] ELSE s[i]]
  BY <1>2 DEF Finished
<1> HIDE DEF m, q
<1>4. ASSUME NEW i \in 1 .. m
      PROVE  Safe(W[i - 1], q[i]) /\ W[i] = Landed(W[i - 1], q[i])
  <2>1. Safe(W[i - 1], s[i]) /\ W[i] = Landed(W[i - 1], s[i]) BY <1>1 DEF m
  <2>2. CASE i = m
    <3>1. Good(Landed(W[i - 1], s[i]), NoPending) BY <1>1, <2>1, <2>2 DEF m
    <3>2. q[i] = [s[i] EXCEPT !.post = NoPending] BY <1>3, <2>2
    <3> QED BY <2>1, <3>1, <3>2, LastStep
  <2>3. CASE i # m
    <3>1. q[i] = s[i] BY <1>3, <2>3
    <3> QED BY <2>1, <3>1
  <2> QED BY <2>2, <2>3
<1>5. q \in Seq(AllSteps) /\ Len(q) = m
  <2>1. \A i \in 1 .. m : q[i] \in AllSteps BY <1>4 DEF Safe
  <2>2. q \in [1 .. m -> AllSteps] BY <1>3, <2>1
  <2> QED BY <1>2, <2>2
<1>6. Runs(w, q, z) BY <1>1, <1>2, <1>4, <1>5, Zenon DEF Runs, m
<1> QED BY <1>6 DEF q

-----------------------------------------------------------------------------
(* Freeing a path from its start. *)

\* A sequence of links is a way from one cluster to another.
LEMMA LinksReach ==
  ASSUME NEW t, NEW q \in Seq(Clusters), NEW i \in 1 .. Len(q), NEW j \in 1 .. Len(q), i <= j,
         \A k \in i .. j - 1 : t[q[k]] = q[k + 1]
  PROVE  Reaches(t, q[i], q[j])
<1> SUFFICES ASSUME NEW S \in SUBSET Clusters, q[i] \in S, Closed(t, S), q[j] \notin S PROVE FALSE
  BY DEF Reaches
<1> DEFINE Bad == {k \in Nat : i <= k /\ k <= j /\ q[k] \notin S}
<1>0. Len(q) \in Nat /\ i \in Nat /\ j \in Nat /\ i >= 1 /\ j <= Len(q) OBVIOUS
<1>1. j \in Bad BY <1>0
<1>2. PICK k \in Bad : \A m \in Bad : k <= m BY <1>1, LeastNatural, Zenon
<1>3. k # i BY <1>2
<1>4. k - 1 \in i .. j - 1 /\ k - 1 \notin Bad BY <1>0, <1>2, <1>3
<1>5. q[k - 1] \in S BY <1>0, <1>4
<1>6. t[q[k - 1]] = q[k] BY <1>0, <1>2, <1>4
<1>7. q[k] \in Clusters BY <1>0, <1>2
<1>8. q[k] \in S BY <1>5, <1>6, <1>7 DEF Closed
<1> QED BY <1>2, <1>8

\* A table without the clusters of S, and the first a clusters of q.
FreedTable(t, S) == [c \in Clusters |-> IF c \in S THEN Free ELSE t[c]]
Prefix(q, a) == {q[i] : i \in 1 .. a}

\* q is a path of t that nothing leads to.
Loose(t, e, q) == IsPath(t, q) /\ (q # <<>> => LinkedBy(t, e, q[1], {}, {}))

\* Nothing leads to a freed cluster, nor to the one after it.
LEMMA FreedFacts ==
  ASSUME NEW t \in [Clusters -> Values], NEW e \in [Files -> Entries], Sound(t, e),
         NEW q, Loose(t, e, q),
         NEW a \in 0 .. Len(q)
  PROVE  LET u == FreedTable(t, Prefix(q, a))
         IN  /\ u \in [Clusters -> Values] /\ Sound(u, e)
             /\ \A c \in Prefix(q, a) : u[c] = Free
             /\ \A c \in Clusters : u[c] = t[c] \/ u[c] = Free
             /\ a < Len(q) => LinkedBy(u, e, q[a + 1], {}, {})
             /\ \A i \in 1 .. Len(q) : i <= a => LinkedBy(u, e, q[i], {}, {})
<1> DEFINE P == Prefix(q, a)
           u == FreedTable(t, P)
<1>0. q \in Seq(Clusters) /\ Len(q) \in Nat /\ a \in Nat /\ a <= Len(q)
  BY DEF Loose, IsPath
<1>1. \A c \in Clusters : u[c] = IF c \in P THEN Free ELSE t[c] BY DEF FreedTable
<1>2. u \in [Clusters -> Values] BY Numbers DEF FreedTable
<1>3. \A c \in P : c \in Clusters BY <1>0 DEF Prefix
<1>4. ASSUME NEW i \in 1 .. Len(q), i <= a + 1 PROVE LinkedBy(u, e, q[i], {}, {})
  <2>0. q[i] \in Clusters /\ q[i] # Free BY <1>0, Numbers
  <2>1. CASE i = 1
    <3>1. LinkedBy(t, e, q[i], {}, {}) BY <1>0, <2>1 DEF Loose
    <3> QED BY <1>1, <2>0, <3>1 DEF LinkedBy
  <2>2. CASE i # 1
    <3>1. i - 1 \in 1 .. Len(q) - 1 /\ i - 1 \in 1 .. a /\ (i - 1) + 1 = i BY <1>0, <1>4, <2>2
    <3>2. t[q[i - 1]] = q[i] BY <3>1 DEF Loose, IsPath
    <3>3. q[i - 1] \in P BY <3>1 DEF Prefix
    <3>4. \A d \in Clusters : t[d] = q[i] => d = q[i - 1]
      BY <1>3, <2>0, <3>2, <3>3 DEF Sound
    <3>5. \A f \in Files : ~(e[f].used /\ e[f].first = q[i])
      BY <1>3, <2>0, <3>2, <3>3, Numbers, Zenon DEF Sound
    <3> QED BY <1>1, <2>0, <3>3, <3>4, <3>5 DEF LinkedBy
  <2> QED BY <2>1, <2>2
<1>5. \A c \in P : LinkedBy(u, e, c, {}, {}) BY <1>0, <1>4 DEF Prefix
<1> HIDE DEF u, P
<1>6. Sound(u, e)
  <2>1. \A c \in Clusters : u[c] \in Clusters => u[c] = t[c] /\ u[c] \notin P
    BY <1>1, <1>5, Numbers DEF LinkedBy
  <2>2. \A f \in Files : e[f].used /\ e[f].first # 0 => e[f].first \notin P
    BY <1>5 DEF LinkedBy
  <2>3. \A c \in Clusters : u[c] \in Clusters => u[u[c]] # Free
    BY <1>1, <2>1 DEF Sound
  <2>4. \A f \in Files : e[f].used /\ e[f].first # 0 => u[e[f].first] # Free
    <3> TAKE f \in Files
    <3>1. e[f].first \in Clusters \cup {0} BY DEF Entries
    <3> QED BY <1>1, <2>2, <3>1 DEF Sound
  <2>5. \A c, d \in Clusters : u[c] = u[d] /\ u[c] \in Clusters => c = d
    BY <2>1 DEF Sound
  <2>6. \A f \in Files, c \in Clusters : e[f].used /\ e[f].first # 0 => u[c] # e[f].first
    <3> TAKE f \in Files, c \in Clusters
    <3>1. e[f].first \in Clusters \cup {0} BY DEF Entries
    <3> QED BY <2>1, <3>1 DEF Sound
  <2> QED BY <2>3, <2>4, <2>5, <2>6 DEF Sound
<1>7. \A c \in P : u[c] = Free BY <1>1, <1>3
<1>8. a < Len(q) => LinkedBy(u, e, q[a + 1], {}, {}) BY <1>0, <1>4
<1>9. \A i \in 1 .. Len(q) : i <= a => LinkedBy(u, e, q[i], {}, {}) BY <1>0, <1>4
<1> QED BY <1>1, <1>2, <1>6, <1>7, <1>8, <1>9 DEF u, P

\* A node in step with its entry stays so, whatever is pending.
LEMMA NodesFit ==
  ASSUME NEW t, NEW u, NEW e, NEW n, NEW p, NodeOK(t, e, n, NoPending)
  PROVE  NodeOK(u, e, n, p)
<1> SUFFICES ASSUME NEW f \in Files PROVE NodeFits(u, e[f], n[f], p, f)
  BY DEF NodeOK
<1>1. NoPending.owner # EntryOf(f) /\ NoPending.owner # Removed(f)
  <2>1. EntryOf(f).kind = "entry" /\ Removed(f).kind = "removed" BY DEF EntryOf, Removed
  <2> QED BY <2>1, PendingType
<1>2. NodeFits(t, e[f], n[f], NoPending, f) BY DEF NodeOK
<1> QED BY <1>1, <1>2 DEF NodeFits

\* An owner that is nothing names nothing.
LEMMA NothingIn == Nothing \in Owners /\ Tails(Nothing) = {} /\ Owning(Nothing) = {} /\ ~IsTail(Nothing)
  BY DEF Nothing, Owners, Tails, Owning, IsTail

\* Pending clusters that nothing owns.
LEMMA HeldByNothing ==
  ASSUME NEW h \in Clusters \cup {0}, NEW x \in Clusters \cup {0}, NEW t, NEW e,
         x # 0 => LinkedBy(t, e, x, {}, {}),
         h # 0 => LinkedBy(t, e, h, {}, {}) \/ (x # 0 /\ Reaches(t, x, h))
  PROVE  Held(h, x, Nothing) \in Pendings /\ PendOK(t, e, Held(h, x, Nothing))
<1> DEFINE p == Held(h, x, Nothing)
<1>1. p.head = h /\ p.extra = x /\ p.owner = Nothing BY DEF Held
<1>2. p \in Pendings BY NothingIn DEF Held, Pendings
<1> HIDE DEF p
<1>3. PendOK(t, e, p) BY <1>1, NothingIn DEF PendOK
<1> QED BY <1>2, <1>3 DEF p

\* The clusters of q from a + 1 to b are freed by one write.
FreeStep(q, a, b, keep) ==
    LET held == Held(IF b < Len(q) THEN q[b + 1] ELSE keep, q[a + 1], Nothing)
    IN  FatStep(held, [c \in {q[i] : i \in a + 1 .. b} |-> Free], held)

Freed(w, q, a) == [table |-> FreedTable(w.table, Prefix(q, a)), entry |-> w.entry, node |-> w.node]

\* What recovery has to free after q, if anything.
Kept(t, e, q, keep) ==
    /\ keep \in Clusters \cup {0}
    /\ keep # 0 => LinkedBy(t, e, keep, {}, {}) \/ \E i \in 1 .. Len(q) : q[i] = keep

\* The parts of a FAT step.
LEMMA FatStepFields ==
  ASSUME NEW p, NEW d, NEW r
  PROVE  LET s == FatStep(p, d, r)
         IN  s.kind = "fat" /\ s.pre = p /\ s.patch = d /\ s.post = r
  BY DEF FatStep

\* A write of FAT entries is safe when what it finds and leaves is.
LEMMA FatStepSafe ==
  ASSUME NEW w, NEW p, NEW d, NEW r, NEW D \in Groups, d \in [D -> Values],
         Good(w, p),
         LET u == [table |-> Patched(w.table, d), entry |-> w.entry, node |-> w.node]
         IN  Good(u, p) /\ Good(u, r)
  PROVE  LET s == FatStep(p, d, r)
         IN  /\ Safe(w, s)
             /\ Landed(w, s) = [table |-> Patched(w.table, d), entry |-> w.entry, node |-> w.node]
<1> DEFINE s == FatStep(p, d, r)
           u == [table |-> Patched(w.table, d), entry |-> w.entry, node |-> w.node]
<1>1. s.kind = "fat" /\ s.pre = p /\ s.patch = d /\ s.post = r BY FatStepFields
<1>2. s \in AllSteps
  <2>1. d \in Patches BY DEF Patches
  <2>2. p \in Pendings /\ r \in Pendings BY DEF Good
  <2> QED BY <2>1, <2>2 DEF AllSteps, FatSteps, FatStep
<1> HIDE DEF s
<1>3. Written(w, s) = u /\ Landed(w, s) = u BY <1>1 DEF Written, Landed
<1>4. Safe(w, s) BY <1>1, <1>2, <1>3 DEF Safe
<1> QED BY <1>3, <1>4 DEF s

\* A write that frees clusters from the start of a loose path is safe.
LEMMA FreeStepSafe ==
  ASSUME NEW w, Good(w, NoPending), NEW q, Loose(w.table, w.entry, q),
         NEW keep, Kept(w.table, w.entry, q, keep),
         NEW a \in Nat, NEW b \in Nat, a < b, b <= Len(q),
         \A i, j \in a + 1 .. b : q[i] = q[j] \/ SameBlock(q[i], q[j])
  PROVE  /\ Good(Freed(w, q, a), NoPending) /\ Good(Freed(w, q, b), NoPending)
         /\ Safe(Freed(w, q, a), FreeStep(q, a, b, keep))
         /\ Landed(Freed(w, q, a), FreeStep(q, a, b, keep)) = Freed(w, q, b)
<1> DEFINE t == w.table
           e == w.entry
           m == Len(q)
           T(k) == FreedTable(t, Prefix(q, k))
           h == IF b < m THEN q[b + 1] ELSE keep
           x == q[a + 1]
           held == Held(h, x, Nothing)
           d == [c \in {q[i] : i \in a + 1 .. b} |-> Free]
<1>0. /\ t \in [Clusters -> Values] /\ e \in [Files -> Entries] /\ w.node \in [Files -> Nodes]
      /\ Sound(t, e) /\ NodeOK(t, e, w.node, NoPending)
  BY DEF Good, Worlds
<1>1. q \in Seq(Clusters) /\ m \in Nat BY DEF Loose, IsPath
<1> HIDE DEF t, e, m
<1>2. /\ a \in 0 .. m /\ b \in 0 .. m /\ a + 1 \in 1 .. m /\ (b < m => b + 1 \in 1 .. m)
      /\ a < m
  BY <1>1 DEF m
<1>3. x \in Clusters /\ h \in Clusters \cup {0} /\ x # 0
  <2>1. x \in Clusters BY <1>1, <1>2 DEF m
  <2>2. b < m => q[b + 1] \in Clusters BY <1>1, <1>2 DEF m
  <2>3. keep \in Clusters \cup {0} BY DEF Kept
  <2> QED BY <2>1, <2>2, <2>3, Numbers
<1>4. ASSUME NEW k \in 0 .. m
      PROVE  /\ T(k) \in [Clusters -> Values] /\ Sound(T(k), e)
             /\ \A c \in Prefix(q, k) : T(k)[c] = Free
             /\ \A c \in Clusters : T(k)[c] = t[c] \/ T(k)[c] = Free
             /\ k < m => LinkedBy(T(k), e, q[k + 1], {}, {})
             /\ \A i \in 1 .. m : i <= k => LinkedBy(T(k), e, q[i], {}, {})
  BY <1>0, FreedFacts DEF t, e, m
<1>5. ASSUME NEW k \in {a, b}
      PROVE  LinkedBy(T(k), e, x, {}, {})
  BY <1>1, <1>2, <1>4
<1>6. \A i \in a + 1 .. m - 1 : T(a)[q[i]] = q[i + 1]
  <2> TAKE i \in a + 1 .. m - 1
  <2>1. i \in 1 .. m - 1 /\ i \in 1 .. m BY <1>1, <1>2
  <2>2. q[i] \in Clusters BY <1>1, <2>1 DEF m
  <2>3. q[i] \notin Prefix(q, a)
    <3> SUFFICES ASSUME NEW j \in 1 .. a, q[i] = q[j] PROVE FALSE BY DEF Prefix
    <3>1. j \in 1 .. m /\ j # i BY <1>1, <1>2
    <3> QED BY <2>1, <3>1 DEF Loose, IsPath, m
  <2>4. t[q[i]] = q[i + 1] BY <2>1 DEF Loose, IsPath, t, m
  <2> QED BY <2>2, <2>3, <2>4 DEF FreedTable
<1>7. ASSUME NEW i \in a + 1 .. m PROVE Reaches(T(a), x, q[i])
  <2> HIDE DEF T
  <2>1. i \in 1 .. Len(q) /\ a + 1 \in 1 .. Len(q) /\ a + 1 <= i BY <1>1, <1>2 DEF m
  <2>2. \A k \in a + 1 .. i - 1 : T(a)[q[k]] = q[k + 1] BY <1>1, <1>2, <1>6
  <2> QED BY <1>1, <2>1, <2>2, LinksReach, Zenon
<1> HIDE DEF T
<1>8. ASSUME h # 0, NEW k \in {a, b}
      PROVE  LinkedBy(T(k), e, h, {}, {}) \/ Reaches(T(k), x, h)
  <2>1. CASE b < m
    <3>1. CASE k = a BY <1>1, <1>2, <1>7, <2>1, <3>1
    <3>2. CASE k = b BY <1>2, <1>4, <2>1, <3>2
    <3> QED BY <3>1, <3>2
  <2>2. CASE ~(b < m)
    <3>1. h = keep /\ b = m BY <1>1, <2>2 DEF m
    <3>2. CASE LinkedBy(t, e, keep, {}, {})
      <4>1. keep \in Clusters BY <1>3, <1>8, <3>1
      <4>2. \A c \in Clusters : T(k)[c] = t[c] \/ T(k)[c] = Free BY <1>2, <1>4
      <4>3. LinkedBy(T(k), e, keep, {}, {}) BY <3>2, <4>1, <4>2, Numbers DEF LinkedBy
      <4> QED BY <3>1, <4>3
    <3>3. CASE \E i \in 1 .. m : q[i] = keep
      <4>1. PICK i \in 1 .. m : q[i] = keep BY <3>3
      <4>2. CASE i <= k BY <1>2, <1>4, <3>1, <4>1, <4>2
      <4>3. CASE ~(i <= k)
        <5>1. k = a /\ i \in a + 1 .. m BY <1>1, <1>2, <3>1, <4>1, <4>3
        <5> QED BY <1>7, <3>1, <4>1, <5>1
      <4> QED BY <4>2, <4>3
    <3> QED BY <1>8, <3>1, <3>2, <3>3 DEF Kept, t, e, m
  <2> QED BY <2>1, <2>2
<1>9. ASSUME NEW k \in {a, b}
      PROVE  /\ Good(Freed(w, q, k), held) /\ Good(Freed(w, q, k), NoPending)
  <2> DEFINE u == Freed(w, q, k)
  <2>1. u.table = T(k) /\ u.entry = e /\ u.node = w.node BY DEF Freed, T, t, e
  <2>2. u \in Worlds BY <1>0, <1>2, <1>4, <2>1 DEF Worlds, Freed, T, t, e
  <2> HIDE DEF u
  <2>3. Sound(u.table, u.entry) BY <1>2, <1>4, <2>1
  <2>4. held \in Pendings /\ PendOK(u.table, u.entry, held)
    BY <1>3, <1>5, <1>8, <2>1, HeldByNothing, Zenon
  <2>5. PendOK(u.table, u.entry, NoPending) BY PendingType, NothingIn DEF PendOK
  <2>6. \A p : NodeOK(u.table, u.entry, u.node, p) BY <1>0, <2>1, NodesFit
  <2>7. Good(u, held) /\ Good(u, NoPending)
    BY <2>2, <2>3, <2>4, <2>5, <2>6, PendingType DEF Good
  <2> QED BY <2>7 DEF u
<1>10. {q[i] : i \in a + 1 .. b} \in Groups
  <2> DEFINE D == {q[i] : i \in a + 1 .. b}
  <2>1. D \in SUBSET Clusters BY <1>1, <1>2 DEF m
  <2>2. x \in D BY <1>2
  <2>3. \A c, y \in D : c = y \/ SameBlock(c, y) OBVIOUS
  <2> HIDE DEF D
  <2>4. D \in Groups BY <2>1, <2>2, <2>3 DEF Groups
  <2> QED BY <2>4 DEF D
<1>11. d \in [{q[i] : i \in a + 1 .. b} -> Values] BY Numbers
<1>12. Patched(T(a), d) = T(b)
  <2> SUFFICES ASSUME NEW c \in Clusters
               PROVE  (IF c \in {q[i] : i \in a + 1 .. b} THEN Free ELSE T(a)[c]) = T(b)[c]
    BY DEF Patched, T, FreedTable
  <2>1. c \in Prefix(q, b) <=> c \in Prefix(q, a) \/ c \in {q[i] : i \in a + 1 .. b}
    <3>1. \A i : i \in 1 .. b <=> i \in 1 .. a \/ i \in a + 1 .. b OBVIOUS
    <3> QED BY <3>1 DEF Prefix
  <2> QED BY <2>1 DEF T, FreedTable
<1>13. FreeStep(q, a, b, keep) = FatStep(held, d, held) BY DEF FreeStep, m
<1>14. Freed(w, q, b) = [table |-> Patched(Freed(w, q, a).table, d),
                         entry |-> Freed(w, q, a).entry, node |-> Freed(w, q, a).node]
  BY <1>12 DEF Freed, T, t
<1> HIDE DEF held, d
<1>15. /\ Safe(Freed(w, q, a), FatStep(held, d, held))
       /\ Landed(Freed(w, q, a), FatStep(held, d, held)) = Freed(w, q, b)
  <2> DEFINE v == Freed(w, q, a)
             D == {q[i] : i \in a + 1 .. b}
  <2>1. Good(v, held) BY <1>9
  <2>2. LET u == [table |-> Patched(v.table, d), entry |-> v.entry, node |-> v.node]
        IN  Good(u, held) /\ Good(u, held)
    BY <1>9, <1>14
  <2>3. D \in Groups /\ d \in [D -> Values] BY <1>10, <1>11
  <2> HIDE DEF v, D
  <2>4. /\ Safe(v, FatStep(held, d, held))
        /\ Landed(v, FatStep(held, d, held)) =
             [table |-> Patched(v.table, d), entry |-> v.entry, node |-> v.node]
    BY <2>1, <2>2, <2>3, FatStepSafe
  <2> QED BY <2>4, <1>14 DEF v
<1> QED BY <1>9, <1>13, <1>15

\* The writes of s free q from its start, with the cuts b between them.
Frees(s, q, keep) ==
    \E K \in Nat : \E b \in [0 .. K -> Nat] :
        /\ b[0] = 0 /\ b[K] = Len(q)
        /\ s = [k \in 1 .. K |-> FreeStep(q, b[k - 1], b[k], keep)]
        /\ \A k \in 1 .. K :
              /\ b[k - 1] < b[k] /\ b[k] <= Len(q)
              /\ \A i, j \in b[k - 1] + 1 .. b[k] : q[i] = q[j] \/ SameBlock(q[i], q[j])

\* With nothing freed, nothing changed.
LEMMA FreedNone ==
  ASSUME NEW w \in Worlds, NEW q
  PROVE  Freed(w, q, 0) = w
<1>1. Prefix(q, 0) = {} BY DEF Prefix
<1>2. FreedTable(w.table, Prefix(q, 0)) = w.table BY <1>1 DEF FreedTable, Worlds
<1> QED BY <1>2 DEF Freed, Worlds

\* Freeing a path that nothing leads to is safe at every write.
LEMMA FreesRun ==
  ASSUME NEW w, Good(w, NoPending), NEW q, Loose(w.table, w.entry, q),
         NEW keep, Kept(w.table, w.entry, q, keep), NEW s, Frees(s, q, keep)
  PROVE  Runs(w, s, Freed(w, q, Len(q))) /\ Good(Freed(w, q, Len(q)), NoPending)
<1>1. PICK K \in Nat : \E b \in [0 .. K -> Nat] :
        /\ b[0] = 0 /\ b[K] = Len(q)
        /\ s = [k \in 1 .. K |-> FreeStep(q, b[k - 1], b[k], keep)]
        /\ \A k \in 1 .. K :
              /\ b[k - 1] < b[k] /\ b[k] <= Len(q)
              /\ \A i, j \in b[k - 1] + 1 .. b[k] : q[i] = q[j] \/ SameBlock(q[i], q[j])
  BY Zenon DEF Frees
<1>2. PICK b \in [0 .. K -> Nat] :
        /\ b[0] = 0 /\ b[K] = Len(q)
        /\ s = [k \in 1 .. K |-> FreeStep(q, b[k - 1], b[k], keep)]
        /\ \A k \in 1 .. K :
              /\ b[k - 1] < b[k] /\ b[k] <= Len(q)
              /\ \A i, j \in b[k - 1] + 1 .. b[k] : q[i] = q[j] \/ SameBlock(q[i], q[j])
  BY <1>1, Zenon
<1>3. w \in Worlds BY DEF Good
<1> DEFINE W == [k \in 0 .. K |-> Freed(w, q, b[k])]
<1>4. ASSUME NEW k \in 1 .. K
      PROVE  /\ s[k] = FreeStep(q, b[k - 1], b[k], keep)
             /\ Safe(W[k - 1], s[k]) /\ W[k] = Landed(W[k - 1], s[k])
             /\ Good(W[k], NoPending)
  <2>1. k - 1 \in 0 .. K /\ k \in 0 .. K OBVIOUS
  <2>2. b[k - 1] \in Nat /\ b[k] \in Nat BY <2>1
  <2>3. W[k - 1] = Freed(w, q, b[k - 1]) /\ W[k] = Freed(w, q, b[k]) BY <2>1
  <2>4. s[k] = FreeStep(q, b[k - 1], b[k], keep) BY <1>2
  <2> HIDE DEF W
  <2> DEFINE a == b[k - 1]
             c == b[k]
  <2>5. /\ a \in Nat /\ c \in Nat /\ a < c /\ c <= Len(q)
        /\ \A i, j \in a + 1 .. c : q[i] = q[j] \/ SameBlock(q[i], q[j])
    BY <1>2, <2>2
  <2> HIDE DEF a, c
  <2>6. /\ Safe(Freed(w, q, a), FreeStep(q, a, c, keep)) /\ Good(Freed(w, q, c), NoPending)
        /\ Landed(Freed(w, q, a), FreeStep(q, a, c, keep)) = Freed(w, q, c)
    BY <2>5, FreeStepSafe
  <2> QED BY <2>3, <2>4, <2>6 DEF a, c
<1>5. W[0] = w /\ W[K] = Freed(w, q, Len(q))
  BY <1>2, <1>3, FreedNone
<1> HIDE DEF W
<1>6. ASSUME NEW k \in 0 .. K PROVE Good(W[k], NoPending)
  <2>1. CASE k = 0 BY <1>5, <2>1
  <2>2. CASE k # 0
    <3>1. k \in 1 .. K BY <2>2
    <3> QED BY <1>4, <3>1
  <2> QED BY <2>1, <2>2
<1>7. W \in [0 .. K -> Worlds]
  <2>1. \A k \in 0 .. K : W[k] \in Worlds BY <1>6 DEF Good
  <2> QED BY <2>1 DEF W
<1>8. s \in Seq(AllSteps) /\ Len(s) = K
  <2>1. \A k \in 1 .. K : s[k] \in AllSteps BY <1>4 DEF Safe
  <2>2. s \in [1 .. K -> AllSteps] BY <1>2, <2>1
  <2> QED BY <2>2
<1>9. Good(W[K], NoPending) /\ W[K] \in Worlds BY <1>6, <1>7
<1>10. Runs(w, s, W[K])
  <2>1. \A i \in 1 .. Len(s) : Safe(W[i - 1], s[i]) /\ W[i] = Landed(W[i - 1], s[i])
    BY <1>4, <1>8
  <2>2. W \in [0 .. Len(s) -> Worlds] /\ W[0] = w /\ W[Len(s)] = W[K] BY <1>5, <1>7, <1>8
  <2> QED BY <1>8, <1>9, <2>1, <2>2, Zenon DEF Runs
<1> QED BY <1>5, <1>9, <1>10

\* reclaim frees one cluster at a time.
LEMMA ReclaimFrees ==
  ASSUME NEW q \in Seq(Clusters), NEW keep
  PROVE  Frees(Reclaim(q, keep), q, keep)
<1> DEFINE K == Len(q)
           b == [k \in 0 .. K |-> k]
<1>1. K \in Nat /\ DOMAIN q = 1 .. K OBVIOUS
<1> HIDE DEF K
<1>2. b \in [0 .. K -> Nat] /\ b[0] = 0 /\ b[K] = K BY <1>1
<1>3. \A k \in 1 .. K : b[k - 1] = k - 1 /\ b[k] = k BY <1>1
<1>4. ASSUME NEW k \in 1 .. K
      PROVE  FreeStep(q, k - 1, k, keep) =
               FatStep(Held(IF k = K THEN keep ELSE q[k + 1], q[k], Nothing),
                       [c \in {q[k]} |-> Free],
                       Held(IF k = K THEN keep ELSE q[k + 1], q[k], Nothing))
  <2>1. (k - 1) + 1 = k /\ (k < K <=> k # K) BY <1>1
  <2>2. {q[i] : i \in k .. k} = {q[k]} BY <1>1
  <2> QED BY <2>1, <2>2 DEF FreeStep, K
<1>5. Reclaim(q, keep) = [k \in 1 .. K |-> FreeStep(q, b[k - 1], b[k], keep)]
  <2>1. Reclaim(q, keep) =
          [k \in 1 .. K |-> FatStep(Held(IF k = K THEN keep ELSE q[k + 1], q[k], Nothing),
                                    [c \in {q[k]} |-> Free],
                                    Held(IF k = K THEN keep ELSE q[k + 1], q[k], Nothing))]
    BY <1>1 DEF Reclaim, K
  <2> HIDE DEF b
  <2> QED BY ZenonT(30), <1>3, <1>4, <2>1
<1>6. ASSUME NEW k \in 1 .. K
      PROVE  /\ b[k - 1] < b[k] /\ b[k] <= K
             /\ \A i, j \in b[k - 1] + 1 .. b[k] : q[i] = q[j] \/ SameBlock(q[i], q[j])
  <2>1. k \in Nat /\ (k - 1) + 1 = k /\ k - 1 < k /\ k <= K BY <1>1
  <2>2. \A i, j \in k .. k : i = j BY <2>1
  <2> HIDE DEF b
  <2>3. b[k - 1] = k - 1 /\ b[k] = k BY <1>3
  <2> QED BY <2>1, <2>2, <2>3
<1> HIDE DEF b
<1> QED BY <1>1, <1>2, <1>5, <1>6, Zenon DEF Frees, K

\* Neighbours in one block make a group.
LEMMA OneBlock ==
  ASSUME NEW q, NEW a \in Nat, NEW b \in Nat, \A i \in a + 1 .. b : SameBlock(q[i - 1], q[i])
  PROVE  \A i, j \in a .. b : q[i] = q[j] \/ SameBlock(q[i], q[j])
<1> DEFINE Bad == {i \in Nat : a < i /\ i <= b /\ ~SameBlock(q[a], q[i])}
<1>1. Bad = {}
  <2> SUFFICES ASSUME Bad # {} PROVE FALSE OBVIOUS
  <2>1. PICK i \in Bad : \A m \in Bad : i <= m BY LeastNatural, Zenon
  <2>2. i \in a + 1 .. b /\ i - 1 \in Nat /\ i - 1 \notin Bad BY <2>1
  <2>3. SameBlock(q[i - 1], q[i]) BY <2>2
  <2>4. CASE i - 1 = a BY <2>1, <2>3, <2>4
  <2>5. CASE i - 1 # a
    <3>1. SameBlock(q[a], q[i - 1]) BY <2>1, <2>2, <2>5
    <3>2. SameBlock(q[a], q[i]) BY <2>3, <3>1 DEF SameBlock
    <3> QED BY <2>1, <3>2
  <2> QED BY <2>4, <2>5
<1>2. \A i \in a .. b : i = a \/ SameBlock(q[a], q[i]) BY <1>1
<1> QED BY <1>2 DEF SameBlock

\* free_chain frees the clusters that share a block together.
LEMMA FreeChainFrees ==
  ASSUME NEW q \in Seq(Clusters)
  PROVE  Frees(FreeChain(q), q, 0)
<1> DEFINE m == Len(q)
           S == {i \in 1 .. m : i = 1 \/ fat12 \/ ~SameBlock(q[i - 1], q[i])}
           r == [i \in 1 .. m |-> i]
           K == Cardinality(S)
           nth(k) == Nth(S, r, k)
           next(k) == IF k = K THEN m + 1 ELSE nth(k + 1)
           b == [k \in 0 .. K |-> IF k = 0 THEN 0 ELSE next(k) - 1]
<1>1. m \in Nat /\ DOMAIN q = 1 .. m OBVIOUS
<1>2. FreeChain(q) =
        [k \in 1 .. K |->
           FatStep(Held(IF next(k) > m THEN 0 ELSE q[next(k)], q[nth(k)], Nothing),
                   [c \in {q[i] : i \in nth(k) .. next(k) - 1} |-> Free],
                   Held(IF next(k) > m THEN 0 ELSE q[next(k)], q[nth(k)], Nothing))]
  BY <1>1 DEF FreeChain
<1> HIDE DEF m
<1>3. IsFiniteSet(S) /\ K \in Nat /\ S \in SUBSET (1 .. m)
  <2>1. 1 \in Int /\ m \in Int BY <1>1
  <2>2. IsFiniteSet(1 .. m) BY <2>1, FS_Interval
  <2> QED BY <2>2, FS_Subset, FS_CardinalityType, Zenon
<1>4. Ranked(S, r) /\ \A i \in S : r[i] = i /\ i \in Nat
  BY <1>1, <1>3 DEF Ranked
<1> HIDE DEF r
<1>5. ASSUME NEW k \in 1 .. K
      PROVE  /\ nth(k) \in S /\ nth(k) \in 1 .. m
             /\ k # K => nth(k + 1) \in S /\ nth(k + 1) \in 1 .. m /\ nth(k) < nth(k + 1)
             /\ k = 1 => nth(k) = 1
             /\ \A i \in S : ~(nth(k) < i /\ i < next(k))
  <2>1. nth(k) \in S BY <1>4, NthIs
  <2>2. k # K => k + 1 \in 1 .. K BY <1>3
  <2>3. k # K => nth(k + 1) \in S /\ r[nth(k)] < r[nth(k + 1)]
    <3>1. k # K => nth(k + 1) \in S BY <1>4, <2>2, NthIs
    <3>2. k # K => (k < k + 1 <=> r[nth(k)] < r[nth(k + 1)]) BY <1>4, <2>2, NthOrder
    <3> QED BY <1>3, <3>1, <3>2
  <2>4. \A i \in S : k + 1 \in 1 .. K => ~(r[nth(k)] < r[i] /\ r[i] < r[nth(k + 1)])
    BY <1>4, NthGap
  <2>5. \A i \in S : k = 1 => ~(r[i] < r[nth(k)]) BY <1>4, NthGap
  <2>6. \A i \in S : k = K => ~(r[nth(k)] < r[i]) BY <1>4, NthGap
  <2>7. k = 1 => nth(k) = 1
    <3>1. m >= 1 BY <1>1, <1>3, <2>1
    <3>2. 1 \in S BY <1>1, <3>1
    <3> QED BY <1>3, <1>4, <2>1, <2>5, <3>2
  <2>8. ASSUME NEW i \in S PROVE ~(nth(k) < i /\ i < next(k))
    <3>1. CASE k = K BY <1>4, <2>1, <2>6, <3>1, Zenon
    <3>2. CASE k # K BY <1>4, <2>1, <2>2, <2>3, <2>4, <3>2, Zenon
    <3> QED BY <3>1, <3>2
  <2> HIDE DEF S, nth, K
  <2> QED BY <1>3, <1>4, <2>1, <2>3, <2>7, <2>8, Zenon
<1>6. ASSUME NEW k \in 1 .. K
      PROVE  /\ b[k] = next(k) - 1 /\ b[k - 1] = nth(k) - 1 /\ nth(k) \in 1 .. m
             /\ next(k) \in Nat /\ nth(k) < next(k) /\ next(k) <= m + 1
  <2>1. next(k) \in Nat /\ nth(k) < next(k) /\ next(k) <= m + 1 /\ nth(k) \in 1 .. m
    <3> HIDE DEF S, nth, K
    <3> QED BY <1>1, <1>5
  <2>2. b[k] = next(k) - 1 BY <1>3
  <2>3. b[k - 1] = nth(k) - 1
    <3>1. CASE k = 1
      <4>1. b[k - 1] = 0 /\ nth(k) = 1 BY <1>3, <1>5, <3>1
      <4> QED BY <4>1
    <3>2. CASE k # 1
      <4>1. k - 1 \in 1 .. K /\ k - 1 # K /\ (k - 1) + 1 = k /\ k - 1 # 0 /\ k - 1 \in 0 .. K
        BY <1>3, <3>2
      <4> HIDE DEF S, nth, K
      <4> QED BY <4>1
    <3> QED BY <3>1, <3>2
  <2> QED BY <2>1, <2>2, <2>3
<1>7. b \in [0 .. K -> Nat] /\ b[0] = 0 /\ b[K] = m
  <2>1. b[0] = 0 BY <1>3
  <2>2. b[K] = m
    <3>1. CASE K = 0
      <4>1. m = 0
        <5> SUFFICES ASSUME m # 0 PROVE FALSE OBVIOUS
        <5>1. 1 \in S BY <1>1
        <5> QED BY <1>3, <3>1, <5>1, FS_EmptySet, Zenon
      <4> QED BY <2>1, <3>1, <4>1
    <3>2. CASE K # 0
      <4>1. K \in 1 .. K BY <1>3, <3>2
      <4>2. b[K] = next(K) - 1 BY <1>6, <4>1
      <4>3. next(K) = m + 1 OBVIOUS
      <4> HIDE DEF b, next, K
      <4> QED BY <1>1, <4>2, <4>3
    <3> QED BY <3>1, <3>2
  <2>3. ASSUME NEW k \in 0 .. K PROVE b[k] \in Nat
    <3>1. CASE k = 0 BY <2>1, <3>1
    <3>2. CASE k # 0
      <4>1. k \in 1 .. K BY <1>3, <3>2
      <4>2. b[k] = next(k) - 1 /\ next(k) \in Nat /\ nth(k) < next(k) /\ nth(k) \in 1 .. m
        BY <1>6, <4>1, Zenon
      <4> HIDE DEF b, S, nth, K, next
      <4> QED BY <1>1, <4>2
    <3> QED BY <3>1, <3>2
  <2> QED BY <2>1, <2>2, <2>3
<1>8. ASSUME NEW k \in 1 .. K
      PROVE  \A i, j \in nth(k) .. next(k) - 1 : q[i] = q[j] \/ SameBlock(q[i], q[j])
  <2>0. next(k) \in Nat /\ nth(k) < next(k) /\ next(k) <= m + 1 /\ nth(k) \in 1 .. m BY <1>6, Zenon
  <2>1. ASSUME NEW i \in nth(k) + 1 .. next(k) - 1 PROVE SameBlock(q[i - 1], q[i])
    <3>1. i \in 1 .. m /\ i # 1 /\ nth(k) < i /\ i < next(k)
      <4> HIDE DEF S, nth, K, next
      <4> QED BY <1>1, <2>0
    <3>2. i \notin S BY <1>5, <3>1
    <3> QED BY <3>1, <3>2
  <2> DEFINE a == nth(k)
             c == next(k) - 1
  <2>2. a \in Nat /\ c \in Nat
    <3> HIDE DEF S, nth, K, next
    <3> QED BY <1>1, <2>0
  <2>3. \A i \in a + 1 .. c : SameBlock(q[i - 1], q[i]) BY <2>1
  <2> HIDE DEF a, c
  <2>4. \A i, j \in a .. c : q[i] = q[j] \/ SameBlock(q[i], q[j]) BY <2>2, <2>3, OneBlock, Zenon
  <2> QED BY <2>4 DEF a, c
<1> HIDE DEF b, S, nth, next, K
<1>9. ASSUME NEW k \in 1 .. K
      PROVE  /\ b[k - 1] < b[k] /\ b[k] <= Len(q)
             /\ \A i, j \in b[k - 1] + 1 .. b[k] : q[i] = q[j] \/ SameBlock(q[i], q[j])
             /\ FreeStep(q, b[k - 1], b[k], 0) =
                  FatStep(Held(IF next(k) > m THEN 0 ELSE q[next(k)], q[nth(k)], Nothing),
                   [c \in {q[i] : i \in nth(k) .. next(k) - 1} |-> Free],
                   Held(IF next(k) > m THEN 0 ELSE q[next(k)], q[nth(k)], Nothing))
  <2>1. /\ b[k - 1] < b[k] /\ b[k] <= m /\ b[k - 1] + 1 = nth(k) /\ b[k] + 1 = next(k)
        /\ (b[k] < m <=> ~(next(k) > m)) /\ b[k] = next(k) - 1
    BY <1>1, <1>6
  <2>2. \A i, j \in b[k - 1] + 1 .. b[k] : q[i] = q[j] \/ SameBlock(q[i], q[j])
    BY <1>8, <2>1
  <2> QED BY <2>1, <2>2, Zenon DEF FreeStep, m
<1>10. FreeChain(q) = [k \in 1 .. K |-> FreeStep(q, b[k - 1], b[k], 0)]
  BY <1>2, <1>9, Zenon
<1> QED BY <1>3, <1>7, <1>9, <1>10, Zenon DEF Frees, m

-----------------------------------------------------------------------------
(* Allocating a chain from its end. *)

\* What q[i] links in the new chain q.
After(q, i) == IF i = Len(q) THEN EOC ELSE q[i + 1]
\* Where c is in q.
At(q, c) == CHOOSE i \in DOMAIN q : q[i] = c

\* The table once the clusters of q from d on are linked, and those of L,
\* if any, to its start.
Allocated(t, q, d, L) ==
    [c \in Clusters |-> IF \E i \in d .. Len(q) : q[i] = c THEN After(q, At(q, c))
                        ELSE IF c \in L THEN q[1] ELSE t[c]]

\* q is a chain to allocate, to be linked from tail unless that is 0.
Fresh(t, e, q, tail) ==
    /\ t \in [Clusters -> Values] /\ e \in [Files -> Entries] /\ Sound(t, e)
    /\ q \in Seq(Clusters) /\ q # <<>>
    /\ \A i \in 1 .. Len(q) : t[q[i]] = Free
    /\ \A i, j \in 1 .. Len(q) : q[i] = q[j] => i = j
    /\ tail \in Clusters \cup {0}
    /\ tail # 0 => t[tail] = EOC

\* Nothing leads to a free cluster.
LEMMA FreeUnlinked ==
  ASSUME NEW t \in [Clusters -> Values], NEW e \in [Files -> Entries], Sound(t, e),
         NEW c \in Clusters, t[c] = Free
  PROVE  LinkedBy(t, e, c, {}, {})
  BY Numbers DEF LinkedBy, Sound

\* What the table is like while q is allocated from its end.
LEMMA AllocatedFacts ==
  ASSUME NEW t, NEW e, NEW q, NEW tail, Fresh(t, e, q, tail),
         NEW d \in 1 .. Len(q) + 1, NEW L \in SUBSET ({tail} \ {0}), L # {} => d = 1
  PROVE  LET u == Allocated(t, q, d, L)
         IN  /\ u \in [Clusters -> Values] /\ Sound(u, e)
             /\ \A i \in 1 .. Len(q) : u[q[i]] = IF i < d THEN Free ELSE After(q, i)
             /\ \A c \in Clusters : (\A i \in 1 .. Len(q) : q[i] # c) =>
                    u[c] = IF c \in L THEN q[1] ELSE t[c]
             /\ tail # 0 => u[tail] = IF tail \in L THEN q[1] ELSE EOC
             /\ \A i \in 1 .. Len(q) : i < d => LinkedBy(u, e, q[i], {}, {})
             /\ d <= Len(q) => LinkedBy(u, e, q[d], L, {})
<1> DEFINE u == Allocated(t, q, d, L)
           n == Len(q)
<1>0. /\ t \in [Clusters -> Values] /\ e \in [Files -> Entries] /\ Sound(t, e)
      /\ q \in Seq(Clusters) /\ n \in Nat /\ n >= 1 /\ DOMAIN q = 1 .. n
  BY DEF Fresh
<1>1. /\ \A i \in 1 .. n : q[i] \in Clusters /\ t[q[i]] = Free
      /\ \A i, j \in 1 .. n : q[i] = q[j] => i = j
      /\ tail # 0 => tail \in Clusters /\ t[tail] = EOC
  BY <1>0 DEF Fresh
<1>2. \A i \in 1 .. n : At(q, q[i]) = i
  BY <1>0, <1>1 DEF At
<1>3. \A c \in Clusters : u[c] = IF \E i \in d .. n : q[i] = c THEN After(q, At(q, c))
                                 ELSE IF c \in L THEN q[1] ELSE t[c]
  BY DEF Allocated
<1> HIDE DEF u, n
<1>4. d \in Nat /\ d >= 1 /\ d <= n + 1 BY <1>0 DEF n
<1>5. \A i \in 1 .. n : q[i] \notin L /\ (tail # 0 => q[i] # tail)
  BY <1>1, Numbers
<1>6. \A i \in 1 .. n : u[q[i]] = IF i < d THEN Free ELSE After(q, i)
  <2> TAKE i \in 1 .. n
  <2>1. q[i] \in Clusters /\ t[q[i]] = Free /\ q[i] \notin L /\ At(q, q[i]) = i
    BY <1>1, <1>2, <1>5
  <2>2. CASE i < d
    <3>1. ~\E j \in d .. n : q[j] = q[i]
      <4> SUFFICES ASSUME NEW j \in d .. n, q[j] = q[i] PROVE FALSE OBVIOUS
      <4>1. j \in 1 .. n /\ j # i BY <1>0, <1>4, <2>2
      <4> QED BY <1>1, <4>1
    <3> QED BY <1>3, <2>1, <2>2, <3>1
  <2>3. CASE ~(i < d)
    <3>1. i \in d .. n BY <1>0, <1>4, <2>3
    <3> QED BY <1>3, <2>1, <2>3, <3>1
  <2> QED BY <2>2, <2>3
<1>7. \A c \in Clusters : (\A i \in 1 .. n : q[i] # c) => u[c] = IF c \in L THEN q[1] ELSE t[c]
  BY <1>0, <1>3, <1>4
<1>8. tail # 0 => u[tail] = IF tail \in L THEN q[1] ELSE EOC
  BY <1>1, <1>5, <1>7
<1>9. \A i \in 1 .. n : After(q, i) \in Values /\ After(q, i) # Free
  <2> TAKE i \in 1 .. n
  <2>1. CASE i = n BY <2>1, Numbers DEF After, n
  <2>2. CASE i # n
    <3>1. i + 1 \in 1 .. n BY <1>0, <2>2
    <3> QED BY <1>1, <2>2, <3>1, Numbers DEF After, n
  <2> QED BY <2>1, <2>2
<1>10. u \in [Clusters -> Values]
  <2>1. q[1] \in Clusters BY <1>0, <1>1
  <2>2. \A c \in Clusters : u[c] \in Values
    <3> TAKE c \in Clusters
    <3>1. CASE \E i \in 1 .. n : q[i] = c BY <1>6, <1>9, <3>1, Numbers
    <3>2. CASE \A i \in 1 .. n : q[i] # c BY <1>0, <1>7, <2>1, <3>2, Numbers
    <3> QED BY <3>1, <3>2
  <2> QED BY <2>2 DEF u, Allocated
\* Who links a cluster of q, and whom a cluster links.
<1>11. ASSUME NEW c \in Clusters, u[c] \in Clusters
       PROVE  \/ \E i \in 1 .. n - 1 : d <= i /\ c = q[i] /\ u[c] = q[i + 1]
              \/ c \in L /\ u[c] = q[1] /\ d = 1 /\ \A i \in 1 .. n : q[i] # c
              \/ u[c] = t[c] /\ c \notin L /\ (\A i \in 1 .. n : q[i] # c) /\ \A i \in 1 .. n : q[i] # t[c]
  <2>1. CASE \E i \in 1 .. n : q[i] = c
    <3>1. PICK i \in 1 .. n : q[i] = c BY <2>1
    <3>2. ~(i < d) /\ u[c] = After(q, i) BY <1>6, <1>11, <3>1, Numbers
    <3>3. i # n BY <1>11, <3>2, Numbers DEF After, n
    <3>4. i \in 1 .. n - 1 /\ d <= i BY <1>0, <1>4, <3>2, <3>3
    <3> QED BY <3>1, <3>2, <3>3, <3>4 DEF After, n
  <2>2. CASE \A i \in 1 .. n : q[i] # c
    <3>1. CASE c \in L BY <1>7, <2>2, <3>1
    <3>2. CASE c \notin L
      <4>1. u[c] = t[c] BY <1>7, <2>2, <3>2
      <4>2. t[t[c]] # Free BY <1>0, <1>11, <4>1 DEF Sound
      <4> QED BY <1>1, <2>2, <3>2, <4>1, <4>2
    <3> QED BY <3>1, <3>2
  <2> QED BY <2>1, <2>2
<1>12. \A f \in Files : e[f].used /\ e[f].first # 0 =>
         e[f].first \in Clusters /\ t[e[f].first] # Free /\ \A i \in 1 .. n : q[i] # e[f].first
  <2> TAKE f \in Files
  <2>1. e[f].first \in Clusters \cup {0} BY <1>0 DEF Entries
  <2> QED BY <1>0, <1>1, <2>1 DEF Sound
<1>13. Sound(u, e)
  <2>1. ASSUME NEW c \in Clusters, u[c] \in Clusters PROVE u[u[c]] # Free
    <3>1. CASE \E i \in 1 .. n - 1 : d <= i /\ c = q[i] /\ u[c] = q[i + 1]
      <4>1. PICK i \in 1 .. n - 1 : d <= i /\ c = q[i] /\ u[c] = q[i + 1] BY <3>1
      <4>2. i + 1 \in 1 .. n /\ ~(i + 1 < d) BY <1>0, <1>4, <4>1
      <4> QED BY <1>6, <1>9, <4>1, <4>2
    <3>2. CASE c \in L /\ u[c] = q[1] /\ d = 1
      <4>1. 1 \in 1 .. n /\ ~(1 < d) BY <1>0, <3>2
      <4> QED BY <1>6, <1>9, <3>2, <4>1
    <3>3. CASE u[c] = t[c] /\ \A i \in 1 .. n : q[i] # t[c]
      <4>1. t[t[c]] # Free BY <1>0, <2>1, <3>3 DEF Sound
      <4>2. q[1] # Free BY <1>0, <1>1, Numbers
      <4> QED BY <1>7, <2>1, <3>3, <4>1, <4>2
    <3> QED BY <1>11, <2>1, <3>1, <3>2, <3>3
  <2>2. \A f \in Files : e[f].used /\ e[f].first # 0 => u[e[f].first] # Free
    <3>1. q[1] # Free BY <1>0, <1>1, Numbers
    <3> QED BY <1>7, <1>12, <3>1
  <2>3. ASSUME NEW c \in Clusters, NEW y \in Clusters, u[c] = u[y], u[c] \in Clusters PROVE c = y
    <3>1. \A z, v \in L : z = v OBVIOUS
    <3>2. \A i \in 1 .. n - 1 : i + 1 \in 1 .. n /\ i + 1 # 1 /\ i \in 1 .. n BY <1>0
    <3>3. \A i, j \in 1 .. n - 1 : q[i + 1] = q[j + 1] => i = j BY <1>0, <1>1, <3>2
    <3>4. \A i \in 1 .. n - 1 : q[i + 1] # q[1] BY <1>0, <1>1, <3>2
    <3>5. 1 \in 1 .. n BY <1>0
    <3>6. t[c] = t[y] /\ t[c] \in Clusters => c = y BY <1>0 DEF Sound
    <3> QED BY <1>11, <2>3, <3>1, <3>2, <3>3, <3>4, <3>5, <3>6
  <2>4. ASSUME NEW f \in Files, NEW c \in Clusters, e[f].used, e[f].first # 0 PROVE u[c] # e[f].first
    <3>1. e[f].first \in Clusters /\ \A i \in 1 .. n : q[i] # e[f].first BY <1>12, <2>4
    <3>2. t[c] # e[f].first BY <1>0, <2>4 DEF Sound
    <3>3. \A i \in 1 .. n - 1 : i + 1 \in 1 .. n BY <1>0
    <3>4. 1 \in 1 .. n BY <1>0
    <3> QED BY <1>11, <3>1, <3>2, <3>3, <3>4
  <2>5. \A f, g \in Files :
          e[f].used /\ e[g].used /\ e[f].first = e[g].first /\ e[f].first # 0 => f = g
    BY <1>0 DEF Sound
  <2> QED BY <2>1, <2>2, <2>3, <2>4, <2>5 DEF Sound
<1>14. \A i \in 1 .. n : i < d => LinkedBy(u, e, q[i], {}, {})
  BY <1>0, <1>1, <1>6, <1>10, <1>13, FreeUnlinked, Zenon
<1>15. d <= n => LinkedBy(u, e, q[d], L, {})
  <2> SUFFICES ASSUME d <= n PROVE LinkedBy(u, e, q[d], L, {}) OBVIOUS
  <2>1. d \in 1 .. n /\ q[d] \in Clusters /\ q[d] # 0 BY <1>0, <1>1, <1>4, Numbers
  <2>2. ASSUME NEW c \in Clusters, u[c] = q[d] PROVE c \in L
    <3>1. \A i \in 1 .. n - 1 : d <= i => i + 1 \in 1 .. n /\ i + 1 # d BY <1>0, <1>4
    <3>2. \A i \in 1 .. n - 1 : d <= i => q[i + 1] # q[d] BY <1>1, <2>1, <3>1
    <3> QED BY <1>11, <2>1, <2>2, <3>2
  <2>3. \A f \in Files : ~(e[f].used /\ e[f].first = q[d]) BY <1>12, <2>1
  <2> QED BY <2>2, <2>3 DEF LinkedBy
<1> QED BY <1>6, <1>7, <1>8, <1>10, <1>13, <1>14, <1>15 DEF u, n

\* The owner of clusters that are being allocated: the tail that is to link
\* them, or the entry of a file that has none.
OwnerFor(o, tail) ==
    o \in Owners /\ IF tail = 0 THEN \E f \in Files : o = EntryOf(f) ELSE o = AtTail(tail)

\* What such an owner names.
LEMMA OwnerFacts ==
  ASSUME NEW o, NEW tail, OwnerFor(o, tail)
  PROVE  /\ o \in Owners /\ Tails(o) = {tail} \ {0}
         /\ IsTail(o) => tail # 0 /\ o.at = tail
<1>1. CASE tail = 0
  <2>1. PICK f \in Files : o = EntryOf(f) BY <1>1 DEF OwnerFor
  <2> QED BY <1>1, <2>1 DEF OwnerFor, EntryOf, Tails, IsTail
<1>2. CASE tail # 0
  BY <1>2 DEF OwnerFor, AtTail, Tails, IsTail
<1> QED BY <1>1, <1>2

\* The parts of pending clusters, ...
LEMMA HeldFields ==
  ASSUME NEW h, NEW x, NEW o
  PROVE  Held(h, x, o).head = h /\ Held(h, x, o).extra = x /\ Held(h, x, o).owner = o
  BY DEF Held

\* ... their type, ...
LEMMA HeldType ==
  ASSUME NEW h \in Clusters \cup {0}, NEW x \in Clusters \cup {0}, NEW o \in Owners
  PROVE  Held(h, x, o) \in Pendings
  BY DEF Held, Pendings

\* ... and a weaker claim on what links a cluster.
LEMMA LinkedByMore ==
  ASSUME NEW t, NEW e, NEW c, NEW D, NEW F, NEW G, NEW H, LinkedBy(t, e, c, D, F),
         D \subseteq G, F \subseteq H
  PROVE  LinkedBy(t, e, c, G, H)
  BY DEF LinkedBy

\* The state while q is allocated.
AllocWorld(w, q, d, L) ==
    [table |-> Allocated(w.table, q, d, L), entry |-> w.entry, node |-> w.node]

\* While a chain is allocated, what is pending fits what is linked.
LEMMA AllocGood ==
  ASSUME NEW w, Good(w, NoPending), NEW q, NEW tail, Fresh(w.table, w.entry, q, tail),
         NEW o, OwnerFor(o, tail),
         NEW d \in 1 .. Len(q) + 1, NEW L \in SUBSET ({tail} \ {0}), L # {} => d = 1
  PROVE  LET v == AllocWorld(w, q, d, L)
         IN  /\ Good(v, NoPending)
             /\ d <= Len(q) => Good(v, Held(q[d], 0, o))
             /\ \A i \in 1 .. Len(q) : i < d =>
                  /\ Good(v, Held(q[i], 0, o))
                  /\ Good(v, Held(IF d = Len(q) + 1 THEN 0 ELSE q[d], q[i], o))
             /\ \A i \in 1 .. Len(q) + 1 : d < i =>
                  Good(v, Held(IF i = Len(q) + 1 THEN 0 ELSE q[i], q[d], o))
<1> DEFINE v == AllocWorld(w, q, d, L)
           n == Len(q)
           u == Allocated(w.table, q, d, L)
           e == w.entry
<1>0. /\ w.table \in [Clusters -> Values] /\ e \in [Files -> Entries] /\ w.node \in [Files -> Nodes]
      /\ NodeOK(w.table, e, w.node, NoPending)
  BY DEF Good, Worlds
<1>1. /\ q \in Seq(Clusters) /\ n \in Nat /\ n >= 1 /\ \A i \in 1 .. n : q[i] \in Clusters /\ q[i] # 0
  BY Numbers DEF Fresh
<1>2. /\ u \in [Clusters -> Values] /\ Sound(u, e)
      /\ \A i \in 1 .. n : u[q[i]] = IF i < d THEN Free ELSE After(q, i)
      /\ tail # 0 => u[tail] = IF tail \in L THEN q[1] ELSE EOC
      /\ \A i \in 1 .. n : i < d => LinkedBy(u, e, q[i], {}, {})
      /\ d <= n => LinkedBy(u, e, q[d], L, {})
  BY AllocatedFacts
<1>3. v.table = u /\ v.entry = e /\ v.node = w.node /\ v \in Worlds
  BY <1>0, <1>2 DEF AllocWorld, Worlds
<1>4. o \in Owners /\ Tails(o) = {tail} \ {0} /\ (IsTail(o) => tail # 0 /\ o.at = tail)
  BY OwnerFacts
<1> HIDE DEF v, u, e, n
<1>5. d \in Nat /\ d >= 1 /\ d <= n + 1 BY <1>1 DEF n
<1>6. ASSUME NEW p \in Pendings, PendOK(u, e, p) PROVE Good(v, p)
  BY <1>0, <1>2, <1>3, <1>6, NodesFit DEF Good
<1>7. Good(v, NoPending)
  <2>1. PendOK(u, e, NoPending) BY PendingType, NothingIn DEF PendOK
  <2> QED BY <1>6, <2>1, PendingType
<1>8. ASSUME NEW c \in Clusters, LinkedBy(u, e, c, Tails(o), {}) PROVE Good(v, Held(c, 0, o))
  <2>1. LinkedBy(u, e, c, Tails(o), Owning(o)) BY <1>8, LinkedByMore
  <2>2. PendOK(u, e, Held(c, 0, o)) BY <2>1, HeldFields DEF PendOK
  <2>3. Held(c, 0, o) \in Pendings BY <1>4, HeldType, Zenon
  <2> QED BY <1>6, <2>2, <2>3
<1>9. ASSUME NEW h \in Clusters \cup {0}, NEW c \in Clusters, LinkedBy(u, e, c, Tails(o), {}),
             h # 0 => LinkedBy(u, e, h, Tails(o), {}) \/ Reaches(u, c, h),
             tail # 0 => u[tail] \in {EOC, c}
      PROVE  Good(v, Held(h, c, o))
  <2>0. c # 0 BY Numbers
  <2>1. h # 0 => LinkedBy(u, e, h, Tails(o), Owning(o)) \/ Reaches(u, c, h) BY <1>9, LinkedByMore
  <2>2. IsTail(o) => u[o.at] \in {EOC, c} BY <1>4, <1>9
  <2>3. PendOK(u, e, Held(h, c, o)) BY <1>9, <2>0, <2>1, <2>2, HeldFields DEF PendOK
  <2>4. Held(h, c, o) \in Pendings BY <1>4, HeldType
  <2> QED BY <1>6, <2>3, <2>4
<1>10. d <= n => LinkedBy(u, e, q[d], Tails(o), {}) /\ q[d] \in Clusters /\ d \in 1 .. n
  <2>1. d <= n => LinkedBy(u, e, q[d], Tails(o), {}) BY <1>2, <1>4, LinkedByMore
  <2> QED BY <1>1, <1>5, <2>1
<1>11. d <= n => Good(v, Held(q[d], 0, o)) BY <1>8, <1>10
<1>12. ASSUME NEW i \in 1 .. n, i < d
       PROVE  /\ Good(v, Held(q[i], 0, o))
              /\ Good(v, Held(IF d = n + 1 THEN 0 ELSE q[d], q[i], o))
  <2>1. q[i] \in Clusters /\ LinkedBy(u, e, q[i], Tails(o), {}) BY <1>1, <1>2, <1>12, LinkedByMore
  <2>2. L = {} BY <1>1, <1>5, <1>12
  <2>3. tail # 0 => u[tail] = EOC BY <1>2, <2>2
  <2> DEFINE h == IF d = n + 1 THEN 0 ELSE q[d]
  <2>4. h \in Clusters \cup {0} /\ (h # 0 => LinkedBy(u, e, h, Tails(o), {}))
    BY <1>1, <1>5, <1>10
  <2> HIDE DEF h
  <2>5. Good(v, Held(h, q[i], o)) BY <1>9, <2>1, <2>3, <2>4, Zenon
  <2> QED BY <1>8, <2>1, <2>5 DEF h
<1>13. ASSUME NEW i \in 1 .. n + 1, d < i
       PROVE  Good(v, Held(IF i = n + 1 THEN 0 ELSE q[i], q[d], o))
  <2>1. d \in 1 .. n /\ d <= n BY <1>1, <1>5, <1>13
  <2> DEFINE h == IF i = n + 1 THEN 0 ELSE q[i]
  <2>2. i # n + 1 => i \in 1 .. n BY <1>1
  <2>3. h \in Clusters \cup {0} BY <1>1, <2>2
  <2>4. h # 0 => Reaches(u, q[d], h)
    <3> SUFFICES ASSUME i # n + 1 PROVE Reaches(u, q[d], q[i]) OBVIOUS
    <3>1. \A k \in d .. i - 1 : u[q[k]] = q[k + 1]
      <4> TAKE k \in d .. i - 1
      <4>1. k \in 1 .. n /\ k # n /\ ~(k < d) BY <1>1, <1>5, <2>2
      <4> QED BY <1>2, <4>1 DEF After, n
    <3>2. d <= i /\ i \in 1 .. Len(q) /\ d \in 1 .. Len(q) BY <1>1, <1>5, <1>13, <2>1, <2>2 DEF n
    <3> QED BY <1>1, <3>1, <3>2, LinksReach
  <2>5. tail # 0 => u[tail] \in {EOC, q[d]} BY <1>2
  <2> HIDE DEF h
  <2>6. Good(v, Held(h, q[d], o)) BY <1>9, <1>10, <2>1, <2>3, <2>4, <2>5, Zenon
  <2> QED BY <2>6 DEF h
<1> QED BY <1>7, <1>11, <1>12, <1>13 DEF v, n

\* The clusters of q from d up to i, and those of L.
Linking(q, d, i, L) == {q[j] : j \in d .. i - 1} \cup L

\* The entries that link the clusters of q from d up to i, and those of L to
\* its start.
Links1(q, d, i, L) ==
    [c \in {q[j] : j \in d .. i - 1} \cup L |-> IF c \in L THEN q[1] ELSE After(q, At(q, c))]

\* A write that links a group of q is safe.
LEMMA AllocStepSafe ==
  ASSUME NEW w, Good(w, NoPending), NEW q, NEW tail, Fresh(w.table, w.entry, q, tail),
         NEW o, OwnerFor(o, tail),
         NEW d \in 1 .. Len(q), NEW i \in 1 .. Len(q) + 1, d <= i,
         NEW L \in SUBSET ({tail} \ {0}), L # {} => d = 1,
         Linking(q, d, i, L) \in Groups,
         NEW p, Good(AllocWorld(w, q, i, {}), p), Good(AllocWorld(w, q, d, L), p)
  PROVE  LET s == FatStep(p, Links1(q, d, i, L), Held(q[d], 0, o))
         IN  /\ Safe(AllocWorld(w, q, i, {}), s)
             /\ Landed(AllocWorld(w, q, i, {}), s) = AllocWorld(w, q, d, L)
<1> DEFINE t == w.table
           e == w.entry
           n == Len(q)
           D == {q[j] : j \in d .. i - 1} \cup L
           x == Links1(q, d, i, L)
           a == Allocated(t, q, i, {})
           b == Allocated(t, q, d, L)
<1>1. /\ q \in Seq(Clusters) /\ n \in Nat /\ n >= 1 /\ DOMAIN q = 1 .. n
      /\ \A j \in 1 .. n : q[j] \in Clusters
      /\ \A j, k \in 1 .. n : q[j] = q[k] => j = k
      /\ tail \in Clusters \cup {0} /\ (tail # 0 => t[tail] = EOC)
      /\ \A j \in 1 .. n : t[q[j]] = Free
  BY DEF Fresh
<1>2. /\ \A j \in 1 .. n : a[q[j]] = IF j < i THEN Free ELSE After(q, j)
      /\ \A c \in Clusters : (\A j \in 1 .. n : q[j] # c) => a[c] = t[c]
  <2>1. i \in 1 .. Len(q) + 1 /\ {} \in SUBSET ({tail} \ {0}) /\ ({} # {} => i = 1) OBVIOUS
  <2> QED BY <2>1, AllocatedFacts
<1>3. /\ \A j \in 1 .. n : b[q[j]] = IF j < d THEN Free ELSE After(q, j)
      /\ \A c \in Clusters : (\A j \in 1 .. n : q[j] # c) => b[c] = IF c \in L THEN q[1] ELSE t[c]
      /\ b \in [Clusters -> Values]
  <2>1. d \in 1 .. Len(q) + 1 BY <1>1
  <2> QED BY <2>1, AllocatedFacts
<1>4. \A j \in 1 .. n : At(q, q[j]) = j /\ q[j] \notin L
  BY <1>1, Numbers, Zenon DEF At
<1>5. x = [c \in D |-> IF c \in L THEN q[1] ELSE After(q, At(q, c))] BY DEF Links1
<1>6. DOMAIN a = Clusters /\ DOMAIN b = Clusters /\ a = [c \in Clusters |-> a[c]] /\ b = [c \in Clusters |-> b[c]]
  BY DEF Allocated
<1>7. d \in Nat /\ i \in Nat /\ d >= 1 /\ i <= n + 1 BY <1>1
<1> HIDE DEF a, b, x, n
<1>8. \A c \in Clusters : b[c] = IF c \in D THEN x[c] ELSE a[c]
  <2> TAKE c \in Clusters
  <2>1. CASE \E j \in 1 .. n : q[j] = c
    <3>1. PICK j \in 1 .. n : q[j] = c BY <2>1
    <3>2. CASE d <= j /\ j < i
      <4>1. j \in d .. i - 1 BY <1>7, <3>2
      <4>2. c \in D BY <3>1, <4>1
      <4>3. x[c] = After(q, j) BY <1>4, <1>5, <3>1, <4>2
      <4> QED BY <1>3, <1>7, <3>1, <3>2, <4>2, <4>3
    <3>3. CASE ~(d <= j /\ j < i)
      <4>1. c \notin D
        <5> SUFFICES ASSUME c \in D PROVE FALSE OBVIOUS
        <5>1. c \notin L BY <1>4, <3>1
        <5>2. PICK k \in d .. i - 1 : q[k] = c BY <5>1
        <5>3. k \in 1 .. n BY <1>1, <1>7
        <5>4. k = j BY <1>1, <3>1, <5>2, <5>3
        <5> QED BY <1>7, <3>3, <5>4
      <4> QED BY <1>2, <1>3, <1>7, <3>1, <3>3, <4>1
    <3> QED BY <3>2, <3>3
  <2>2. CASE \A j \in 1 .. n : q[j] # c
    <3>1. c \in D <=> c \in L
      <4>1. \A k \in d .. i - 1 : k \in 1 .. n BY <1>1, <1>7
      <4> QED BY <2>2, <4>1
    <3> QED BY <1>2, <1>3, <1>5, <2>2, <3>1
  <2> QED BY <2>1, <2>2
<1>9. D \in Groups /\ D \in SUBSET Clusters BY Zenon DEF Groups, Linking
<1>10. x \in [D -> Values]
  <2>1. \A c \in D : x[c] \in Values BY <1>3, <1>8, <1>9
  <2> QED BY <1>5, <2>1
<1>11. Patched(a, x) = b
  <2>1. DOMAIN x = D BY <1>5
  <2> HIDE DEF D
  <2>2. Patched(a, x) = [c \in Clusters |-> IF c \in D THEN x[c] ELSE a[c]] BY <2>1 DEF Patched
  <2> QED BY <1>6, <1>8, <2>2
<1> DEFINE v == AllocWorld(w, q, i, {})
           r == Held(q[d], 0, o)
<1>12. v.table = a /\ v.entry = e /\ v.node = w.node BY DEF AllocWorld, a
<1>13. [table |-> Patched(v.table, x), entry |-> v.entry, node |-> v.node] = AllocWorld(w, q, d, L)
  BY <1>11, <1>12 DEF AllocWorld, b
<1>14. Good(AllocWorld(w, q, d, L), r)
  <2>1. d \in 1 .. Len(q) + 1 /\ d <= Len(q) BY <1>1 DEF n
  <2> QED BY <2>1, AllocGood
<1> HIDE DEF v, D, r
<1>15. Good(v, p) BY DEF v
<1>16. /\ Safe(v, FatStep(p, x, r))
       /\ Landed(v, FatStep(p, x, r)) = [table |-> Patched(v.table, x), entry |-> v.entry, node |-> v.node]
  BY <1>9, <1>10, <1>13, <1>14, <1>15, FatStepSafe
<1> QED BY <1>13, <1>16 DEF v, x, r

\* A group of clusters, with what is to be written next and what is written now.
AllocStep(q, i, d, L, o) ==
    FatStep(Held(IF i = Len(q) + 1 THEN 0 ELSE q[i], q[d], o), Links1(q, d, i, L), Held(q[d], 0, o))

\* With nothing allocated, nothing changed.
LEMMA AllocNone ==
  ASSUME NEW w \in Worlds, NEW q \in Seq(Clusters)
  PROVE  AllocWorld(w, q, Len(q) + 1, {}) = w
<1>1. Len(q) \in Nat OBVIOUS
<1>2. \A i \in Len(q) + 1 .. Len(q) : FALSE BY <1>1
<1>3. Allocated(w.table, q, Len(q) + 1, {}) = w.table
  BY <1>2 DEF Allocated, Worlds
<1> QED BY <1>3 DEF AllocWorld, Worlds

\* The writes of s link q from its end, with the cuts b between them, and the
\* last one the clusters of M.
Allocs(s, q, M, o) ==
    \E K \in Nat : \E b \in [0 .. K -> Nat] :
        /\ b[0] = Len(q) + 1 /\ b[K] = 1
        /\ s = [k \in 1 .. K |-> AllocStep(q, b[k - 1], b[k], IF k = K THEN M ELSE {}, o)]
        /\ \A k \in 1 .. K :
              /\ 1 <= b[k] /\ b[k] < b[k - 1] /\ b[k - 1] <= Len(q) + 1
              /\ {q[j] : j \in b[k] .. b[k - 1] - 1} \cup (IF k = K THEN M ELSE {}) \in Groups

\* Allocating a chain group by group is safe at every write.
LEMMA AllocsRun ==
  ASSUME NEW w, Good(w, NoPending), NEW q, NEW tail, Fresh(w.table, w.entry, q, tail),
         NEW o, OwnerFor(o, tail), NEW M \in SUBSET ({tail} \ {0}), NEW s, Allocs(s, q, M, o)
  PROVE  Runs(w, s, AllocWorld(w, q, 1, M))
<1> DEFINE n == Len(q)
           N(k, K) == IF k = K THEN M ELSE {}
<1>1. PICK K \in Nat : \E b \in [0 .. K -> Nat] :
        /\ b[0] = Len(q) + 1 /\ b[K] = 1
        /\ s = [k \in 1 .. K |-> AllocStep(q, b[k - 1], b[k], IF k = K THEN M ELSE {}, o)]
        /\ \A k \in 1 .. K :
              /\ 1 <= b[k] /\ b[k] < b[k - 1] /\ b[k - 1] <= Len(q) + 1
              /\ {q[j] : j \in b[k] .. b[k - 1] - 1} \cup (IF k = K THEN M ELSE {}) \in Groups
  BY Zenon DEF Allocs
<1>2. PICK b \in [0 .. K -> Nat] :
        /\ b[0] = Len(q) + 1 /\ b[K] = 1
        /\ s = [k \in 1 .. K |-> AllocStep(q, b[k - 1], b[k], IF k = K THEN M ELSE {}, o)]
        /\ \A k \in 1 .. K :
              /\ 1 <= b[k] /\ b[k] < b[k - 1] /\ b[k - 1] <= Len(q) + 1
              /\ {q[j] : j \in b[k] .. b[k - 1] - 1} \cup (IF k = K THEN M ELSE {}) \in Groups
  BY <1>1, Zenon
<1>3. w \in Worlds /\ q \in Seq(Clusters) /\ n \in Nat /\ n >= 1 BY DEF Good, Fresh
<1>4. K # 0 BY <1>2, <1>3
<1> DEFINE W == [k \in 0 .. K |-> AllocWorld(w, q, b[k], N(k, K))]
<1>5. ASSUME NEW k \in 1 .. K
      PROVE  /\ s[k] \in AllSteps
             /\ Safe(W[k - 1], s[k]) /\ W[k] = Landed(W[k - 1], s[k])
  <2>1. k - 1 \in 0 .. K /\ k \in 0 .. K /\ k - 1 # K OBVIOUS
  <2>2. b[k - 1] \in Nat /\ b[k] \in Nat BY <2>1
  <2>3. W[k - 1] = AllocWorld(w, q, b[k - 1], {}) /\ W[k] = AllocWorld(w, q, b[k], N(k, K)) BY <2>1
  <2>4. s[k] = AllocStep(q, b[k - 1], b[k], N(k, K), o) BY <1>2
  <2> HIDE DEF W
  <2> DEFINE i == b[k - 1]
             d == b[k]
             L == N(k, K)
  <2>5. /\ i \in Nat /\ d \in Nat /\ 1 <= d /\ d < i /\ i <= n + 1
        /\ {q[j] : j \in d .. i - 1} \cup L \in Groups
    BY <1>2, <2>2, Zenon
  <2>6. L \in SUBSET ({tail} \ {0}) /\ (L # {} => d = 1) BY <1>2
  <2> HIDE DEF i, d, L, n
  <2>7. /\ d \in 1 .. n /\ d \in 1 .. n + 1 /\ i \in 1 .. n + 1 /\ d <= i
        /\ {} \in SUBSET ({tail} \ {0}) /\ ({} # {} => i = 1)
    BY <1>3, <2>5
  <2> DEFINE p == Held(IF i = Len(q) + 1 THEN 0 ELSE q[i], q[d], o)
  <2>8. Good(AllocWorld(w, q, i, {}), p)
    BY <2>5, <2>7, AllocGood, Zenon DEF n
  <2>9. Good(AllocWorld(w, q, d, L), p)
    BY <2>5, <2>6, <2>7, AllocGood, Zenon DEF n
  <2> HIDE DEF p
  <2>a. Linking(q, d, i, L) \in Groups BY <2>5 DEF Linking
  <2>10. /\ Safe(AllocWorld(w, q, i, {}), FatStep(p, Links1(q, d, i, L), Held(q[d], 0, o)))
         /\ Landed(AllocWorld(w, q, i, {}), FatStep(p, Links1(q, d, i, L), Held(q[d], 0, o))) =
              AllocWorld(w, q, d, L)
    <3>1. d \in 1 .. Len(q) /\ i \in 1 .. Len(q) + 1 /\ d <= i BY <2>7 DEF n
    <3> HIDE DEF N
    <3> QED BY <3>1, <2>6, <2>8, <2>9, <2>a, AllocStepSafe
  <2>11. s[k] = FatStep(p, Links1(q, d, i, L), Held(q[d], 0, o))
    BY <2>4 DEF AllocStep, p, i, d, L
  <2>12. Safe(W[k - 1], s[k]) /\ W[k] = Landed(W[k - 1], s[k])
    BY <2>3, <2>10, <2>11 DEF i, d, L
  <2> QED BY <2>12 DEF Safe
<1>6. W[0] = w /\ W[K] = AllocWorld(w, q, 1, M)
  BY <1>2, <1>3, <1>4, AllocNone
<1>7. W \in [0 .. K -> Worlds]
  <2>1. \A k \in 0 .. K : W[k] \in Worlds
    <3> TAKE k \in 0 .. K
    <3> HIDE DEF W
    <3>1. CASE k = 0 BY <1>3, <1>6, <3>1
    <3>2. CASE k # 0
      <4>1. k \in 1 .. K BY <3>2
      <4>2. Safe(W[k - 1], s[k]) /\ W[k] = Landed(W[k - 1], s[k]) BY <1>5, <4>1
      <4> QED BY <4>2 DEF Safe, Good
    <3> QED BY <3>1, <3>2
  <2> QED BY <2>1
<1> HIDE DEF W
<1>8. s \in Seq(AllSteps) /\ Len(s) = K
  <2>1. \A k \in 1 .. K : s[k] \in AllSteps BY <1>5
  <2>2. s \in [1 .. K -> AllSteps] BY <1>2, <2>1
  <2> QED BY <2>2
<1>9. Runs(w, s, W[K])
  <2>1. \A i \in 1 .. Len(s) : Safe(W[i - 1], s[i]) /\ W[i] = Landed(W[i - 1], s[i])
    BY <1>5, <1>8
  <2>2. W \in [0 .. Len(s) -> Worlds] /\ W[0] = w /\ W[Len(s)] = W[K] BY <1>6, <1>7, <1>8
  <2>3. W[K] \in Worlds BY <1>7
  <2> QED BY <1>8, <2>1, <2>2, <2>3, Zenon DEF Runs
<1> QED BY <1>6, <1>9

\* One write of a single entry is a group.
LEMMA SingleGroup ==
  ASSUME NEW c \in Clusters
  PROVE  {c} \in Groups
  BY DEF Groups

\* The write that links the chain q from its tail.
LEMMA TailLinkRuns ==
  ASSUME NEW w, Good(w, NoPending), NEW q, NEW tail, Fresh(w.table, w.entry, q, tail), tail # 0,
         NEW o, OwnerFor(o, tail)
  PROVE  LET held == Held(q[1], 0, o)
         IN  Runs(AllocWorld(w, q, 1, {}), <<FatStep(held, [x \in {tail} |-> q[1]], held)>>,
                  AllocWorld(w, q, 1, {tail}))
<1> DEFINE held == Held(q[1], 0, o)
           s == FatStep(held, Links1(q, 1, 1, {tail}), held)
           L == {tail}
<1>1. Len(q) \in Nat /\ Len(q) >= 1 /\ tail \in Clusters BY DEF Fresh
<1>2. /\ 1 \in 1 .. Len(q) /\ 1 \in 1 .. Len(q) + 1 /\ 1 <= 1 /\ 1 <= Len(q)
      /\ {} \in SUBSET ({tail} \ {0}) /\ L \in SUBSET ({tail} \ {0})
  BY <1>1
<1>3. Linking(q, 1, 1, L) \in Groups
  <2>1. \A j \in 1 .. 1 - 1 : FALSE OBVIOUS
  <2>2. Linking(q, 1, 1, L) = L BY <2>1 DEF Linking
  <2> QED BY <1>1, <2>2, SingleGroup, Zenon
<1> HIDE DEF L
<1>4. Good(AllocWorld(w, q, 1, {}), held) /\ Good(AllocWorld(w, q, 1, L), held)
  BY <1>2, AllocGood
<1> HIDE DEF held
<1>5. /\ Safe(AllocWorld(w, q, 1, {}), FatStep(held, Links1(q, 1, 1, L), Held(q[1], 0, o)))
      /\ Landed(AllocWorld(w, q, 1, {}), FatStep(held, Links1(q, 1, 1, L), Held(q[1], 0, o)))
           = AllocWorld(w, q, 1, L)
  BY <1>2, <1>3, <1>4, AllocStepSafe
<1>6. Links1(q, 1, 1, L) = [x \in {tail} |-> q[1]]
  <2>1. \A j \in 1 .. 1 - 1 : FALSE OBVIOUS
  <2>2. {q[j] : j \in 1 .. 1 - 1} \cup L = {tail} BY <2>1 DEF L
  <2> QED BY <2>2 DEF Links1, L
<1> DEFINE f == FatStep(held, [x \in {tail} |-> q[1]], held)
<1>7. Safe(AllocWorld(w, q, 1, {}), f) /\ Landed(AllocWorld(w, q, 1, {}), f) = AllocWorld(w, q, 1, L)
  BY <1>5, <1>6 DEF held
<1> HIDE DEF f
<1>8. Runs(AllocWorld(w, q, 1, {}), <<f>>, AllocWorld(w, q, 1, L)) BY <1>7, RunsOne
<1> QED BY <1>8 DEF f, held, L

\* What one cluster is linked to.
LEMMA OneLinks ==
  ASSUME NEW q \in Seq(Clusters), Len(q) = 1, NEW L \in SUBSET Clusters, q[1] \notin L
  PROVE  /\ Links1(q, 1, 2, L) = [x \in {q[1]} \cup L |-> IF x = q[1] THEN EOC ELSE q[1]]
         /\ {q[j] : j \in 1 .. 2 - 1} \cup L = {q[1]} \cup L
<1>1. {q[j] : j \in 1 .. 2 - 1} = {q[1]} OBVIOUS
<1>2. At(q, q[1]) = 1 /\ After(q, 1) = EOC
  <2>1. DOMAIN q = 1 .. 1 OBVIOUS
  <2> QED BY <2>1 DEF At, After
<1> DEFINE D == {q[j] : j \in 1 .. 2 - 1} \cup L
<1>3. D = {q[1]} \cup L BY <1>1
<1>4. Links1(q, 1, 2, L) = [x \in D |-> IF x \in L THEN q[1] ELSE After(q, At(q, x))]
  BY DEF Links1
<1> HIDE DEF D
<1>5. \A x \in D : (IF x \in L THEN q[1] ELSE After(q, At(q, x))) = IF x = q[1] THEN EOC ELSE q[1]
  BY <1>2, <1>3
<1> QED BY <1>3, <1>4, <1>5, Zenon DEF D

\* allocate and allocate_after
LEMMA AllocateOneRuns ==
  ASSUME NEW w, Good(w, NoPending), NEW q, Len(q) = 1, NEW tail, Fresh(w.table, w.entry, q, tail),
         NEW o, OwnerFor(o, tail)
  PROVE  Runs(w, AllocateOne(q[1], tail, o), AllocWorld(w, q, 1, {tail} \ {0}))
<1> DEFINE c == q[1]
           held == Held(c, 0, o)
<1>1. /\ q \in Seq(Clusters) /\ c \in Clusters /\ w \in Worlds /\ tail \in Clusters \cup {0}
      /\ (tail # 0 => c # tail)
  <2>1. q \in Seq(Clusters) /\ c \in Clusters /\ w \in Worlds /\ tail \in Clusters \cup {0} BY DEF Fresh, Good
  <2>2. 1 \in 1 .. Len(q) OBVIOUS
  <2> HIDE DEF c
  <2>3. w.table[c] = Free /\ (tail # 0 => w.table[tail] = EOC) BY <2>2 DEF Fresh, c
  <2> QED BY <2>1, <2>3, Numbers
<1>2. /\ 1 \in 1 .. Len(q) /\ 2 \in 1 .. Len(q) + 1 /\ 1 \in 1 .. Len(q) + 1 /\ 1 <= 2 /\ 1 < 2
      /\ 1 <= Len(q) /\ Len(q) + 1 = 2
      /\ {} \in SUBSET ({tail} \ {0})
  OBVIOUS
<1>3. AllocWorld(w, q, 2, {}) = w
  <2>1. AllocWorld(w, q, Len(q) + 1, {}) = w BY <1>1, AllocNone, Zenon
  <2> QED BY <1>2, <2>1
<1>4. Good(AllocWorld(w, q, 2, {}), held) BY <1>2, AllocGood
<1>5. ASSUME NEW L \in SUBSET ({tail} \ {0}), {c} \cup L \in Groups
      PROVE  LET s == FatStep(held, [x \in {c} \cup L |-> IF x = c THEN EOC ELSE c], held)
             IN  Runs(w, <<s>>, AllocWorld(w, q, 1, L))
  <2>1. Good(AllocWorld(w, q, 1, L), held) BY <1>2, AllocGood, Zenon
  <2>2. L \in SUBSET Clusters /\ c \notin L BY <1>1
  <2>3. /\ Links1(q, 1, 2, L) = [x \in {c} \cup L |-> IF x = c THEN EOC ELSE c]
        /\ {q[j] : j \in 1 .. 2 - 1} \cup L = {c} \cup L
    BY <1>1, <2>2, OneLinks, Zenon
  <2> DEFINE s == FatStep(held, [x \in {c} \cup L |-> IF x = c THEN EOC ELSE c], held)
  <2>4. Linking(q, 1, 2, L) \in Groups BY <1>5, <2>3 DEF Linking
  <2> HIDE DEF held, c
  <2>5. /\ Safe(AllocWorld(w, q, 2, {}), FatStep(held, Links1(q, 1, 2, L), Held(q[1], 0, o)))
        /\ Landed(AllocWorld(w, q, 2, {}), FatStep(held, Links1(q, 1, 2, L), Held(q[1], 0, o)))
             = AllocWorld(w, q, 1, L)
    BY <1>2, <1>4, <2>1, <2>4, AllocStepSafe
  <2>6. Safe(w, s) /\ Landed(w, s) = AllocWorld(w, q, 1, L)
    BY <1>3, <2>3, <2>5 DEF held, c
  <2> HIDE DEF s
  <2>7. Runs(w, <<s>>, AllocWorld(w, q, 1, L)) BY <2>6, RunsOne
  <2> QED BY <2>7 DEF s
<1>6. CASE tail # 0 /\ SameBlock(tail, c)
  <2>1. {c} \cup {tail} \in Groups BY <1>1, <1>6 DEF Groups, SameBlock
  <2>2. {tail} \ {0} = {tail} /\ {c} \cup {tail} = {c, tail} BY <1>6
  <2>3. AllocateOne(c, tail, o) = <<FatStep(held, [x \in {c, tail} |-> IF x = c THEN EOC ELSE c], held)>>
    BY <1>6 DEF AllocateOne
  <2> HIDE DEF c, held
  <2>4. Runs(w, <<FatStep(held, [x \in {c} \cup {tail} |-> IF x = c THEN EOC ELSE c], held)>>, AllocWorld(w, q, 1, {tail}))
    BY <1>5, <2>1, <2>2, Zenon
  <2> QED BY <2>2, <2>3, <2>4 DEF c
<1>7. CASE ~(tail # 0 /\ SameBlock(tail, c))
  <2> DEFINE s == FatStep(held, [x \in {c} |-> EOC], held)
             r == IF tail = 0 THEN <<>> ELSE <<FatStep(held, [x \in {tail} |-> c], held)>>
  <2>1. AllocateOne(c, tail, o) = <<s>> \o r BY <1>7 DEF AllocateOne
  <2>2. Runs(w, <<s>>, AllocWorld(w, q, 1, {}))
    <3>1. {c} \cup {} = {c} /\ {c} \cup {} \in Groups BY <1>1, SingleGroup
    <3>2. [x \in {c} \cup {} |-> IF x = c THEN EOC ELSE c] = [x \in {c} |-> EOC] BY <3>1
    <3> HIDE DEF c, held
    <3>3. Runs(w, <<FatStep(held, [x \in {c} \cup {} |-> IF x = c THEN EOC ELSE c], held)>>, AllocWorld(w, q, 1, {}))
      BY <1>5, <3>1
    <3> QED BY <3>2, <3>3
  <2>3. CASE tail = 0
    <3>1. {tail} \ {0} = {} /\ r = <<>> BY <2>3
    <3> HIDE DEF s, r
    <3>2. <<s>> \o r = <<s>> BY <3>1
    <3> HIDE DEF c
    <3> QED BY <2>1, <2>2, <3>1, <3>2, Zenon DEF c
  <2>4. CASE tail # 0
    <3>1. {tail} \ {0} = {tail} /\ r = <<FatStep(held, [x \in {tail} |-> c], held)>> BY <2>4
    <3>2. Runs(AllocWorld(w, q, 1, {}), r, AllocWorld(w, q, 1, {tail})) BY <2>4, <3>1, TailLinkRuns
    <3> HIDE DEF s, r, c
    <3>3. Runs(w, <<s>> \o r, AllocWorld(w, q, 1, {tail})) BY <2>2, <3>2, RunsJoin
    <3> QED BY <2>1, <3>1, <3>3 DEF c
  <2> QED BY <2>3, <2>4
<1> QED BY <1>6, <1>7

\* The tail is linked with the last group of q, or after it.
Merged(q, tail) == IF tail # 0 /\ SameBlock(tail, q[1]) THEN {tail} ELSE {}
LinkLast(q, tail, o) ==
    LET held == Held(q[1], 0, o)
    IN  IF tail = 0 \/ (tail # 0 /\ SameBlock(tail, q[1])) THEN <<>>
        ELSE <<FatStep(held, [x \in {tail} |-> q[1]], held)>>

\* allocate_run and allocate_run_after: groups of clusters in one block.
LEMMA ManyAllocs ==
  ASSUME NEW q \in Seq(Clusters), q # <<>>, NEW tail \in Clusters \cup {0},
         \A i, j \in 1 .. Len(q) : q[i] = q[j] => i = j,
         \A i \in 1 .. Len(q) : q[i] # tail, NEW o
  PROVE  \E s : /\ Allocs(s, q, Merged(q, tail), o)
                /\ AllocateMany(q, tail, o) = s \o LinkLast(q, tail, o)
<1> DEFINE n == Len(q)
           S == {i \in 1 .. n : i = 1 \/ q[i] < q[i - 1] \/ ~SameBlock(q[i - 1], q[i])}
           r == [i \in 1 .. n |-> -i]
           K == Cardinality(S)
           nth(k) == Nth(S, r, k)
           last(k) == IF k = 1 THEN n ELSE nth(k - 1) - 1
           merged == tail # 0 /\ SameBlock(tail, q[1])
           M == IF merged THEN {tail} ELSE {}
           after(i) == IF i = n THEN EOC ELSE q[i + 1]
           group(k) == [c \in {q[i] : i \in nth(k) .. last(k)} |->
                          after(CHOOSE i \in 1 .. n : q[i] = c)]
           linked(k) == [c \in DOMAIN group(k) \cup {tail} |-> IF c = tail THEN q[1] ELSE group(k)[c]]
           step(k) == FatStep(Held(IF k = 1 THEN 0 ELSE q[nth(k - 1)], q[nth(k)], o),
                              IF merged /\ nth(k) = 1 THEN linked(k) ELSE group(k),
                              Held(q[nth(k)], 0, o))
           held == Held(q[1], 0, o)
           s == [k \in 1 .. K |-> step(k)]
           b == [k \in 0 .. K |-> IF k = 0 THEN n + 1 ELSE nth(k)]
<1>1. n \in Nat /\ n >= 1 /\ DOMAIN q = 1 .. n OBVIOUS
<1>2. AllocateMany(q, tail, o) =
        s \o (IF tail = 0 \/ merged THEN <<>> ELSE <<FatStep(held, [x \in {tail} |-> q[1]], held)>>)
  BY <1>1 DEF AllocateMany
<1> HIDE DEF n
<1>3. IsFiniteSet(S) /\ K \in Nat /\ S \in SUBSET (1 .. n) /\ 1 \in S /\ K >= 1
  <2>1. 1 \in Int /\ n \in Int BY <1>1
  <2>2. IsFiniteSet(1 .. n) BY <2>1, FS_Interval
  <2>3. IsFiniteSet(S) /\ K \in Nat /\ S \in SUBSET (1 .. n) BY <2>2, FS_Subset, FS_CardinalityType, Zenon
  <2>4. 1 \in S BY <1>1
  <2>5. K # 0 BY <2>3, <2>4, FS_EmptySet, Zenon
  <2> HIDE DEF S, K
  <2> QED BY <2>3, <2>4, <2>5
<1>4. Ranked(S, r) /\ \A i \in S : r[i] = -i /\ i \in Nat
  BY <1>1, <1>3 DEF Ranked
<1> HIDE DEF r
<1>5. ASSUME NEW k \in 1 .. K
      PROVE  /\ nth(k) \in S /\ nth(k) \in 1 .. n
             /\ k # 1 => nth(k - 1) \in S /\ nth(k - 1) \in 1 .. n /\ nth(k) < nth(k - 1)
             /\ nth(k) = 1 <=> k = K
             /\ \A i \in S : ~(nth(k) < i /\ i <= last(k))
  <2>1. nth(k) \in S BY <1>4, NthIs
  <2>2. k # 1 => k - 1 \in 1 .. K /\ (k - 1) + 1 = k BY <1>3
  <2> DEFINE j == k - 1
  <2> HIDE DEF j
  <2>a. k # 1 => j \in 1 .. K /\ j + 1 = k BY <2>2 DEF j
  <2>3. k # 1 => nth(j) \in S /\ r[nth(j)] < r[nth(k)]
    <3>1. k # 1 => nth(j) \in S BY <1>4, <2>a, NthIs
    <3>2. k # 1 => (j < k <=> r[nth(j)] < r[nth(k)]) BY <1>4, <2>a, NthOrder
    <3>3. k # 1 => j < k BY <2>a
    <3> QED BY <3>1, <3>2, <3>3
  <2>4. \A i \in S : k # 1 => ~(r[nth(j)] < r[i] /\ r[i] < r[nth(k)])
    <3>1. \A i \in S : k # 1 => (j + 1 \in 1 .. K => ~(r[nth(j)] < r[i] /\ r[i] < r[nth(j + 1)]))
      BY <1>4, <2>a, NthGap, Zenon
    <3> QED BY <2>a, <3>1, Zenon
  <2>5. \A i \in S : k = 1 => ~(r[i] < r[nth(k)]) BY <1>4, NthGap
  <2>6. \A i \in S : k = K => ~(r[nth(k)] < r[i]) BY <1>4, NthGap
  <2>7. k # K => r[nth(k)] < r[nth(K)] /\ nth(K) \in S
    <3>1. K \in 1 .. K BY <1>3
    <3>2. k < K <=> r[nth(k)] < r[nth(K)] BY <1>4, <3>1, NthOrder
    <3>3. nth(K) \in S BY <1>4, <3>1, NthIs
    <3> HIDE DEF S, nth, K
    <3> QED BY <1>3, <3>2, <3>3
  <2> HIDE DEF S, nth, K
  <2>8. nth(k) = 1 <=> k = K
    <3>1. CASE k = K
      <4>1. ~(r[nth(k)] < r[1]) BY <1>3, <2>6, <3>1
      <4>a. r[nth(k)] = -nth(k) /\ r[1] = -1 /\ nth(k) \in 1 .. n BY <1>3, <1>4, <2>1, Zenon
      <4>2. r[nth(k)] = -nth(k) /\ r[1] = -1 /\ nth(k) \in Nat /\ nth(k) >= 1 BY <1>1, <4>a
      <4> QED BY <3>1, <4>1, <4>2
    <3>2. CASE k # K
      <4>1. r[nth(k)] = -nth(k) /\ nth(k) \in Nat BY <1>4, <2>1
      <4>2. nth(K) \in 1 .. n /\ r[nth(K)] = -nth(K) BY <1>3, <1>4, <2>7, <3>2, Zenon
      <4> QED BY <1>1, <2>7, <3>2, <4>1, <4>2
    <3> QED BY <3>1, <3>2
  <2>9. k # 1 => nth(j) \in S /\ nth(j) \in 1 .. n /\ nth(k) < nth(j)
    <3> SUFFICES ASSUME k # 1 PROVE nth(j) \in S /\ nth(j) \in 1 .. n /\ nth(k) < nth(j) OBVIOUS
    <3>1. nth(j) \in S /\ nth(j) \in 1 .. n /\ r[nth(j)] < r[nth(k)] BY <1>3, <2>3, Zenon
    <3>2. r[nth(j)] = -nth(j) /\ r[nth(k)] = -nth(k) /\ nth(j) \in Nat /\ nth(k) \in Nat
      BY <1>4, <2>1, <3>1
    <3> QED BY <3>1, <3>2
  <2>10. ASSUME NEW i \in S PROVE ~(nth(k) < i /\ i <= last(k))
    <3>0. r[nth(k)] = -nth(k) /\ nth(k) \in Nat /\ r[i] = -i /\ i \in Nat BY <1>4, <2>1
    <3>1. CASE k = 1
      <4>1. ~(r[i] < r[nth(k)]) BY <2>5, <3>1
      <4> QED BY <3>0, <4>1
    <3>2. CASE k # 1
      <4>1. last(k) = nth(j) - 1 BY <3>2 DEF j
      <4>2. r[nth(j)] = -nth(j) /\ nth(j) \in Nat BY <1>4, <2>9, <3>2
      <4>3. ~(r[nth(j)] < r[i] /\ r[i] < r[nth(k)]) BY <2>4, <3>2
      <4> QED BY <3>0, <4>1, <4>2, <4>3
    <3> QED BY <3>1, <3>2
  <2>11. nth(k) \in 1 .. n BY <1>3, <2>1, Zenon
  <2> QED BY <2>1, <2>8, <2>9, <2>10, <2>11 DEF j
<1>6. ASSUME NEW k \in 1 .. K
      PROVE  /\ b[k] = nth(k) /\ b[k - 1] - 1 = last(k) /\ b[k - 1] \in Nat /\ b[k] \in Nat
             /\ 1 <= b[k] /\ b[k] < b[k - 1] /\ b[k - 1] <= n + 1
             /\ (b[k - 1] = n + 1 <=> k = 1) /\ (k # 1 => b[k - 1] = nth(k - 1))
             /\ last(k) \in Nat /\ last(k) <= n
  <2>1. k \in 0 .. K /\ k - 1 \in 0 .. K /\ k # 0 /\ (k - 1 = 0 <=> k = 1) BY <1>3
  <2>2. b[k] = nth(k) /\ (k = 1 => b[k - 1] = n + 1) /\ (k # 1 => b[k - 1] = nth(k - 1)) BY <2>1
  <2>3. nth(k) \in 1 .. n /\ (k # 1 => nth(k - 1) \in 1 .. n /\ nth(k) < nth(k - 1)) BY <1>5
  <2> HIDE DEF S, nth, K, b
  <2> QED BY <1>1, <2>2, <2>3
<1>7. b \in [0 .. K -> Nat] /\ b[0] = n + 1 /\ b[K] = 1
  <2>1. b[0] = n + 1 BY <1>3
  <2>2. b[K] = 1
    <3>1. K \in 1 .. K BY <1>3
    <3>2. b[K] = nth(K) /\ nth(K) = 1 BY <1>5, <1>6, <3>1
    <3> QED BY <3>2
  <2>3. ASSUME NEW k \in 0 .. K PROVE b[k] \in Nat
    <3>1. CASE k = 0 BY <1>1, <2>1, <3>1
    <3>2. CASE k # 0
      <4>1. k \in 1 .. K BY <1>3, <3>2
      <4> QED BY <1>6, <4>1, Zenon
    <3> QED BY <3>1, <3>2
  <2> QED BY <2>1, <2>2, <2>3
<1>8. ASSUME NEW k \in 1 .. K
      PROVE  \A i, j \in nth(k) .. last(k) : q[i] = q[j] \/ SameBlock(q[i], q[j])
  <2>0. nth(k) \in 1 .. n /\ last(k) \in Nat /\ last(k) <= n BY <1>5, <1>6, Zenon
  <2>1. ASSUME NEW i \in nth(k) + 1 .. last(k) PROVE SameBlock(q[i - 1], q[i])
    <3>1. i \in 1 .. n /\ i # 1 /\ nth(k) < i /\ i <= last(k)
      <4> HIDE DEF S, nth, K, last
      <4> QED BY <1>1, <2>0
    <3>2. i \notin S BY <1>5, <3>1
    <3> QED BY <3>1, <3>2
  <2> DEFINE a == nth(k)
             c == last(k)
  <2>2. a \in Nat /\ c \in Nat
    <3> HIDE DEF S, nth, K, last
    <3> QED BY <1>1, <2>0
  <2>3. \A i \in a + 1 .. c : SameBlock(q[i - 1], q[i]) BY <2>1
  <2> HIDE DEF a, c
  <2>4. \A i, j \in a .. c : q[i] = q[j] \/ SameBlock(q[i], q[j]) BY <2>2, <2>3, OneBlock, Zenon
  <2> QED BY <2>4 DEF a, c
<1>9. ASSUME NEW k \in 1 .. K
      PROVE  {q[i] : i \in nth(k) .. last(k)} \cup (IF k = K THEN M ELSE {}) \in Groups
  <2>0. nth(k) \in 1 .. n /\ last(k) \in Nat /\ last(k) <= n /\ nth(k) <= last(k)
    <3>1. nth(k) \in 1 .. n /\ last(k) \in Nat /\ last(k) <= n BY <1>5, <1>6, Zenon
    <3>2. nth(k) <= last(k)
      <4>1. b[k] = nth(k) /\ b[k - 1] - 1 = last(k) /\ b[k] < b[k - 1] /\ b[k - 1] \in Nat /\ b[k] \in Nat
        BY <1>6, Zenon
      <4> HIDE DEF S, nth, K, last, b
      <4> QED BY <4>1
    <3> QED BY <3>1, <3>2
  <2>1. k = K => nth(k) = 1 BY <1>5
  <2>2. \A i, j \in nth(k) .. last(k) : q[i] = q[j] \/ SameBlock(q[i], q[j]) BY <1>8
  <2> DEFINE a == nth(k)
             c == last(k)
             N == IF k = K THEN M ELSE {}
             D == {q[i] : i \in a .. c}
  <2>3. /\ a \in 1 .. n /\ c \in Nat /\ c <= n /\ a <= c
        /\ \A i, j \in a .. c : q[i] = q[j] \/ SameBlock(q[i], q[j])
    BY <2>0, <2>2, Zenon
  <2>4. N = {} \/ (N = {tail} /\ a = 1 /\ SameBlock(tail, q[1]) /\ tail \in Clusters) BY <2>1, Zenon
  <2> HIDE DEF a, c, N
  <2>5. D \in SUBSET Clusters /\ D # {} /\ \A x, y \in D : x = y \/ SameBlock(x, y)
    <3>1. \A i \in a .. c : q[i] \in Clusters BY <1>1, <2>3 DEF n
    <3>2. a \in a .. c BY <2>3
    <3> QED BY <2>3, <3>1, <3>2
  <2>6. CASE N = {}
    <3>1. D \cup N = D BY <2>6
    <3>2. D \in Groups BY <2>5 DEF Groups
    <3> QED BY <3>1, <3>2, Zenon DEF a, c, N
  <2>7. CASE N = {tail} /\ a = 1 /\ SameBlock(tail, q[1]) /\ tail \in Clusters
    <3>1. q[1] \in D BY <2>3, <2>7
    <3> HIDE DEF D
    <3>2. \A x, y \in D \cup N : x = y \/ SameBlock(x, y)
      BY <2>5, <2>7, <3>1 DEF SameBlock
    <3>3. D \cup N \in Groups BY <2>5, <2>7, <3>2 DEF Groups
    <3> QED BY <3>3 DEF a, c, N, D
  <2> QED BY <2>4, <2>6, <2>7
<1>10. ASSUME NEW k \in 1 .. K
       PROVE  step(k) = AllocStep(q, b[k - 1], b[k], IF k = K THEN M ELSE {}, o)
  <2> DEFINE N == IF k = K THEN M ELSE {}
             D == {q[i] : i \in nth(k) .. last(k)}
  <2>1. /\ b[k] = nth(k) /\ b[k - 1] - 1 = last(k)
        /\ (b[k - 1] = n + 1 <=> k = 1) /\ (k # 1 => b[k - 1] = nth(k - 1))
    BY <1>6, Zenon
  <2>2. (IF b[k - 1] = n + 1 THEN 0 ELSE q[b[k - 1]]) = IF k = 1 THEN 0 ELSE q[nth(k - 1)]
    BY <2>1
  <2>3. Links1(q, b[k], b[k - 1], N) = [c \in D \cup N |-> IF c \in N THEN q[1] ELSE After(q, At(q, c))]
    BY <2>1, Zenon DEF Links1
  <2>4. \A c : After(q, At(q, c)) = after(CHOOSE i \in 1 .. n : q[i] = c)
    BY <1>1 DEF After, At, n
  <2>5. nth(k) = 1 <=> k = K BY <1>5
  <2>6. DOMAIN group(k) = D /\ \A c \in D : group(k)[c] = After(q, At(q, c)) BY SMTT(30), <2>4
  <2>7. group(k) = [c \in D |-> After(q, At(q, c))] BY SMTT(30), <2>4
  <2>8. ASSUME merged, nth(k) = 1 PROVE linked(k) = Links1(q, b[k], b[k - 1], N)
    <3>1. N = {tail} BY <2>5, <2>8, Zenon
    <3>2. linked(k) = [c \in D \cup {tail} |-> IF c = tail THEN q[1] ELSE group(k)[c]] BY <2>6
    <3> HIDE DEF linked, group, D, N
    <3>3. \A c \in D \cup {tail} : (IF c = tail THEN q[1] ELSE group(k)[c]) = IF c \in N THEN q[1] ELSE After(q, At(q, c))
      BY <2>6, <3>1
    <3> QED BY <2>3, <3>1, <3>2, <3>3
  <2>9. ASSUME ~(merged /\ nth(k) = 1) PROVE group(k) = Links1(q, b[k], b[k - 1], N)
    <3>1. N = {} BY <2>5, <2>9, Zenon
    <3> HIDE DEF group, D, N
    <3>2. D \cup N = D BY <3>1
    <3> QED BY <2>3, <2>7, <3>1, <3>2
  <2>10. (IF merged /\ nth(k) = 1 THEN linked(k) ELSE group(k)) = Links1(q, b[k], b[k - 1], N)
    BY <2>8, <2>9
  <2>11. AllocStep(q, b[k - 1], b[k], N, o) =
           FatStep(Held(IF b[k - 1] = n + 1 THEN 0 ELSE q[b[k - 1]], q[b[k]], o),
                   Links1(q, b[k], b[k - 1], N), Held(q[b[k]], 0, o))
    BY DEF AllocStep, n
  <2> HIDE DEF linked, group, merged, N, b, nth, K
  <2>12. step(k) = AllocStep(q, b[k - 1], b[k], N, o) BY <2>1, <2>2, <2>10, <2>11
  <2> QED BY <2>12 DEF N
<1>11. Allocs(s, q, M, o)
  <2> HIDE DEF b, step, S, nth, K, M, last
  <2>1. s = [k \in 1 .. K |-> AllocStep(q, b[k - 1], b[k], IF k = K THEN M ELSE {}, o)] BY <1>10
  <2>2. ASSUME NEW k \in 1 .. K
        PROVE  /\ 1 <= b[k] /\ b[k] < b[k - 1] /\ b[k - 1] <= n + 1
               /\ {q[j] : j \in b[k] .. b[k - 1] - 1} \cup (IF k = K THEN M ELSE {}) \in Groups
    <3>1. b[k] = nth(k) /\ b[k - 1] - 1 = last(k) BY <1>6
    <3> QED BY <1>6, <1>9, <3>1, Zenon
  <2> QED BY <1>3, <1>7, <2>1, <2>2, Zenon DEF Allocs, n
<1>12. M = Merged(q, tail) BY DEF Merged
<1>13. AllocateMany(q, tail, o) = s \o LinkLast(q, tail, o) BY <1>2 DEF LinkLast
<1> HIDE DEF s, M
<1> QED BY <1>11, <1>12, <1>13, Zenon

\* allocate_run and allocate_run_after are safe at every write.
LEMMA AllocateRuns ==
  ASSUME NEW w, Good(w, NoPending), NEW q, NEW tail, Fresh(w.table, w.entry, q, tail),
         NEW o, OwnerFor(o, tail)
  PROVE  Runs(w, Allocate(q, tail, o), AllocWorld(w, q, 1, {tail} \ {0}))
<1>1. CASE Len(q) = 1 BY <1>1, AllocateOneRuns DEF Allocate
<1>2. CASE Len(q) # 1
  <2> DEFINE held == Held(q[1], 0, o)
             M == Merged(q, tail)
             r == LinkLast(q, tail, o)
  <2>1. /\ q \in Seq(Clusters) /\ q # <<>> /\ tail \in Clusters \cup {0}
        /\ \A i, j \in 1 .. Len(q) : q[i] = q[j] => i = j
    BY DEF Fresh
  <2>2. \A i \in 1 .. Len(q) : q[i] # tail BY Numbers DEF Fresh
  <2>3. PICK s : Allocs(s, q, M, o) /\ AllocateMany(q, tail, o) = s \o r
    BY <2>1, <2>2, ManyAllocs, Zenon
  <2>4. M \in SUBSET ({tail} \ {0}) BY DEF Merged
  <2> HIDE DEF M
  <2>5. Runs(w, s, AllocWorld(w, q, 1, M)) BY <2>3, <2>4, AllocsRun
  <2>6. CASE tail = 0 \/ SameBlock(tail, q[1])
    <3>1. r = <<>> /\ M = {tail} \ {0} BY <2>6 DEF M, Merged, LinkLast
    <3>2. s \o <<>> = s
      <4>1. s \in Seq(AllSteps) BY <2>5 DEF Runs
      <4> QED BY <4>1
    <3> QED BY <1>2, <2>3, <2>5, <3>1, <3>2 DEF Allocate
  <2>7. CASE ~(tail = 0 \/ SameBlock(tail, q[1]))
    <3>1. /\ r = <<FatStep(held, [x \in {tail} |-> q[1]], held)>> /\ M = {} /\ tail # 0
          /\ {tail} \ {0} = {tail}
      BY <2>7 DEF M, Merged, LinkLast
    <3>2. Runs(AllocWorld(w, q, 1, {}), r, AllocWorld(w, q, 1, {tail})) BY <3>1, TailLinkRuns
    <3> HIDE DEF r
    <3>3. Runs(w, s \o r, AllocWorld(w, q, 1, {tail})) BY <2>5, <3>1, <3>2, RunsJoin
    <3> QED BY <1>2, <2>3, <3>1, <3>3, Zenon DEF Allocate, r
  <2> QED BY <2>6, <2>7
<1> QED BY <1>1, <1>2

\* Differences of clusters are told apart modulo Total.
LEMMA SmallMod ==
  ASSUME NEW n \in Nat, n >= 1, NEW x \in Int, -n <= x, x < n
  PROVE  x % n = IF x < 0 THEN x + n ELSE x
<1>1. CASE x < 0
  <2>1. x % n = x + n BY <1>1
  <2> QED BY <1>1, <2>1
<1>2. CASE ~(x < 0)
  <2>1. x \in Nat /\ x % n = x BY <1>2
  <2> QED BY <1>2, <2>1
<1> QED BY <1>1, <1>2

\* The scan finds distinct free clusters.
LEMMA FoundFree ==
  ASSUME NEW from \in Clusters,
         NEW count \in Nat, count <= Cardinality({c \in Clusters : table[c] = Free})
  PROVE  LET q == Found(from, count)
         IN  /\ q \in Seq(Clusters) /\ Len(q) = count
             /\ \A i \in 1 .. count : table[q[i]] = Free
             /\ \A i, j \in 1 .. count : q[i] = q[j] => i = j
<1> DEFINE S == {c \in Clusters : table[c] = Free}
           r == [c \in Clusters |-> (c - from) % Total]
           q == [k \in 1 .. count |-> Nth(S, r, k)]
<1>1. Found(from, count) = q BY DEF Found
<1>2. IsFiniteSet(S) /\ S \in SUBSET Clusters /\ Cardinality(S) \in Nat
  BY ClusterCount, FS_Subset, FS_CardinalityType
<1>3. \A c \in Clusters : r[c] = IF c < from THEN (c - from) + Total ELSE c - from
  <2> TAKE c \in Clusters
  <2> DEFINE x == c - from
  <2>1. x \in Int /\ -Total <= x /\ x < Total /\ (x < 0 <=> c < from)
    BY MaxClusterAssumption DEF Clusters, Total
  <2>2. r[c] = x % Total OBVIOUS
  <2> HIDE DEF x, r
  <2>3. x % Total = IF x < 0 THEN x + Total ELSE x BY <2>1, TotalType, SmallMod, Zenon
  <2> QED BY <2>1, <2>2, <2>3 DEF x
<1> HIDE DEF r
<1>4. Ranked(S, r)
  <2>1. \A c \in S : r[c] \in Int
    BY <1>2, <1>3, TotalType, Numbers
  <2>2. \A c, d \in S : r[c] = r[d] => c = d
    <3> TAKE c, d \in S
    <3>1. c \in Int /\ d \in Int /\ from \in Int /\ 2 <= c /\ 2 <= d /\ 2 <= from
          /\ c <= MaxCluster /\ d <= MaxCluster /\ from <= MaxCluster
      BY <1>2, MaxClusterAssumption DEF Clusters
    <3>2. /\ r[c] = IF c < from THEN (c - from) + Total ELSE c - from
          /\ r[d] = IF d < from THEN (d - from) + Total ELSE d - from
      BY <1>2, <1>3
    <3> QED BY <3>1, <3>2, MaxClusterAssumption DEF Total
  <2> QED BY <1>2, <2>1, <2>2 DEF Ranked
<1>5. ASSUME NEW i \in 1 .. count
      PROVE  i \in 1 .. Cardinality(S) /\ q[i] = Nth(S, r, i) /\ q[i] \in S
  <2>1. i \in 1 .. Cardinality(S) BY <1>2
  <2>2. Nth(S, r, i) \in S BY <1>4, <2>1, NthIs
  <2> QED BY <2>1, <2>2
<1>6. ASSUME NEW i \in 1 .. count, NEW j \in 1 .. count, q[i] = q[j] PROVE i = j
  <2>1. i \in 1 .. Cardinality(S) /\ j \in 1 .. Cardinality(S) /\ Nth(S, r, i) = Nth(S, r, j)
    BY <1>5, <1>6
  <2>2. Cardinality(Below(S, r, Nth(S, r, i))) = i /\ Cardinality(Below(S, r, Nth(S, r, j))) = j
    BY <1>4, <2>1, NthIs
  <2> QED BY <2>1, <2>2
<1>7. q \in [1 .. count -> Clusters] BY <1>5
<1>8. q \in Seq(Clusters) /\ Len(q) = count BY <1>7
<1>9. \A i \in 1 .. count : table[q[i]] = Free BY <1>5
<1> HIDE DEF q
<1> QED BY <1>1, <1>6, <1>8, <1>9

-----------------------------------------------------------------------------
(* Writing an entry or a node. *)

\* Another entry and node for f.
Put(w, f, to, k) ==
    [table |-> w.table, entry |-> [w.entry EXCEPT ![f] = to], node |-> [w.node EXCEPT ![f] = k]]

\* Its parts.
LEMMA PutFields ==
  ASSUME NEW w \in Worlds, NEW f \in Files, NEW to \in Entries, NEW k \in Nodes
  PROVE  /\ Put(w, f, to, k) \in Worlds /\ Put(w, f, to, k).table = w.table
         /\ Put(w, f, to, k).entry = [w.entry EXCEPT ![f] = to]
         /\ Put(w, f, to, k).node = [w.node EXCEPT ![f] = k]
         /\ w.table \in [Clusters -> Values] /\ w.entry \in [Files -> Entries] /\ w.node \in [Files -> Nodes]
  BY DEF Put, Worlds

\* Writing what is there.
LEMMA SameEntry ==
  ASSUME NEW w \in Worlds, NEW f \in Files, NEW k
  PROVE  /\ [w.entry EXCEPT ![f] = w.entry[f]] = w.entry
         /\ [w.node EXCEPT ![f] = w.node[f]] = w.node
         /\ Put(w, f, w.entry[f], w.node[f]) = w
         /\ w.entry[f] \in Entries /\ w.node[f] \in Nodes
<1>1. w.entry \in [Files -> Entries] /\ w.node \in [Files -> Nodes] BY DEF Worlds
<1>2. [w.entry EXCEPT ![f] = w.entry[f]] = w.entry /\ [w.node EXCEPT ![f] = w.node[f]] = w.node
  BY <1>1
<1> QED BY <1>1, <1>2 DEF Put, Worlds

\* A write of a short entry is safe when the pending clusters fit before it,
\* after it, and after the caller learns of it.
LEMMA EntryStepSafe ==
  ASSUME NEW w, NEW p, NEW f \in Files, NEW to \in Entries, NEW k \in Nodes, NEW r,
         Good(w, p), Good(Put(w, f, to, w.node[f]), p), Good(Put(w, f, to, k), r)
  PROVE  LET s == EntryStep(p, f, to, k, r)
         IN  Safe(w, s) /\ Landed(w, s) = Put(w, f, to, k)
<1> DEFINE s == EntryStep(p, f, to, k, r)
<1>1. /\ s.kind = "entry" /\ s.pre = p /\ s.file = f /\ s.to = to /\ s.node = k /\ s.post = r
  BY DEF EntryStep
<1>2. s \in AllSteps
  <2>1. p \in Pendings /\ r \in Pendings BY DEF Good
  <2> QED BY <2>1 DEF AllSteps, EntrySteps, EntryStep
<1> HIDE DEF s
<1>3. w \in Worlds BY DEF Good
<1>4. [w.node EXCEPT ![f] = w.node[f]] = w.node BY <1>3, SameEntry, Zenon
<1>5. Written(w, s) = Put(w, f, to, w.node[f]) /\ Landed(w, s) = Put(w, f, to, k)
  BY <1>1, <1>4 DEF Written, Landed, Put
<1>6. Safe(w, s) BY <1>1, <1>2, <1>5 DEF Safe
<1> QED BY <1>5, <1>6 DEF s

\* So is a write of data.
LEMMA DataStepSafe ==
  ASSUME NEW w, NEW p, NEW f \in Files, NEW k \in Nodes, NEW r,
         Good(w, p), Good(Put(w, f, w.entry[f], k), r)
  PROVE  LET s == DataStep(p, f, k, r)
         IN  Safe(w, s) /\ Landed(w, s) = Put(w, f, w.entry[f], k)
<1> DEFINE s == DataStep(p, f, k, r)
<1>1. s.kind = "data" /\ s.pre = p /\ s.file = f /\ s.node = k /\ s.post = r
  BY DEF DataStep
<1>2. s \in AllSteps
  <2>1. p \in Pendings /\ r \in Pendings BY DEF Good
  <2> QED BY <2>1 DEF AllSteps, DataSteps, DataStep
<1> HIDE DEF s
<1>3. w \in Worlds BY DEF Good
<1>4. [w.entry EXCEPT ![f] = w.entry[f]] = w.entry BY <1>3, SameEntry, Zenon
<1>5. Written(w, s) = w
  BY <1>1, <1>3 DEF Written, Worlds
<1>6. Landed(w, s) = Put(w, f, w.entry[f], k)
  BY <1>1, <1>4 DEF Landed, Put
<1>7. Safe(w, s) BY <1>1, <1>2, <1>5, <1>6 DEF Safe
<1> QED BY <1>6, <1>7 DEF s

\* What links c after the entry of f is written.
LEMMA LinkedPut ==
  ASSUME NEW t, NEW e \in [Files -> Entries], NEW f \in Files, NEW to \in Entries, NEW c, NEW D, NEW F,
         LinkedBy(t, e, c, D, F \cup {f}), to.used /\ to.first = c => f \in F
  PROVE  LinkedBy(t, [e EXCEPT ![f] = to], c, D, F)
  BY DEF LinkedBy

\* When an entry and a node may be written.
LEMMA PutGood ==
  ASSUME NEW w \in Worlds, Sound(w.table, w.entry), NEW p \in Pendings,
         NodeOK(w.table, w.entry, w.node, p),
         NEW f \in Files, NEW to \in Entries, NEW k \in Nodes,
         to.used /\ to.first # 0 =>
            w.table[to.first] # Free /\ LinkedBy(w.table, w.entry, to.first, {}, {f}),
         PendOK(w.table, [w.entry EXCEPT ![f] = to], p),
         NodeFits(w.table, to, k, p, f)
  PROVE  Good(Put(w, f, to, k), p)
<1> DEFINE t == w.table
           e == w.entry
           x == [e EXCEPT ![f] = to]
<1>1. t \in [Clusters -> Values] /\ e \in [Files -> Entries] /\ w.node \in [Files -> Nodes] BY DEF Worlds
<1>2. x[f] = to /\ \A g \in Files : g # f => x[g] = e[g] BY <1>1
<1>3. Sound(t, x)
  <2>1. \A g \in Files : x[g].used /\ x[g].first # 0 => t[x[g].first] # Free
    BY <1>2 DEF Sound
  <2>2. \A g, h \in Files :
          x[g].used /\ x[h].used /\ x[g].first = x[h].first /\ x[g].first # 0 => g = h
    BY <1>2 DEF Sound, LinkedBy
  <2>3. \A g \in Files, c \in Clusters : x[g].used /\ x[g].first # 0 => t[c] # x[g].first
    BY <1>2 DEF Sound, LinkedBy
  <2> HIDE DEF t, e, x
  <2> QED BY <2>1, <2>2, <2>3 DEF Sound, t, e
<1>4. NodeOK(t, x, [w.node EXCEPT ![f] = k], p)
  BY <1>1, <1>2 DEF NodeOK
<1> QED BY <1>3, <1>4, PutFields DEF Good

\* Pending clusters without an extra chain.
LEMMA HeadOnly ==
  ASSUME NEW t, NEW e, NEW h \in Clusters \cup {0}, NEW o \in Owners,
         h # 0 => LinkedBy(t, e, h, Tails(o), Owning(o))
  PROVE  Held(h, 0, o) \in Pendings /\ PendOK(t, e, Held(h, 0, o))
<1>1. Held(h, 0, o) \in Pendings BY HeldType, Zenon
<1> QED BY <1>1, HeldFields DEF PendOK

\* Nothing pending fits every disk.
LEMMA NonePending ==
  ASSUME NEW t, NEW e
  PROVE  PendOK(t, e, NoPending)
  BY PendingType DEF PendOK

\* The owners that the operations use.
LEMMA OwnerTypes ==
  ASSUME NEW f \in Files
  PROVE  /\ EntryOf(f) \in Owners /\ Tails(EntryOf(f)) = {} /\ Owning(EntryOf(f)) = {f}
         /\ Removed(f) \in Owners /\ Tails(Removed(f)) = {} /\ Owning(Removed(f)) = {f}
         /\ \A c \in Clusters : AtTail(c) \in Owners /\ Tails(AtTail(c)) = {c} /\ Owning(AtTail(c)) = {}
         /\ \A c \in Clusters, z \in 0 .. MaxSize :
               Cut(f, z, c) \in Owners /\ Tails(Cut(f, z, c)) = {c} /\ Owning(Cut(f, z, c)) = {}
<1>1. EntryOf(f) \in Owners /\ Removed(f) \in Owners BY DEF Owners
<1>2. \A c \in Clusters : AtTail(c) \in Owners BY DEF Owners
<1>3. \A c \in Clusters, z \in 0 .. MaxSize : Cut(f, z, c) \in Owners BY DEF Owners
<1>4. Tails(EntryOf(f)) = {} /\ Owning(EntryOf(f)) = {f} /\ Tails(Removed(f)) = {} /\ Owning(Removed(f)) = {f}
  BY DEF EntryOf, Removed, Tails, Owning, IsTail
<1>5. \A c \in Clusters : Tails(AtTail(c)) = {c} /\ Owning(AtTail(c)) = {}
  BY DEF AtTail, Tails, Owning, IsTail
<1>6. \A c \in Clusters, z \in 0 .. MaxSize : Tails(Cut(f, z, c)) = {c} /\ Owning(Cut(f, z, c)) = {}
  BY DEF Cut, Tails, Owning, IsTail
<1> QED BY <1>1, <1>2, <1>3, <1>4, <1>5, <1>6

\* A node in step with its entry.
Agree(d, k) ==
    /\ k.dirty => k.pinned /\ k.first # 0
    /\ k.pinned => k.first = IF d.used THEN d.first ELSE 0

\* It fits whatever is pending.
LEMMA AgreeFits ==
  ASSUME NEW t, NEW d, NEW k, NEW p, NEW f, Agree(d, k)
  PROVE  NodeFits(t, d, k, p, f)
  BY DEF Agree, NodeFits

\* With nothing pending, nodes are in step.
LEMMA ReadyAgree ==
  ASSUME NEW w, Good(w, NoPending), NEW f \in Files
  PROVE  Agree(w.entry[f], w.node[f])
<1>1. NodeFits(w.table, w.entry[f], w.node[f], NoPending, f) BY DEF Good, NodeOK
<1>2. NoPending.owner # EntryOf(f) /\ NoPending.owner # Removed(f)
  <2>1. EntryOf(f).kind = "entry" /\ Removed(f).kind = "removed" BY DEF EntryOf, Removed
  <2> QED BY <2>1, PendingType
<1> QED BY <1>1, <1>2 DEF NodeFits, Agree

\* From a state in which nothing is pending, an entry and a node may be
\* written under pending clusters that fit them.
LEMMA PutReady ==
  ASSUME NEW w, Good(w, NoPending), NEW p \in Pendings,
         NEW f \in Files, NEW to \in Entries, NEW k \in Nodes,
         to.used /\ to.first # 0 =>
            w.table[to.first] # Free /\ LinkedBy(w.table, w.entry, to.first, {}, {f}),
         PendOK(w.table, [w.entry EXCEPT ![f] = to], p),
         NodeFits(w.table, to, k, p, f)
  PROVE  Good(Put(w, f, to, k), p)
<1>1. w \in Worlds /\ Sound(w.table, w.entry) /\ NodeOK(w.table, w.entry, w.node, NoPending) BY DEF Good
<1>2. NodeOK(w.table, w.entry, w.node, p) BY <1>1, NodesFit
<1> QED BY <1>1, <1>2, PutGood, Zenon

\* The first cluster of a file has no other link.
LEMMA FirstLinked ==
  ASSUME NEW t, NEW e \in [Files -> Entries], Sound(t, e), NEW f \in Files, e[f].used, e[f].first # 0
  PROVE  e[f].first \in Clusters /\ t[e[f].first] # Free /\ LinkedBy(t, e, e[f].first, {}, {f})
<1>1. e[f].first \in Clusters \cup {0} BY DEF Entries
<1> QED BY <1>1 DEF Sound, LinkedBy

\* The elements of a concatenation.
LEMMA Concat ==
  ASSUME NEW S, NEW x \in Seq(S), NEW y \in Seq(S)
  PROVE  /\ Len(x \o y) = Len(x) + Len(y)
         /\ \A i \in 1 .. Len(x) : (x \o y)[i] = x[i]
         /\ \A i \in 1 .. Len(y) : (x \o y)[Len(x) + i] = y[i]
  OBVIOUS

\* Two sequences of one element.
LEMMA JoinTwo ==
  ASSUME NEW S, NEW a \in S, NEW b \in S
  PROVE  <<a>> \o <<b>> = <<a, b>>
<1> DEFINE x == <<a>>
           y == <<b>>
           z == <<a, b>>
           v == x \o y
<1>1. /\ x \in Seq(S) /\ y \in Seq(S) /\ z \in Seq(S) /\ Len(x) = 1 /\ Len(y) = 1 /\ Len(z) = 2
      /\ x[1] = a /\ y[1] = b /\ z[1] = a /\ z[2] = b
  OBVIOUS
<1> HIDE DEF x, y, z
<1>2. x \in Seq(S) /\ y \in Seq(S) BY <1>1
<1>3. v \in Seq(S) BY <1>2
<1>4. /\ Len(v) = Len(x) + Len(y)
      /\ \A i \in 1 .. Len(x) : v[i] = x[i]
      /\ \A i \in 1 .. Len(y) : v[Len(x) + i] = y[i]
  BY <1>2, Concat
<1> HIDE DEF v
<1>5. v \in Seq(S) /\ Len(v) = 2 /\ v[1] = a /\ v[2] = b BY <1>1, <1>3, <1>4
<1>6. v = z BY <1>1, <1>5
<1> QED BY <1>6 DEF x, y, z, v

\* The chain of a cluster that no cluster links ends with a mark.
LEMMA ChainEnds ==
  ASSUME NEW t \in [Clusters -> Values], NEW e, Sound(t, e), NEW c \in Clusters, t[c] # Free,
         \A d \in Clusters : t[d] # c
  PROVE  LET q == Chain(t, c)
         IN  /\ IsPath(t, q) /\ Len(q) \in Nat /\ Len(q) >= 1 /\ q[1] = c
             /\ q[Len(q)] \in Clusters /\ t[q[Len(q)]] = EOC
<1> DEFINE q == Chain(t, c)
           m == Len(q)
           last == q[m]
<1>1. IsPath(t, q) /\ q # <<>> /\ q[1] = c /\ Stuck(t, q) BY ChainIsPath
<1>2. q \in Seq(Clusters) /\ m \in Nat /\ m >= 1 BY <1>1 DEF IsPath
<1> HIDE DEF q
<1>3. last \in Clusters /\ t[last] # Free BY <1>1, <1>2 DEF IsPath
<1>4. t[last] \notin Clusters \/ t[t[last]] = Free \/ \E i \in 1 .. m : q[i] = t[last]
  BY <1>1 DEF Stuck
<1>5. ASSUME NEW i \in 1 .. m, q[i] = t[last] PROVE FALSE
  <2>1. i # 1 BY <1>1, <1>3, <1>5
  <2>2. i - 1 \in 1 .. m - 1 /\ (i - 1) + 1 = i /\ i - 1 \in 1 .. m /\ i - 1 # m /\ m \in 1 .. m
    BY <1>2, <2>1
  <2>3. t[q[i - 1]] = q[i] /\ q[i - 1] \in Clusters /\ q[i] \in Clusters
    BY <1>1, <1>2, <2>2 DEF IsPath
  <2>4. q[i - 1] = last BY <1>3, <1>5, <2>3 DEF Sound
  <2> QED BY <1>1, <2>2, <2>4 DEF IsPath
<1>6. t[last] = EOC BY <1>3, <1>4, <1>5, Numbers, Zenon DEF Sound
<1> QED BY <1>1, <1>2, <1>3, <1>6 DEF q

\* The chain of a file.
LEMMA FileChain ==
  ASSUME NEW t \in [Clusters -> Values], NEW e \in [Files -> Entries], Sound(t, e),
         NEW f \in Files, e[f].used
  PROVE  LET c == e[f].first
             q == Chain(t, c)
         IN  /\ c = 0 => q = <<>>
             /\ c # 0 => /\ IsPath(t, q) /\ Len(q) \in Nat /\ Len(q) >= 1 /\ q[1] = c
                         /\ q[Len(q)] \in Clusters /\ t[q[Len(q)]] = EOC
<1>1. e[f].first = 0 => Chain(t, e[f].first) = <<>> BY Numbers, NoChain
<1>2. ASSUME e[f].first # 0
      PROVE  LET c == e[f].first
                 q == Chain(t, c)
             IN  /\ IsPath(t, q) /\ Len(q) \in Nat /\ Len(q) >= 1 /\ q[1] = c
                 /\ q[Len(q)] \in Clusters /\ t[q[Len(q)]] = EOC
  <2>1. e[f].first \in Clusters /\ t[e[f].first] # Free BY <1>2, FirstLinked, Zenon
  <2>2. \A d \in Clusters : t[d] # e[f].first BY <1>2 DEF Sound
  <2> QED BY <2>1, <2>2, ChainEnds
<1> QED BY <1>1, <1>2

\* The entries and nodes that the operations write.
LEMMA NodeTypes ==
  /\ NoNode \in Nodes /\ NoEntry \in Entries
  /\ \A first \in Clusters \cup {0}, size \in 0 .. MaxSize :
        CleanNode(first, size) \in Nodes /\ Entry(first, size) \in Entries
  /\ 0 \in 0 .. MaxSize
  BY SizeAssumption DEF NoNode, NoEntry, CleanNode, Entry, Nodes, Entries

\* What an operation starts from.
LEMMA ReadyState ==
  ASSUME Good(World, NoPending), NEW f \in Files, entry[f].used
  PROVE  /\ State(f) \in Nodes /\ State(f).first = entry[f].first /\ State(f).pinned
         /\ node[f].pinned => State(f) = node[f]
         /\ entry[f] \in Entries /\ node[f] \in Nodes /\ Agree(entry[f], node[f])
<1>1. World.entry = entry /\ World.node = node /\ World \in Worlds BY DEF World, Good
<1>2. entry[f] \in Entries /\ node[f] \in Nodes BY <1>1, SameEntry, Zenon
<1>3. Agree(entry[f], node[f]) BY <1>1, ReadyAgree
<1>4. CASE node[f].pinned BY <1>2, <1>3, <1>4 DEF State, Agree
<1>5. CASE ~node[f].pinned
  <2>1. entry[f].first \in Clusters \cup {0} /\ entry[f].size \in 0 .. MaxSize BY <1>2 DEF Entries
  <2>2. State(f) = CleanNode(entry[f].first, entry[f].size) BY <1>5 DEF State
  <2>3. State(f) \in Nodes BY <2>1, <2>2, NodeTypes
  <2> QED BY <1>2, <1>3, <1>5, <2>2, <2>3 DEF CleanNode
<1> QED BY <1>4, <1>5

\* store writes an entry and its node.
LEMMA StoreSafe ==
  ASSUME NEW w, Good(w, NoPending), w.node = node, NEW f \in Files,
         NEW first \in Clusters \cup {0}, NEW size \in 0 .. MaxSize,
         first # 0 => w.table[first] # Free /\ LinkedBy(w.table, w.entry, first, {}, {f}),
         NEW p, Good(w, p), PendOK(w.table, [w.entry EXCEPT ![f] = Entry(first, size)], p),
         NodeFits(w.table, Entry(first, size), w.node[f], p, f),
         NEW r \in Pendings, PendOK(w.table, [w.entry EXCEPT ![f] = Entry(first, size)], r)
  PROVE  LET s == Store(p, f, first, size, r)
             k == IF node[f].pinned THEN CleanNode(first, size) ELSE NoNode
         IN  /\ Safe(w, s) /\ Landed(w, s) = Put(w, f, Entry(first, size), k)
             /\ Good(Put(w, f, Entry(first, size), k), r)
             /\ Good(Put(w, f, Entry(first, size), k), NoPending)
<1> DEFINE to == Entry(first, size)
           k == IF node[f].pinned THEN CleanNode(first, size) ELSE NoNode
<1>1. to \in Entries /\ k \in Nodes BY NodeTypes
<1>2. to.used /\ to.first = first BY DEF Entry
<1>3. Agree(to, k) BY DEF Agree, Entry, CleanNode, NoNode
<1>4. w \in Worlds /\ w.node[f] \in Nodes /\ p \in Pendings BY SameEntry, Zenon DEF Good
<1>5. Store(p, f, first, size, r) = EntryStep(p, f, to, k, r) BY DEF Store
<1> HIDE DEF to, k
<1>6. Good(Put(w, f, to, k), r) BY ZenonT(30), <1>1, <1>2, <1>3, AgreeFits, PutReady DEF to
<1>7. Good(Put(w, f, to, k), NoPending)
  BY <1>1, <1>2, <1>3, AgreeFits, PutReady, NonePending, PendingType, Zenon
<1>8. Good(Put(w, f, to, w.node[f]), p) BY <1>1, <1>2, <1>4, PutReady, Zenon DEF to
<1>9. Safe(w, EntryStep(p, f, to, k, r)) /\ Landed(w, EntryStep(p, f, to, k, r)) = Put(w, f, to, k)
  BY ZenonT(30), <1>1, <1>6, <1>8, EntryStepSafe
<1> QED BY <1>5, <1>6, <1>7, <1>9 DEF to, k

\* publish
LEMMA PublishRuns ==
  ASSUME Good(World, NoPending), NEW f \in Files, entry[f].used,
         NEW w, Good(w, NoPending), w.node = node, w.entry = entry,
         NEW held, Good(w, held), NEW first \in Clusters, NEW size \in 0 .. MaxSize,
         \/ first = entry[f].first
         \/ /\ entry[f].first = 0 /\ held = Held(first, 0, EntryOf(f))
            /\ w.table[first] # Free /\ LinkedBy(w.table, w.entry, first, {}, {})
  PROVE  \E z \in Worlds : Runs(w, Publish(held, f, first, size), z)
<1> DEFINE n == State(f)
           to == Entry(first, size)
<1>1. /\ n \in Nodes /\ n.first = entry[f].first /\ n.pinned /\ (node[f].pinned => n = node[f])
      /\ entry[f] \in Entries /\ node[f] \in Nodes /\ Agree(entry[f], node[f])
  BY ReadyState
<1>2. w \in Worlds /\ Sound(w.table, w.entry) /\ PendOK(w.table, w.entry, held) /\ held \in Pendings BY DEF Good
<1>3. w.entry \in [Files -> Entries] /\ w.node \in [Files -> Nodes] BY <1>2 DEF Worlds
<1>4. to \in Entries /\ to.used /\ to.first = first /\ first # 0
  BY NodeTypes, Numbers DEF Entry
<1>5. w.table[first] # Free /\ LinkedBy(w.table, w.entry, first, {}, {f})
  <2>1. CASE first = entry[f].first BY <1>2, <1>3, <1>4, <2>1, FirstLinked, Zenon
  <2>2. CASE first # entry[f].first BY <2>2, LinkedByMore
  <2> QED BY <2>1, <2>2
<1> HIDE DEF to
<1>6. PendOK(w.table, [w.entry EXCEPT ![f] = to], held)
  <2>1. CASE first = entry[f].first
    <3>1. \A c, D, F : LinkedBy(w.table, w.entry, c, D, F) => LinkedBy(w.table, [w.entry EXCEPT ![f] = to], c, D, F)
      BY <1>3, <1>4, <2>1 DEF LinkedBy
    <3> QED BY <1>2, <3>1, Zenon DEF PendOK
  <2>2. CASE first # entry[f].first
    <3>1. held = Held(first, 0, EntryOf(f)) BY <2>2
    <3>2. {f} = Owning(EntryOf(f)) /\ {} = Tails(EntryOf(f)) /\ EntryOf(f) \in Owners BY OwnerTypes
    <3>3. LinkedBy(w.table, w.entry, first, {}, {f} \cup {f}) BY <1>5
    <3>4. LinkedBy(w.table, [w.entry EXCEPT ![f] = to], first, {}, {f}) BY <1>3, <1>4, <3>3, LinkedPut, Zenon
    <3> QED BY <3>1, <3>2, <3>4, HeadOnly
  <2> QED BY <2>1, <2>2
<1>7. NodeFits(w.table, to, node[f], held, f)
  <2>1. CASE first = entry[f].first
    <3>1. Agree(to, node[f]) BY <1>1, <1>4, <2>1 DEF Agree
    <3> QED BY <3>1, AgreeFits
  <2>2. CASE first # entry[f].first
    <3>1. held.owner = EntryOf(f) BY <2>2, HeldFields
    <3> QED BY <1>1, <1>4, <2>2, <3>1 DEF NodeFits, Agree
  <2> QED BY <2>1, <2>2
<1>8. CASE node[f].pinned /\ first = n.first
  <2> DEFINE k == [n EXCEPT !.size = size, !.dirty = TRUE]
             s == DataStep(held, f, k, NoPending)
  <2>1. k \in Nodes /\ k.first = first /\ k.pinned BY <1>1, <1>8, Zenon DEF Nodes
  <2>2. Publish(held, f, first, size) = <<s>> BY <1>8 DEF Publish
  <2> HIDE DEF k
  <2>3. Agree(entry[f], k) BY <1>1, <1>4, <1>8, <2>1 DEF Agree
  <2>4. Good(Put(w, f, w.entry[f], k), NoPending)
    <3>1. w.entry[f] = entry[f] /\ entry[f].first = first BY <1>1, <1>8
    <3>2. [w.entry EXCEPT ![f] = w.entry[f]] = w.entry BY <1>2, SameEntry, Zenon
    <3> DEFINE d == w.entry[f]
    <3>3. d \in Entries /\ d.first = first /\ Agree(d, k) /\ [w.entry EXCEPT ![f] = d] = w.entry
      BY <1>1, <2>3, <3>1, <3>2
    <3> HIDE DEF d
    <3>4. NodeFits(w.table, d, k, NoPending, f) BY <3>3, AgreeFits
    <3>5. PendOK(w.table, [w.entry EXCEPT ![f] = d], NoPending) BY NonePending
    <3>6. Good(Put(w, f, d, k), NoPending) BY <1>5, <2>1, <3>3, <3>4, <3>5, PutReady, PendingType, Zenon
    <3> QED BY <3>6 DEF d
  <2>5. Safe(w, s) BY <2>1, <2>4, DataStepSafe, Zenon
  <2> HIDE DEF s
  <2>6. Runs(w, <<s>>, Landed(w, s)) BY <2>5, RunsOne
  <2> QED BY <2>2, <2>6 DEF Runs
<1>9. CASE ~(node[f].pinned /\ first = n.first)
  <2> DEFINE s == DataStep(held, f, node[f], held)
             r == Store(held, f, first, size, NoPending)
  <2>1. Publish(held, f, first, size) = <<s, r>> BY <1>9 DEF Publish
  <2>2. Put(w, f, w.entry[f], node[f]) = w BY <1>2, SameEntry, Zenon
  <2>3. Safe(w, s) /\ Landed(w, s) = w
    <3> DEFINE k == node[f]
    <3>1. k \in Nodes /\ Good(Put(w, f, w.entry[f], k), held) BY <1>1, <2>2
    <3> HIDE DEF k
    <3> DEFINE r0 == DataStep(held, f, k, held)
    <3>2. Safe(w, r0) /\ Landed(w, r0) = Put(w, f, w.entry[f], k) BY <3>1, DataStepSafe, Zenon
    <3> QED BY <2>2, <3>2 DEF k
  <2>4. Safe(w, r)
    BY <1>4, <1>5, <1>6, <1>7, NonePending, PendingType, StoreSafe, Zenon DEF to
  <2> HIDE DEF s, r
  <2>5. Runs(w, <<s>>, w) /\ Runs(w, <<r>>, Landed(w, r)) BY <2>3, <2>4, RunsOne
  <2>6. Runs(w, <<s>> \o <<r>>, Landed(w, r)) BY <2>5, RunsJoin
  <2>7. <<s>> \o <<r>> = <<s, r>>
    <3>1. s \in AllSteps /\ r \in AllSteps BY <2>3, <2>4 DEF Safe
    <3> QED BY <3>1, JoinTwo
  <2> QED BY <2>1, <2>6, <2>7 DEF Runs
<1> QED BY <1>8, <1>9

-----------------------------------------------------------------------------
(* Operations on files. *)

\* A size above zero needs a cluster.
LEMMA NeedOne ==
  ASSUME NEW size \in Nat
  PROVE  Need(size) \in Nat /\ (size >= 1 => Need(size) >= 1)
<1> DEFINE x == size + ClusterSize - 1
<1>1. x \in Nat /\ (size >= 1 => x >= ClusterSize) /\ ClusterSize \in Nat /\ ClusterSize >= 1
  BY SizeAssumption
<1> HIDE DEF x
<1>2. x \div ClusterSize \in Nat BY <1>1
<1>3. x >= ClusterSize => x \div ClusterSize >= 1 BY <1>1
<1> QED BY <1>1, <1>2, <1>3 DEF Need, x

\* free_chain on a path that nothing leads to is safe at every write.
LEMMA FreeChainRuns ==
  ASSUME NEW w, Good(w, NoPending), NEW q, Loose(w.table, w.entry, q)
  PROVE  \E z \in Worlds : Runs(w, Finished(FreeChain(q)), z)
<1>1. q \in Seq(Clusters) BY DEF Loose, IsPath
<1>2. Frees(FreeChain(q), q, 0) BY <1>1, FreeChainFrees
<1>3. Kept(w.table, w.entry, q, 0) BY DEF Kept
<1> DEFINE z == Freed(w, q, Len(q))
           s == FreeChain(q)
<1>4. Runs(w, s, z) /\ Good(z, NoPending) BY <1>2, <1>3, FreesRun
<1> HIDE DEF z, s
<1>5. Runs(w, Finished(s), z) BY <1>4, RunsFinish
<1> QED BY <1>5, Zenon DEF Runs, s

\* A chain that is cut after at.
LEMMA CutFacts ==
  ASSUME NEW t \in [Clusters -> Values], NEW e \in [Files -> Entries], Sound(t, e),
         NEW at \in Clusters, t[at] # Free
  PROVE  LET u == Patched(t, [x \in {at} |-> EOC])
         IN  /\ u \in [Clusters -> Values] /\ Sound(u, e)
             /\ u[at] = EOC /\ \A c \in Clusters : c # at => u[c] = t[c]
             /\ \A c \in Clusters : \A D, F : LinkedBy(t, e, c, D, F) => LinkedBy(u, e, c, D \ {at}, F)
<1> DEFINE u == Patched(t, [x \in {at} |-> EOC])
<1>1. u = [c \in Clusters |-> IF c = at THEN EOC ELSE t[c]] BY DEF Patched
<1>2. u[at] = EOC /\ \A c \in Clusters : c # at => u[c] = t[c] BY <1>1
<1>3. u \in [Clusters -> Values] BY <1>1, Numbers
<1> HIDE DEF u
<1>4. Sound(u, e)
  <2>1. \A c \in Clusters : u[c] \in Clusters => u[c] = t[c] BY <1>2, Numbers
  <2>2. \A c \in Clusters : t[c] # Free => u[c] # Free BY <1>2, Numbers
  <2>3. \A f \in Files : e[f].used /\ e[f].first # 0 => e[f].first \in Clusters /\ u[e[f].first] # Free
    BY <2>2, FirstLinked, Zenon
  <2>4. \A f \in Files, c \in Clusters : e[f].used /\ e[f].first # 0 => u[c] # e[f].first
    BY <2>1, <2>3 DEF Sound
  <2>5. \A c \in Clusters : u[c] \in Clusters => u[u[c]] # Free BY <2>1, <2>2 DEF Sound
  <2>6. \A c, d \in Clusters : u[c] = u[d] /\ u[c] \in Clusters => c = d BY <2>1 DEF Sound
  <2>7. \A f, g \in Files :
          e[f].used /\ e[g].used /\ e[f].first = e[g].first /\ e[f].first # 0 => f = g
    BY DEF Sound
  <2> QED BY <2>3, <2>4, <2>5, <2>6, <2>7 DEF Sound
<1>5. \A c \in Clusters : \A D, F : LinkedBy(t, e, c, D, F) => LinkedBy(u, e, c, D \ {at}, F)
  BY <1>2, Numbers DEF LinkedBy
<1> QED BY <1>2, <1>3, <1>4, <1>5 DEF u

\* The parts of the state.
LEMMA WorldFields ==
  ASSUME NEW p, Good(World, p)
  PROVE  /\ World.table = table /\ World.entry = entry /\ World.node = node /\ World \in Worlds
         /\ table \in [Clusters -> Values] /\ entry \in [Files -> Entries] /\ node \in [Files -> Nodes]
         /\ Sound(table, entry) /\ PendOK(table, entry, p) /\ NodeOK(table, entry, node, p)
  BY DEF World, Good, Worlds

\* create is safe at every write.
LEMMA CreateRuns ==
  ASSUME Good(World, NoPending), NEW f \in Files, ~entry[f].used
  PROVE  LET s == <<EntryStep(NoPending, f, Entry(0, 0), CleanNode(0, 0), NoPending)>>
         IN  \E z \in Worlds : Runs(World, s, z)
<1> DEFINE to == Entry(0, 0)
           k == CleanNode(0, 0)
           s == EntryStep(NoPending, f, to, k, NoPending)
<1>1. World.entry = entry /\ World.node = node /\ World \in Worlds BY WorldFields
<1>2. to \in Entries /\ k \in Nodes /\ to.first = 0 /\ to.used BY NodeTypes DEF Entry
<1>3. Agree(to, k) BY DEF Agree, Entry, CleanNode
<1>4. Agree(to, node[f])
  <2>1. Agree(entry[f], node[f]) BY <1>1, ReadyAgree
  <2> QED BY <1>2, <2>1 DEF Agree
<1>5. node[f] \in Nodes BY <1>1, SameEntry, Zenon
<1> HIDE DEF to, k
<1>6. ASSUME NEW n \in Nodes, Agree(to, n) PROVE Good(Put(World, f, to, n), NoPending)
  <2>1. NodeFits(World.table, to, n, NoPending, f) BY <1>6, AgreeFits
  <2>2. PendOK(World.table, [World.entry EXCEPT ![f] = to], NoPending) BY NonePending
  <2>3. NoPending \in Pendings /\ ~(to.used /\ to.first # 0) BY <1>2, PendingType
  <2> QED BY <1>2, <2>1, <2>2, <2>3, PutReady, Zenon
<1>7. Good(Put(World, f, to, World.node[f]), NoPending) BY <1>1, <1>4, <1>5, <1>6
<1>8. Good(Put(World, f, to, k), NoPending) BY <1>2, <1>3, <1>6
<1>9. Safe(World, s) BY <1>2, <1>7, <1>8, EntryStepSafe, Zenon
<1> HIDE DEF s
<1>10. Runs(World, <<s>>, Landed(World, s)) BY <1>9, RunsOne
<1> QED BY <1>10 DEF Runs, s, to, k

\* The chain of a file without an entry that names it.
LEMMA Loosened ==
  ASSUME NEW t \in [Clusters -> Values], NEW e \in [Files -> Entries], Sound(t, e),
         NEW f \in Files, e[f].used,
         NEW to \in Entries, to.used => to.first = 0
  PROVE  Loose(t, [e EXCEPT ![f] = to], Chain(t, e[f].first))
<1> DEFINE c == e[f].first
           q == Chain(t, c)
<1>1. CASE c = 0
  <2>1. q = <<>> BY <1>1, FileChain
  <2>2. IsPath(t, <<>>)
    <3>1. <<>> \in Seq(Clusters) /\ Len(<<>>) = 0 OBVIOUS
    <3>2. (\A i \in 1 .. 0 : FALSE) /\ (\A i \in 1 .. 0 - 1 : FALSE) OBVIOUS
    <3> QED BY <3>1, <3>2 DEF IsPath
  <2> QED BY <2>1, <2>2 DEF Loose
<1>2. CASE c # 0
  <2>1. IsPath(t, q) /\ q[1] = c BY <1>2, FileChain
  <2>2. LinkedBy(t, e, c, {}, {f}) BY <1>2, FirstLinked, Zenon
  <2>3. {} \cup {f} = {f} OBVIOUS
  <2> HIDE DEF q, c
  <2>4. LinkedBy(t, [e EXCEPT ![f] = to], c, {}, {}) BY <1>2, <2>2, <2>3, LinkedPut, Zenon
  <2> QED BY <2>1, <2>4 DEF Loose, q, c
<1> QED BY <1>1, <1>2

\* remove_entry is safe at every write.
LEMMA UnlinkRuns ==
  ASSUME Good(World, NoPending), NEW f \in Files, entry[f].used
  PROVE  LET first == State(f).first
             held == IF first = 0 THEN NoPending ELSE Held(first, 0, Removed(f))
             s == <<EntryStep(held, f, NoEntry, NoNode, held)>> \o Finished(FreeChain(Chain(table, first)))
         IN  \E z \in Worlds : Runs(World, s, z)
<1> DEFINE first == State(f).first
           held == IF first = 0 THEN NoPending ELSE Held(first, 0, Removed(f))
           w == World
           x == [entry EXCEPT ![f] = NoEntry]
           s == EntryStep(held, f, NoEntry, NoNode, held)
           v == Put(w, f, NoEntry, NoNode)
           q == Chain(table, first)
<1>1. /\ w.table = table /\ w.entry = entry /\ w.node = node /\ w \in Worlds
      /\ table \in [Clusters -> Values] /\ entry \in [Files -> Entries] /\ node \in [Files -> Nodes]
      /\ Sound(table, entry) /\ NodeOK(table, entry, node, NoPending)
  BY WorldFields
<1>2. first = entry[f].first /\ node[f] \in Nodes /\ Agree(entry[f], node[f]) BY ReadyState
<1>3. first \in Clusters \cup {0} /\ (first # 0 => LinkedBy(table, entry, first, {}, {f}))
  <2>1. entry[f].first \in Clusters \cup {0} BY <1>1 DEF Entries
  <2> QED BY <1>1, <1>2, <2>1, FirstLinked, Zenon
<1> HIDE DEF first
<1>4. NoEntry \in Entries /\ NoNode \in Nodes /\ ~NoEntry.used BY NodeTypes DEF NoEntry
<1>5. Removed(f) \in Owners /\ Tails(Removed(f)) = {} /\ Owning(Removed(f)) = {f} BY OwnerTypes
<1>6. first # 0 => LinkedBy(table, x, first, {}, {f})
  <2>1. {f} \cup {f} = {f} OBVIOUS
  <2> QED BY <1>1, <1>3, <1>4, <2>1, LinkedPut, Zenon
<1>7. held \in Pendings /\ PendOK(table, entry, held) /\ PendOK(table, x, held)
  <2>1. CASE first = 0 BY <2>1, PendingType, NonePending
  <2>2. CASE first # 0 BY <1>3, <1>5, <1>6, <2>2, HeadOnly
  <2> QED BY <2>1, <2>2
<1>8. NodeFits(table, NoEntry, node[f], held, f)
  <2>1. CASE first = 0
    <3>1. Agree(NoEntry, node[f]) BY <1>2, <1>4, <2>1 DEF Agree
    <3> QED BY <3>1, AgreeFits
  <2>2. CASE first # 0
    <3>1. held.head = first /\ held.owner = Removed(f) BY <2>2, HeldFields
    <3> HIDE DEF held
    <3> QED BY <1>2, <1>4, <2>2, <3>1 DEF NodeFits, Agree
  <2> QED BY <2>1, <2>2
<1>9. Agree(NoEntry, NoNode) BY DEF Agree, NoEntry, NoNode
<1> HIDE DEF held
<1>10. Good(w, held) BY <1>1, <1>7, NodesFit DEF Good
<1>11. Good(Put(w, f, NoEntry, w.node[f]), held)
  <2>1. NodeFits(w.table, NoEntry, w.node[f], held, f) BY <1>1, <1>8
  <2>2. PendOK(w.table, [w.entry EXCEPT ![f] = NoEntry], held) BY <1>1, <1>7
  <2>3. w.node[f] \in Nodes BY <1>1, <1>2
  <2> HIDE DEF w
  <2> QED BY <1>4, <1>7, <2>1, <2>2, <2>3, PutReady, Zenon DEF w
<1>12. Good(v, held) /\ Good(v, NoPending)
  <2>1. NodeFits(w.table, NoEntry, NoNode, held, f) /\ NodeFits(w.table, NoEntry, NoNode, NoPending, f)
    BY <1>9, AgreeFits
  <2>2. PendOK(w.table, [w.entry EXCEPT ![f] = NoEntry], held) BY <1>1, <1>7
  <2>3. PendOK(w.table, [w.entry EXCEPT ![f] = NoEntry], NoPending) /\ NoPending \in Pendings
    BY NonePending, PendingType
  <2> HIDE DEF w
  <2>4. Good(Put(w, f, NoEntry, NoNode), held) BY <1>4, <1>7, <2>1, <2>2, PutReady, Zenon DEF w
  <2>5. Good(Put(w, f, NoEntry, NoNode), NoPending) BY <1>4, <1>7, <2>1, <2>3, PutReady, Zenon DEF w
  <2> QED BY <2>4, <2>5
<1> HIDE DEF w
<1>13. Safe(w, s) /\ Landed(w, s) = v
  <2> DEFINE to == NoEntry
             k == NoNode
  <2>1. /\ to \in Entries /\ k \in Nodes /\ Good(w, held) /\ Good(Put(w, f, to, w.node[f]), held)
        /\ Good(Put(w, f, to, k), held)
    BY <1>4, <1>10, <1>11, <1>12
  <2> HIDE DEF to, k
  <2>2. /\ Safe(w, EntryStep(held, f, to, k, held))
        /\ Landed(w, EntryStep(held, f, to, k, held)) = Put(w, f, to, k)
    BY ZenonT(30), <2>1, EntryStepSafe
  <2> QED BY <2>2 DEF to, k
<1>14. v.table = table /\ v.entry = x
  <2> DEFINE to == NoEntry
             k == NoNode
  <2> HIDE DEF to, k
  <2>1. Put(w, f, to, k).table = w.table /\ Put(w, f, to, k).entry = [w.entry EXCEPT ![f] = to]
    BY DEF Put
  <2> QED BY <1>1, <2>1 DEF to, k
<1>15. Loose(v.table, v.entry, q)
  <2> DEFINE to == NoEntry
  <2>1. to \in Entries /\ (to.used => to.first = 0) BY <1>4
  <2> HIDE DEF to
  <2>2. Loose(table, [entry EXCEPT ![f] = to], Chain(table, entry[f].first)) BY <1>1, <2>1, Loosened, Zenon
  <2> QED BY <1>2, <1>14, <2>2 DEF to
<1> HIDE DEF w, s, v, q
<1>16. PICK z \in Worlds : Runs(v, Finished(FreeChain(q)), z) BY <1>12, <1>15, FreeChainRuns
<1>17. Runs(w, <<s>>, v) BY <1>13, RunsOne
<1>18. Runs(w, <<s>> \o Finished(FreeChain(q)), z) BY <1>16, <1>17, RunsJoin
<1> QED BY <1>18 DEF w, s, q, held, first

\* A dirty node is written whatever is pending.
LEMMA FlushRuns ==
  ASSUME NEW p, Good(World, p), NEW f \in Files, node[f].dirty, entry[f].used
  PROVE  \E z \in Worlds : Runs(World, <<Store(p, f, node[f].first, node[f].size, p)>>, z)
<1> DEFINE w == World
           n == node[f]
           to == Entry(n.first, n.size)
           k == CleanNode(n.first, n.size)
           s == EntryStep(p, f, to, k, p)
           x == [entry EXCEPT ![f] = to]
<1>1. /\ w.table = table /\ w.entry = entry /\ w.node = node /\ w \in Worlds
      /\ table \in [Clusters -> Values] /\ entry \in [Files -> Entries] /\ node \in [Files -> Nodes]
      /\ Sound(table, entry) /\ PendOK(table, entry, p) /\ NodeOK(table, entry, node, p)
  BY WorldFields
<1>2. n \in Nodes /\ n.first \in Clusters \cup {0} /\ n.size \in 0 .. MaxSize BY <1>1 DEF Nodes
<1>3. NodeFits(table, entry[f], n, p, f) BY <1>1 DEF NodeOK
<1>4. n.pinned /\ n.first # 0 BY <1>3 DEF NodeFits
<1>5. to \in Entries /\ k \in Nodes /\ to.used /\ to.first = n.first BY <1>2, NodeTypes DEF Entry
<1>6. Store(p, f, n.first, n.size, p) = s BY <1>4 DEF Store
<1>7. Agree(to, n) /\ Agree(to, k) BY <1>4, <1>5 DEF Agree, CleanNode
<1> HIDE DEF to, k, n
<1>8. /\ table[n.first] # Free /\ LinkedBy(table, entry, n.first, {}, {f}) /\ PendOK(table, x, p)
  <2>1. CASE n.first = entry[f].first
    <3>1. table[n.first] # Free /\ LinkedBy(table, entry, n.first, {}, {f})
      BY <1>1, <1>4, <2>1, FirstLinked, Zenon
    <3>2. \A c, D, F : LinkedBy(table, entry, c, D, F) => LinkedBy(table, x, c, D, F)
      BY <1>1, <1>5, <2>1 DEF LinkedBy
    <3> QED BY <1>1, <3>1, <3>2, Zenon DEF PendOK
  <2>2. CASE n.first # entry[f].first
    <3>1. p.owner = EntryOf(f) /\ n.first = p.head /\ p.extra = 0 /\ table[p.head] # Free
      BY <1>3, <1>4, <2>2 DEF NodeFits
    <3>2. Tails(p.owner) = {} /\ Owning(p.owner) = {f} BY <3>1, OwnerTypes
    <3>3. LinkedBy(table, entry, n.first, {}, {f}) BY <1>1, <1>4, <3>1, <3>2 DEF PendOK
    <3>4. {f} \cup {f} = {f} OBVIOUS
    <3>5. LinkedBy(table, x, n.first, {}, {f}) BY <1>1, <1>5, <3>3, <3>4, LinkedPut, Zenon
    <3> QED BY <3>1, <3>2, <3>3, <3>5 DEF PendOK
  <2> QED BY <2>1, <2>2
<1>9. p \in Pendings BY DEF Good
<1> HIDE DEF w
<1>10. ASSUME NEW m \in Nodes, Agree(to, m) PROVE Good(Put(w, f, to, m), p)
  <2>1. NodeFits(w.table, to, m, p, f) BY <1>10, AgreeFits
  <2>2. /\ PendOK(w.table, [w.entry EXCEPT ![f] = to], p) /\ NodeOK(w.table, w.entry, w.node, p)
        /\ Sound(w.table, w.entry)
        /\ w.table[to.first] # Free /\ LinkedBy(w.table, w.entry, to.first, {}, {f})
    BY <1>1, <1>5, <1>8
  <2> QED BY <1>1, <1>5, <1>9, <2>1, <2>2, PutGood, Zenon
<1>11. Good(Put(w, f, to, w.node[f]), p)
  <2>1. w.node[f] = n BY <1>1 DEF n
  <2> QED BY <1>2, <1>7, <1>10, <2>1
<1>12. Good(Put(w, f, to, k), p) BY <1>5, <1>7, <1>10
<1>13. Good(w, p) BY DEF w
<1>14. Safe(w, s) BY <1>5, <1>11, <1>12, <1>13, EntryStepSafe, Zenon
<1> HIDE DEF s
<1>15. Runs(w, <<s>>, Landed(w, s)) BY <1>14, RunsOne
<1> QED BY <1>6, <1>15 DEF Runs, w, n

\* What growth appends to.
GrowPlan(f, end, from) ==
    LET n == State(f)
        chain == Chain(table, n.first)
        count == Need(end) - Len(chain)
        size == IF end > n.size THEN end ELSE n.size
        tail == IF n.first = 0 THEN 0 ELSE Reached(chain)
        owner == IF n.first = 0 THEN EntryOf(f) ELSE AtTail(tail)
        found == Found(from, count)
        first == IF n.first = 0 THEN found[1] ELSE n.first
    IN  IF count <= 0 THEN Publish(NoPending, f, n.first, size)
        ELSE Allocate(found, tail, owner) \o Publish(Held(found[1], 0, owner), f, first, size)

\* Growth is safe at every write.
LEMMA GrowRuns ==
  ASSUME Good(World, NoPending), NEW f \in Files, entry[f].used, NEW end \in 1 .. MaxSize,
         NEW from \in Clusters,
         Need(end) - Len(Chain(table, State(f).first)) <= Cardinality({c \in Clusters : table[c] = Free})
  PROVE  \E z \in Worlds : Runs(World, GrowPlan(f, end, from), z)
<1> DEFINE n == State(f)
           c == n.first
           chain == Chain(table, c)
           count == Need(end) - Len(chain)
           size == IF end > n.size THEN end ELSE n.size
           tail == IF c = 0 THEN 0 ELSE Reached(chain)
           owner == IF c = 0 THEN EntryOf(f) ELSE AtTail(tail)
           q == Found(from, count)
           first == IF c = 0 THEN q[1] ELSE c
           held == Held(q[1], 0, owner)
           w == World
<1>1. /\ w.table = table /\ w.entry = entry /\ w.node = node /\ w \in Worlds
      /\ table \in [Clusters -> Values] /\ entry \in [Files -> Entries] /\ node \in [Files -> Nodes]
      /\ Sound(table, entry) /\ NodeOK(table, entry, node, NoPending)
  BY WorldFields
<1>2. n \in Nodes /\ c = entry[f].first /\ c \in Clusters \cup {0} /\ size \in 0 .. MaxSize
  <2>1. n \in Nodes /\ c = entry[f].first BY ReadyState
  <2>2. c \in Clusters \cup {0} /\ n.size \in 0 .. MaxSize BY <2>1 DEF Nodes
  <2>3. end \in 0 .. MaxSize BY SizeAssumption
  <2> QED BY <2>1, <2>2, <2>3
<1>3. Need(end) \in Nat /\ Need(end) >= 1
  <2>1. end \in Nat /\ end >= 1 BY SizeAssumption
  <2> QED BY <2>1, NeedOne
<1>4. /\ c = 0 => chain = <<>>
      /\ c # 0 => /\ IsPath(table, chain) /\ Len(chain) \in Nat /\ Len(chain) >= 1 /\ chain[1] = c
                  /\ chain[Len(chain)] \in Clusters /\ table[chain[Len(chain)]] = EOC
  BY <1>1, <1>2, FileChain
<1> HIDE DEF chain, n, size
<1>5. Len(chain) \in Nat /\ (c = 0 => Len(chain) = 0) BY <1>4
<1>6. GrowPlan(f, end, from) =
        IF count <= 0 THEN Publish(NoPending, f, c, size)
        ELSE Allocate(q, tail, owner) \o Publish(held, f, first, size)
  BY DEF GrowPlan, chain, n, size
<1>7. CASE count <= 0
  <2>1. c # 0 /\ c \in Clusters BY <1>2, <1>3, <1>5, <1>7
  <2> HIDE DEF w
  <2>2. \E z \in Worlds : Runs(w, Publish(NoPending, f, c, size), z)
    BY <1>1, <1>2, <2>1, PublishRuns DEF w
  <2> QED BY <1>6, <1>7, <2>2 DEF w
<1>8. CASE ~(count <= 0)
  <2>1. count \in Nat /\ count >= 1 /\ count <= Cardinality({d \in Clusters : table[d] = Free})
    BY <1>3, <1>5, <1>8 DEF chain, n
  <2>2. /\ q \in Seq(Clusters) /\ Len(q) = count
        /\ \A i \in 1 .. count : table[q[i]] = Free
        /\ \A i, j \in 1 .. count : q[i] = q[j] => i = j
    <3> HIDE DEF count
    <3> QED BY <2>1, FoundFree
  <2> HIDE DEF count, q
  <2>3. tail \in Clusters \cup {0} /\ (tail # 0 => table[tail] = EOC) /\ (tail = 0 <=> c = 0)
    BY <1>4, Numbers DEF Reached
  <2>4. Fresh(table, entry, q, tail)
    <3>1. q # <<>> BY <2>1, <2>2
    <3> QED BY <1>1, <2>2, <2>3, <3>1 DEF Fresh
  <2>5. OwnerFor(owner, tail)
    <3>1. CASE c = 0 BY <2>3, <3>1, OwnerTypes DEF OwnerFor
    <3>2. CASE c # 0 BY <2>3, <3>2, OwnerTypes DEF OwnerFor
    <3> QED BY <3>1, <3>2
  <2> HIDE DEF tail, owner
  <2> DEFINE L == {tail} \ {0}
             v == AllocWorld(w, q, 1, L)
  <2>6. Runs(w, Allocate(q, tail, owner), v) BY <1>1, <2>4, <2>5, AllocateRuns
  <2>7. 1 \in 1 .. Len(q) + 1 /\ 1 <= Len(q) /\ L \in SUBSET ({tail} \ {0}) /\ 1 \in 1 .. Len(q)
    BY <2>1, <2>2
  <2> HIDE DEF L
  <2>8. Good(v, NoPending) /\ Good(v, held) BY <1>1, <2>4, <2>5, <2>7, AllocGood, Zenon
  <2>9. v.table = Allocated(table, q, 1, L) /\ v.entry = entry /\ v.node = node
    BY <1>1 DEF AllocWorld
  <2>10. v.table[q[1]] = After(q, 1) /\ LinkedBy(v.table, entry, q[1], L, {})
    <3> DEFINE u == Allocated(table, q, 1, L)
    <3>1. /\ \A i \in 1 .. Len(q) : u[q[i]] = IF i < 1 THEN Free ELSE After(q, i)
          /\ 1 <= Len(q) => LinkedBy(u, entry, q[1], L, {})
      BY <2>4, <2>7, AllocatedFacts
    <3> HIDE DEF u
    <3> QED BY <2>7, <2>9, <3>1 DEF u
  <2>11. q[1] \in Clusters /\ After(q, 1) # Free
    <3>1. q[1] \in Clusters BY <2>2, <2>7
    <3>2. 1 # Len(q) => 1 + 1 \in 1 .. Len(q) BY <2>1, <2>2
    <3>3. 1 # Len(q) => q[1 + 1] \in Clusters BY <2>2, <3>2
    <3> QED BY <3>1, <3>3, Numbers DEF After
  <2> HIDE DEF v
  <2>12. \E z \in Worlds : Runs(v, Publish(held, f, first, size), z)
    <3>1. CASE c = 0
      <4>1. first = q[1] /\ L = {} /\ held = Held(first, 0, EntryOf(f)) /\ entry[f].first = 0
        BY <1>2, <2>3, <3>1 DEF L, owner
      <4>2. v.table[first] # Free /\ LinkedBy(v.table, v.entry, first, {}, {}) /\ first \in Clusters
        BY <2>9, <2>10, <2>11, <4>1
      <4> HIDE DEF held, first, c
      <4> QED BY <1>2, <2>8, <2>9, <4>1, <4>2, PublishRuns
    <3>2. CASE c # 0
      <4>1. first = entry[f].first /\ first \in Clusters BY <1>2, <3>2
      <4> HIDE DEF held, first, c
      <4> QED BY <1>2, <2>8, <2>9, <4>1, PublishRuns
    <3> QED BY <3>1, <3>2
  <2>13. PICK z \in Worlds : Runs(v, Publish(held, f, first, size), z) BY <2>12
  <2> DEFINE s == Allocate(q, tail, owner)
             r == Publish(held, f, first, size)
  <2>14. Runs(w, s, v) /\ Runs(v, r, z) BY <2>6, <2>13
  <2>15. GrowPlan(f, end, from) = s \o r BY <1>6, <1>8 DEF count, tail, owner, q
  <2> HIDE DEF s, r, w
  <2>16. Runs(w, s \o r, z) BY <2>14, RunsJoin
  <2> QED BY <2>15, <2>16 DEF w
<1> QED BY <1>7, <1>8

\* The end of a path.
LEMMA PathRest ==
  ASSUME NEW t, NEW q, IsPath(t, q), NEW k \in Nat, k < Len(q),
         NEW u, \A i \in 1 .. Len(q) : k < i => u[q[i]] = t[q[i]]
  PROVE  LET r == SubSeq(q, k + 1, Len(q))
         IN  IsPath(u, r) /\ r # <<>> /\ r[1] = q[k + 1]
<1> DEFINE m == Len(q)
           r == SubSeq(q, k + 1, m)
<1>1. q \in Seq(Clusters) /\ m \in Nat BY DEF IsPath
<1>2. r \in Seq(Clusters) /\ Len(r) = m - k /\ \A i \in 1 .. m - k : r[i] = q[k + i]
  <2>1. \A i \in k + 1 .. m : q[i] \in Clusters BY <1>1
  <2>2. m - k \in Nat /\ (m - (k + 1)) + 1 = m - k BY <1>1
  <2>3. r = [i \in 1 .. m - k |-> q[(k + 1) + i - 1]] BY <1>1, <2>2
  <2>4. \A i \in 1 .. m - k : (k + 1) + i - 1 = k + i /\ k + i \in k + 1 .. m BY <1>1
  <2>5. \A i \in 1 .. m - k : r[i] = q[k + i] BY <2>3, <2>4
  <2>6. r \in [1 .. m - k -> Clusters]
    <3>1. \A i \in 1 .. m - k : r[i] \in Clusters BY <2>1, <2>4, <2>5
    <3> QED BY <2>3, <3>1, Zenon
  <2> HIDE DEF r, m
  <2> QED BY <2>2, <2>5, <2>6
<1> HIDE DEF r, m
<1>3. \A i \in 1 .. m - k : k + i \in 1 .. m /\ k < k + i BY <1>1 DEF m
<1>4. \A i \in 1 .. Len(r) : u[r[i]] # Free
  <2> TAKE i \in 1 .. Len(r)
  <2>1. i \in 1 .. m - k /\ k + i \in 1 .. m /\ k < k + i BY <1>2, <1>3
  <2> DEFINE j == k + i
  <2>2. j \in 1 .. m /\ k < j /\ r[i] = q[j] BY <1>2, <2>1
  <2> HIDE DEF j
  <2> QED BY <2>2 DEF IsPath, m
<1>5. \A i \in 1 .. Len(r) - 1 : u[r[i]] = r[i + 1]
  <2> TAKE i \in 1 .. Len(r) - 1
  <2> DEFINE j == k + i
  <2>1. /\ i \in 1 .. m - k /\ i + 1 \in 1 .. m - k /\ k + (i + 1) = j + 1
        /\ j \in 1 .. m - 1 /\ j \in 1 .. m /\ k < j
    BY <1>1, <1>2 DEF m
  <2>2. r[i] = q[j] /\ r[i + 1] = q[j + 1] BY <1>2, <2>1
  <2> HIDE DEF j
  <2> QED BY <2>1, <2>2 DEF IsPath, m
<1>6. \A i, j \in 1 .. Len(r) : r[i] = r[j] => i = j
  <2> TAKE i, j \in 1 .. Len(r)
  <2> DEFINE a == k + i
             b == k + j
  <2>1. a \in 1 .. m /\ b \in 1 .. m /\ r[i] = q[a] /\ r[j] = q[b] /\ (a = b => i = j) BY <1>2, <1>3
  <2>2. \A g, h \in 1 .. m : q[g] = q[h] => g = h BY DEF IsPath, m
  <2> HIDE DEF a, b
  <2>3. q[a] = q[b] => a = b BY <2>1, <2>2
  <2> QED BY <2>1, <2>3
<1>7. r # <<>> /\ r[1] = q[k + 1]
  <2>1. 1 \in 1 .. m - k BY <1>1 DEF m
  <2>2. r[1] = q[k + 1] BY <1>2, <2>1
  <2>3. r # <<>> BY <1>2, <2>1
  <2> QED BY <2>2, <2>3
<1> QED BY <1>2, <1>4, <1>5, <1>6, <1>7, Zenon DEF IsPath, r, m

\* What a cluster of a path links is linked by nothing else.
LEMMA PathLinked ==
  ASSUME NEW t, NEW e, Sound(t, e), NEW q, IsPath(t, q), NEW k \in 1 .. Len(q) - 1
  PROVE  /\ q[k] \in Clusters /\ q[k + 1] \in Clusters /\ t[q[k]] = q[k + 1]
         /\ LinkedBy(t, e, q[k + 1], {q[k]}, {})
<1>1. q \in Seq(Clusters) /\ Len(q) \in Nat BY DEF IsPath
<1>2. k \in 1 .. Len(q) /\ k + 1 \in 1 .. Len(q) BY <1>1
<1>3. q[k] \in Clusters /\ q[k + 1] \in Clusters /\ t[q[k]] = q[k + 1] BY <1>1, <1>2 DEF IsPath
<1> DEFINE a == q[k]
           b == q[k + 1]
<1>4. a \in Clusters /\ b \in Clusters /\ t[a] = b /\ b # 0 BY <1>3, Numbers
<1> HIDE DEF a, b
<1>5. LinkedBy(t, e, b, {a}, {}) BY <1>4 DEF LinkedBy, Sound
<1> QED BY <1>3, <1>5 DEF a, b

\* A shrink to nothing.
LEMMA EmptyRuns ==
  ASSUME Good(World, NoPending), NEW f \in Files, entry[f].used, NEW len \in 0 .. MaxSize,
         entry[f].first # 0
  PROVE  LET c == entry[f].first
             held == Held(c, 0, EntryOf(f))
             s == <<Store(held, f, 0, len, held)>> \o Finished(FreeChain(Chain(table, c)))
         IN  \E z \in Worlds : Runs(World, s, z)
<1> DEFINE c == entry[f].first
           held == Held(c, 0, EntryOf(f))
           w == World
           to == Entry(0, len)
           x == [entry EXCEPT ![f] = to]
           s == Store(held, f, 0, len, held)
           k == IF node[f].pinned THEN CleanNode(0, len) ELSE NoNode
           v == Put(w, f, to, k)
           q == Chain(table, c)
<1>1. /\ w.table = table /\ w.entry = entry /\ w.node = node /\ w \in Worlds
      /\ table \in [Clusters -> Values] /\ entry \in [Files -> Entries] /\ node \in [Files -> Nodes]
      /\ Sound(table, entry) /\ NodeOK(table, entry, node, NoPending)
  BY WorldFields
<1>2. node[f] \in Nodes /\ Agree(entry[f], node[f]) BY ReadyState
<1>3. c \in Clusters /\ table[c] # Free /\ LinkedBy(table, entry, c, {}, {f}) BY <1>1, FirstLinked, Zenon
<1>4. to \in Entries /\ k \in Nodes /\ to.used /\ to.first = 0 BY NodeTypes DEF Entry
<1>5. EntryOf(f) \in Owners /\ Tails(EntryOf(f)) = {} /\ Owning(EntryOf(f)) = {f} BY OwnerTypes
<1>a. c # 0 OBVIOUS
<1> HIDE DEF to, k, c
<1>6. LinkedBy(table, x, c, {}, {f})
  <2>1. {f} \cup {f} = {f} OBVIOUS
  <2> QED BY <1>1, <1>3, <1>4, <2>1, LinkedPut, Zenon
<1>7. held \in Pendings /\ PendOK(table, entry, held) /\ PendOK(table, x, held)
  BY <1>3, <1>5, <1>6, HeadOnly
<1>8. NodeFits(table, to, node[f], held, f)
  <2>1. held.head = c /\ held.extra = 0 /\ held.owner = EntryOf(f) BY HeldFields
  <2> HIDE DEF held
  <2> QED BY <1>a, <1>2, <1>3, <1>4, <2>1 DEF NodeFits, Agree, c
<1> HIDE DEF held
<1>9. Good(w, held) BY <1>1, <1>7, NodesFit DEF Good
<1>10. Safe(w, s) /\ Landed(w, s) = v /\ Good(v, NoPending)
  <2>0. 0 \in Clusters \cup {0} /\ held \in Pendings BY <1>7
  <2>1. /\ NodeFits(w.table, Entry(0, len), w.node[f], held, f)
        /\ PendOK(w.table, [w.entry EXCEPT ![f] = Entry(0, len)], held)
    BY <1>1, <1>7, <1>8 DEF to
  <2>2. Good(w, NoPending) /\ w.node = node BY <1>1
  <2> HIDE DEF w
  <2>3. LET kk == IF node[f].pinned THEN CleanNode(0, len) ELSE NoNode
        IN  /\ Safe(w, Store(held, f, 0, len, held))
            /\ Landed(w, Store(held, f, 0, len, held)) = Put(w, f, Entry(0, len), kk)
            /\ Good(Put(w, f, Entry(0, len), kk), NoPending)
    BY <1>9, <2>0, <2>1, <2>2, StoreSafe, Zenon
  <2> QED BY <2>3 DEF to, k
<1>11. v.table = table /\ v.entry = x
  <2>1. w \in Worlds /\ w.table = table /\ w.entry = entry BY <1>1
  <2> HIDE DEF w
  <2>2. Put(w, f, to, k).table = w.table /\ Put(w, f, to, k).entry = [w.entry EXCEPT ![f] = to]
    BY DEF Put
  <2> QED BY <2>1, <2>2
<1>12. Loose(v.table, v.entry, q)
  <2>1. Loose(table, [entry EXCEPT ![f] = to], Chain(table, entry[f].first)) BY <1>1, <1>4, Loosened, Zenon
  <2> QED BY <1>11, <2>1 DEF c
<1> HIDE DEF w, s, v, q
<1>13. PICK z \in Worlds : Runs(v, Finished(FreeChain(q)), z) BY <1>10, <1>12, FreeChainRuns
<1>14. Runs(w, <<s>>, v) BY <1>10, RunsOne
<1>15. Runs(w, <<s>> \o Finished(FreeChain(q)), z) BY <1>13, <1>14, RunsJoin
<1> QED BY <1>15 DEF w, s, q, held, c

\* A shrink that keeps the first k clusters.
LEMMA CutRuns ==
  ASSUME Good(World, NoPending), NEW f \in Files, entry[f].used, NEW len \in 0 .. MaxSize,
         entry[f].first # 0,
         NEW k \in Nat, k # 0, k < Len(Chain(table, entry[f].first))
  PROVE  LET c == entry[f].first
             q == Chain(table, c)
             last == q[k]
             rest == SubSeq(q, k + 1, Len(q))
             cut == Held(rest[1], 0, Cut(f, len, last))
             held == Held(rest[1], 0, AtTail(last))
             s == <<Store(cut, f, c, len, held), FatStep(held, [x \in {last} |-> EOC], held)>>
                  \o Finished(FreeChain(rest))
         IN  \E z \in Worlds : Runs(World, s, z)
<1> DEFINE c == entry[f].first
           q == Chain(table, c)
           last == q[k]
           rest == SubSeq(q, k + 1, Len(q))
           h == rest[1]
           cut == Held(h, 0, Cut(f, len, last))
           held == Held(h, 0, AtTail(last))
           w == World
           to == Entry(c, len)
           x == [entry EXCEPT ![f] = to]
           a == Store(cut, f, c, len, held)
           b == FatStep(held, [y \in {last} |-> EOC], held)
           n == IF node[f].pinned THEN CleanNode(c, len) ELSE NoNode
           v == Put(w, f, to, n)
<1>1. /\ w.table = table /\ w.entry = entry /\ w.node = node /\ w \in Worlds
      /\ table \in [Clusters -> Values] /\ entry \in [Files -> Entries] /\ node \in [Files -> Nodes]
      /\ Sound(table, entry) /\ NodeOK(table, entry, node, NoPending)
  BY WorldFields
<1>2. node[f] \in Nodes /\ Agree(entry[f], node[f]) BY ReadyState
<1>3. c # 0 /\ c \in Clusters /\ table[c] # Free /\ LinkedBy(table, entry, c, {}, {f}) BY <1>1, FirstLinked, Zenon
<1>4. IsPath(table, q) /\ Len(q) \in Nat BY <1>1, <1>3, FileChain
<1>5. k < Len(q) OBVIOUS
<1>6. to \in Entries /\ n \in Nodes /\ to.used /\ to.first = c BY <1>3, NodeTypes DEF Entry
<1>7. \A d, D, F : LinkedBy(table, entry, d, D, F) => LinkedBy(table, x, d, D, F)
  BY <1>1, <1>6 DEF LinkedBy
<1>8. Agree(to, node[f])
  BY <1>2, <1>6 DEF Agree
<1> HIDE DEF c, q, to, n
<1>9. /\ last \in Clusters /\ q[k + 1] \in Clusters /\ table[last] = q[k + 1]
      /\ LinkedBy(table, entry, q[k + 1], {last}, {})
  <2>1. k \in 1 .. Len(q) - 1 BY <1>4, <1>5
  <2>2. Sound(table, entry) /\ IsPath(table, q) BY <1>1, <1>4
  <2> QED BY <2>1, <2>2, PathLinked, Zenon
<1>10. h = q[k + 1]
  <2>1. \A i \in 1 .. Len(q) : k < i => table[q[i]] = table[q[i]] OBVIOUS
  <2> QED BY <1>4, <1>5, <2>1, PathRest
<1> HIDE DEF h
<1>11. h \in Clusters /\ h # 0 /\ LinkedBy(table, entry, h, {last}, {}) /\ LinkedBy(table, x, h, {last}, {})
  BY <1>7, <1>9, <1>10, Numbers, Zenon
<1>12. /\ Cut(f, len, last) \in Owners /\ Tails(Cut(f, len, last)) = {last} /\ Owning(Cut(f, len, last)) = {}
       /\ AtTail(last) \in Owners /\ Tails(AtTail(last)) = {last} /\ Owning(AtTail(last)) = {}
  BY <1>9, OwnerTypes
<1>13. /\ cut \in Pendings /\ PendOK(table, entry, cut) /\ PendOK(table, x, cut)
       /\ held \in Pendings /\ PendOK(table, x, held)
  BY <1>11, <1>12, HeadOnly, Zenon
<1> HIDE DEF cut, held
<1>14. Good(w, cut) BY <1>1, <1>13, NodesFit DEF Good
<1>15. Safe(w, a) /\ Landed(w, a) = v /\ Good(v, held) /\ Good(v, NoPending)
  <2>1. NodeFits(w.table, to, w.node[f], cut, f) BY <1>1, <1>8, AgreeFits
  <2>2. Good(w, NoPending) /\ w.node = node BY <1>1
  <2>3. /\ PendOK(w.table, [w.entry EXCEPT ![f] = to], cut)
        /\ PendOK(w.table, [w.entry EXCEPT ![f] = to], held)
        /\ w.table[c] # Free /\ LinkedBy(w.table, w.entry, c, {}, {f})
    BY <1>1, <1>3, <1>13
  <2> HIDE DEF w
  <2>4. LET kk == IF node[f].pinned THEN CleanNode(c, len) ELSE NoNode
        IN  /\ Safe(w, Store(cut, f, c, len, held))
            /\ Landed(w, Store(cut, f, c, len, held)) = Put(w, f, Entry(c, len), kk)
            /\ Good(Put(w, f, Entry(c, len), kk), held)
            /\ Good(Put(w, f, Entry(c, len), kk), NoPending)
    BY ZenonT(30), <1>3, <1>13, <1>14, <2>1, <2>2, <2>3, StoreSafe DEF to
  <2> QED BY <2>4 DEF to, n
<1>16. v.table = table /\ v.entry = x /\ v \in Worlds
  <2>1. w \in Worlds /\ w.table = table /\ w.entry = entry BY <1>1
  <2> HIDE DEF w
  <2>2. Put(w, f, to, n).table = w.table /\ Put(w, f, to, n).entry = [w.entry EXCEPT ![f] = to]
    BY DEF Put
  <2>3. v \in Worlds BY <1>15 DEF Good
  <2> QED BY <2>1, <2>2, <2>3
<1> HIDE DEF v, a, x, w
<1> DEFINE d == [y \in {last} |-> EOC]
           u == Patched(table, d)
           g == [table |-> u, entry |-> v.entry, node |-> v.node]
<1>17. Sound(table, x) /\ x \in [Files -> Entries] /\ v.node \in [Files -> Nodes]
       /\ NodeOK(table, x, v.node, NoPending)
  BY <1>15, <1>16 DEF Good, Worlds
<1>18. table[last] # Free BY <1>9, Numbers
<1>19. /\ u \in [Clusters -> Values] /\ Sound(u, x)
       /\ u[last] = EOC /\ \A e \in Clusters : e # last => u[e] = table[e]
       /\ \A e \in Clusters : \A D, F : LinkedBy(table, x, e, D, F) => LinkedBy(u, x, e, D \ {last}, F)
  BY ZenonT(30), <1>1, <1>9, <1>17, <1>18, CutFacts
<1> HIDE DEF u, last
<1>20. LinkedBy(u, x, h, {}, {})
  <2>1. {last} \ {last} = {} OBVIOUS
  <2> QED BY <1>11, <1>19, <2>1
<1>21. PendOK(u, x, held)
  <2>1. held.head = h /\ held.extra = 0 BY HeldFields DEF held
  <2>2. LinkedBy(u, x, h, Tails(held.owner), Owning(held.owner)) BY <1>20, LinkedByMore
  <2> QED BY <2>1, <2>2 DEF PendOK
<1>22. Good(g, held) /\ Good(g, NoPending)
  <2>1. g.table = u /\ g.entry = x /\ g.node = v.node /\ g \in Worlds
    BY <1>16, <1>17, <1>19 DEF Worlds
  <2> HIDE DEF g
  <2> QED BY <1>13, <1>17, <1>19, <1>21, <2>1, NodesFit, NonePending, PendingType DEF Good
<1>23. Safe(v, b) /\ Landed(v, b) = g
  <2>1. {last} \in Groups /\ d \in [{last} -> Values] BY <1>9, SingleGroup, Numbers
  <2>2. [table |-> Patched(v.table, d), entry |-> v.entry, node |-> v.node] = g BY <1>16 DEF u
  <2> HIDE DEF d, g
  <2>3. /\ Safe(v, FatStep(held, d, held))
        /\ Landed(v, FatStep(held, d, held)) = [table |-> Patched(v.table, d), entry |-> v.entry, node |-> v.node]
    BY <1>15, <1>22, <2>1, <2>2, FatStepSafe
  <2> QED BY <2>2, <2>3 DEF d
<1>24. Loose(g.table, g.entry, rest)
  <2>1. g.table = u /\ g.entry = x BY <1>16
  <2>2. ASSUME NEW i \in 1 .. Len(q), k < i PROVE u[q[i]] = table[q[i]]
    <3>1. k \in 1 .. Len(q) /\ k # i BY <1>4, <1>5, <2>2
    <3>2. q[i] # last /\ q[i] \in Clusters BY <1>4, <3>1 DEF IsPath, last
    <3> QED BY <1>19, <3>2
  <2> HIDE DEF g
  <2>3. IsPath(u, rest) BY <1>4, <1>5, <2>2, PathRest
  <2> QED BY <1>20, <2>1, <2>3 DEF Loose, h
<1> HIDE DEF g, b, rest
<1>25. PICK z \in Worlds : Runs(g, Finished(FreeChain(rest)), z) BY <1>22, <1>24, FreeChainRuns, Zenon
<1>26. Runs(w, <<a>>, v) /\ Runs(v, <<b>>, g) BY <1>15, <1>23, RunsOne
<1>27. Runs(w, <<a>> \o <<b>>, g) BY <1>26, RunsJoin
<1>28. <<a>> \o <<b>> = <<a, b>>
  <2>1. a \in AllSteps /\ b \in AllSteps BY <1>15, <1>23 DEF Safe
  <2> QED BY <2>1, JoinTwo
<1>29. Runs(w, <<a, b>> \o Finished(FreeChain(rest)), z) BY <1>25, <1>27, <1>28, RunsJoin, Zenon
<1> QED BY <1>29, Zenon DEF w, a, b, rest, held, cut, h, last, q, c

\* truncate to a smaller size
ShrinkPlan(f, len) ==
    LET n == State(f)
        chain == Chain(table, n.first)
        keep == Need(len)
        first == IF keep = 0 THEN 0 ELSE n.first
        last == chain[keep]
        rest == SubSeq(chain, keep + 1, Len(chain))
    IN  IF keep = 0 /\ n.first # 0
        THEN LET held == Held(n.first, 0, EntryOf(f))
             IN  <<Store(held, f, 0, len, held)>> \o Finished(FreeChain(chain))
        ELSE IF keep # 0 /\ keep < Len(chain)
        THEN LET cut == Held(rest[1], 0, Cut(f, len, last))
                 held == Held(rest[1], 0, AtTail(last))
             IN  <<Store(cut, f, first, len, held), FatStep(held, [x \in {last} |-> EOC], held)>>
                 \o Finished(FreeChain(rest))
        ELSE <<Store(NoPending, f, first, len, NoPending)>>

\* Truncation is safe at every write.
LEMMA ShrinkRuns ==
  ASSUME Good(World, NoPending), NEW f \in Files, entry[f].used, NEW len \in 0 .. MaxSize
  PROVE  \E z \in Worlds : Runs(World, ShrinkPlan(f, len), z)
<1> DEFINE c == entry[f].first
           chain == Chain(table, c)
           keep == Need(len)
           w == World
<1>1. /\ w.table = table /\ w.entry = entry /\ w.node = node /\ w \in Worlds
      /\ table \in [Clusters -> Values] /\ entry \in [Files -> Entries] /\ node \in [Files -> Nodes]
      /\ Sound(table, entry) /\ NodeOK(table, entry, node, NoPending)
  BY WorldFields
<1>2. State(f).first = c /\ node[f] \in Nodes /\ Agree(entry[f], node[f]) BY ReadyState
<1>3. keep \in Nat
  <2>1. len \in Nat BY SizeAssumption
  <2> QED BY <2>1, NeedOne
<1>4. Len(chain) \in Nat /\ (c = 0 => Len(chain) = 0)
  <2>1. c = 0 => chain = <<>> BY <1>1, FileChain
  <2>2. c # 0 => Len(chain) \in Nat BY <1>1, FileChain
  <2> QED BY <2>1, <2>2
<1> HIDE DEF keep
<1>5. CASE keep = 0 /\ c # 0
  <2>1. ShrinkPlan(f, len) = <<Store(Held(c, 0, EntryOf(f)), f, 0, len, Held(c, 0, EntryOf(f)))>>
                              \o Finished(FreeChain(chain))
    BY <1>2, <1>5 DEF ShrinkPlan, keep
  <2> QED BY <1>5, <2>1, EmptyRuns
<1>6. CASE keep # 0 /\ keep < Len(chain)
  <2> DEFINE last == chain[keep]
             rest == SubSeq(chain, keep + 1, Len(chain))
             cut == Held(rest[1], 0, Cut(f, len, last))
             held == Held(rest[1], 0, AtTail(last))
  <2>1. c # 0 BY <1>3, <1>4, <1>6
  <2>2. ShrinkPlan(f, len) =
          <<Store(cut, f, c, len, held), FatStep(held, [x \in {last} |-> EOC], held)>>
          \o Finished(FreeChain(rest))
    BY <1>2, <1>6, Zenon DEF ShrinkPlan, keep
  <2> QED BY <1>3, <1>6, <2>1, <2>2, CutRuns, Zenon
<1>7. CASE ~(keep = 0 /\ c # 0) /\ ~(keep # 0 /\ keep < Len(chain))
  <2> DEFINE to == Entry(c, len)
             s == Store(NoPending, f, c, len, NoPending)
  <2>1. ShrinkPlan(f, len) = <<s>> BY <1>2, <1>7, Zenon DEF ShrinkPlan, keep
  <2>2. c \in Clusters \cup {0} /\ (c # 0 => table[c] # Free /\ LinkedBy(table, entry, c, {}, {f}))
    <3>1. c \in Clusters \cup {0} BY <1>1 DEF Entries
    <3> QED BY <1>1, <3>1, FirstLinked, Zenon
  <2>3. Agree(to, node[f]) BY <1>2 DEF Agree, Entry
  <2> HIDE DEF c
  <2>4. NodeFits(w.table, Entry(c, len), w.node[f], NoPending, f) BY <1>1, <2>3, AgreeFits
  <2>5. PendOK(w.table, [w.entry EXCEPT ![f] = Entry(c, len)], NoPending) /\ NoPending \in Pendings
    BY NonePending, PendingType
  <2>6. c # 0 => w.table[c] # Free /\ LinkedBy(w.table, w.entry, c, {}, {f}) BY <1>1, <2>2
  <2>7. Good(w, NoPending) /\ w.node = node BY <1>1
  <2> HIDE DEF w
  <2>8. Safe(w, s) BY <2>2, <2>4, <2>5, <2>6, <2>7, StoreSafe, Zenon
  <2> HIDE DEF s
  <2>9. Runs(w, <<s>>, Landed(w, s)) BY <2>8, RunsOne
  <2> QED BY <2>1, <2>9 DEF Runs, w
<1> QED BY <1>5, <1>6, <1>7

-----------------------------------------------------------------------------
(* Recovery. *)

\* The clusters of a chain are closed under its links.
LEMMA ChainClosed ==
  ASSUME NEW t, NEW e, Sound(t, e), NEW q, IsPath(t, q), q # <<>>, Stuck(t, q)
  PROVE  LET S == {q[i] : i \in 1 .. Len(q)}
         IN  S \in SUBSET Clusters /\ q[1] \in S /\ Closed(t, S)
<1> DEFINE m == Len(q)
           S == {q[i] : i \in 1 .. m}
<1>1. q \in Seq(Clusters) /\ m \in Nat /\ m >= 1 BY DEF IsPath
<1>2. S \in SUBSET Clusters /\ q[1] \in S BY <1>1
<1>3. Closed(t, S)
  <2> SUFFICES ASSUME NEW i \in 1 .. m, t[q[i]] \in Clusters PROVE t[q[i]] \in S
    BY DEF Closed
  <2>1. CASE i = m
    <3>1. t[t[q[i]]] # Free BY <1>1, <2>1 DEF Sound
    <3>2. \E j \in 1 .. m : q[j] = t[q[i]] BY <2>1, <3>1 DEF Stuck
    <3> QED BY <3>2
  <2>2. CASE i # m
    <3>1. i \in 1 .. m - 1 /\ i + 1 \in 1 .. m BY <1>1, <2>2
    <3>2. t[q[i]] = q[i + 1] BY <3>1 DEF IsPath
    <3> QED BY <3>1, <3>2
  <2> QED BY <2>1, <2>2
<1> QED BY <1>2, <1>3

\* What can be reached from x is in its chain.
LEMMA ReachedInChain ==
  ASSUME NEW t \in [Clusters -> Values], NEW e, Sound(t, e), NEW x \in Clusters, NEW h \in Clusters,
         Reaches(t, x, h)
  PROVE  h = x \/ \E i \in 1 .. Len(Chain(t, x)) : Chain(t, x)[i] = h
<1> DEFINE q == Chain(t, x)
<1>1. CASE t[x] = Free
  <2>1. Closed(t, {x}) BY <1>1, Numbers DEF Closed
  <2> QED BY <2>1 DEF Reaches
<1>2. CASE t[x] # Free
  <2>1. IsPath(t, q) /\ q # <<>> /\ q[1] = x /\ Stuck(t, q) BY <1>2, ChainIsPath
  <2> HIDE DEF q
  <2> DEFINE S == {q[i] : i \in 1 .. Len(q)}
  <2>2. S \in SUBSET Clusters /\ q[1] \in S /\ Closed(t, S) BY <2>1, ChainClosed, Zenon
  <2>3. h \in S BY <2>1, <2>2 DEF Reaches
  <2> QED BY <2>3 DEF q
<1> QED BY <1>1, <1>2

\* A path stays one when links that are not inside it are cut.
LEMMA PathSurvives ==
  ASSUME NEW t, NEW u, NEW q, IsPath(t, q), NEW A,
         \A i \in 1 .. Len(q) - 1 : q[i] \notin A,
         \A c \in Clusters : c \in A => u[c] = EOC,
         \A c \in Clusters : c \notin A => u[c] = t[c]
  PROVE  IsPath(u, q)
<1>1. q \in Seq(Clusters) /\ Len(q) \in Nat BY DEF IsPath
<1>2. \A i \in 1 .. Len(q) : q[i] \in Clusters BY <1>1
<1>3. \A i \in 1 .. Len(q) : u[q[i]] # Free BY <1>2, Numbers, Zenon DEF IsPath
<1>4. \A i \in 1 .. Len(q) - 1 : u[q[i]] = q[i + 1]
  <2> TAKE i \in 1 .. Len(q) - 1
  <2>1. i \in 1 .. Len(q) BY <1>1
  <2> QED BY <1>2, <2>1 DEF IsPath
<1> QED BY <1>3, <1>4 DEF IsPath

\* u is t with the links of A cut, which lead to the chains that recovery
\* frees, at x or else at h.
CutOff(t, u, e, A, x, h) ==
    /\ t \in [Clusters -> Values] /\ u \in [Clusters -> Values] /\ e \in [Files -> Entries]
    /\ Sound(t, e) /\ Sound(u, e)
    /\ x \in Clusters \cup {0} /\ h \in Clusters \cup {0}
    /\ A \in SUBSET Clusters
    /\ \A c \in Clusters : u[c] = IF c \in A THEN EOC ELSE t[c]
    /\ \A a \in A : t[a] # Free /\ (t[a] \in Clusters => t[a] = IF x # 0 THEN x ELSE h)
    /\ x # 0 => LinkedBy(u, e, x, {}, {})
    /\ h # 0 => LinkedBy(u, e, h, {}, {}) \/ (x # 0 /\ Reaches(t, x, h))

\* The extra chain.
LEMMA ExtraLoose ==
  ASSUME NEW t, NEW u, NEW e, NEW A, NEW x, NEW h, CutOff(t, u, e, A, x, h)
  PROVE  LET q == Chain(t, x)
         IN  /\ Loose(u, e, q) /\ Kept(u, e, q, h)
             /\ q # <<>> => x \in Clusters /\ t[x] # Free /\ q[1] = x
             /\ q = <<>> => x = 0 \/ t[x] = Free
             /\ h # 0 => LinkedBy(u, e, h, {}, {}) \/ (x # 0 /\ Reaches(u, x, h))
<1> DEFINE q == Chain(t, x)
<1>0. /\ t \in [Clusters -> Values] /\ u \in [Clusters -> Values] /\ e \in [Files -> Entries]
      /\ Sound(t, e) /\ x \in Clusters \cup {0} /\ h \in Clusters \cup {0}
      /\ x # 0 => x \in Clusters /\ LinkedBy(u, e, x, {}, {})
      /\ h # 0 => h \in Clusters /\ (LinkedBy(u, e, h, {}, {}) \/ (x # 0 /\ Reaches(t, x, h)))
      /\ \A c \in Clusters : u[c] = IF c \in A THEN EOC ELSE t[c]
      /\ 0 \notin Clusters
  BY Numbers DEF CutOff
<1>1. CASE x = 0 \/ t[x] = Free
  <2>1. q = <<>>
    <3>1. x \notin Clusters \/ t[x] = Free BY <1>0, <1>1
    <3> QED BY <3>1, NoChain
  <2>2. IsPath(u, <<>>)
    <3>1. <<>> \in Seq(Clusters) /\ Len(<<>>) = 0 OBVIOUS
    <3>2. (\A i \in 1 .. 0 : FALSE) /\ (\A i \in 1 .. 0 - 1 : FALSE) OBVIOUS
    <3> QED BY <3>1, <3>2 DEF IsPath
  <2>3. h # 0 => LinkedBy(u, e, h, {}, {})
    <3> SUFFICES ASSUME h # 0, x # 0, Reaches(t, x, h) PROVE LinkedBy(u, e, h, {}, {}) BY <1>0
    <3>1. x \in Clusters /\ h \in Clusters /\ t[x] = Free BY <1>0, <1>1
    <3>2. Closed(t, {x}) BY <3>1, Numbers DEF Closed
    <3>3. h = x BY <3>1, <3>2 DEF Reaches
    <3> QED BY <1>0, <3>3
  <2> HIDE DEF q
  <2> QED BY <1>0, <1>1, <2>1, <2>2, <2>3 DEF Loose, Kept, q
<1>2. CASE ~(x = 0 \/ t[x] = Free)
  <2>1. x \in Clusters /\ x # 0 /\ t[x] # Free BY <1>0, <1>2
  <2>2. IsPath(t, q) /\ q # <<>> /\ q[1] = x BY <2>1, ChainIsPath
  <2>3. q \in Seq(Clusters) /\ Len(q) \in Nat BY <2>2 DEF IsPath
  <2>a. h # 0 /\ Reaches(t, x, h) => h = x \/ \E i \in 1 .. Len(q) : q[i] = h
    BY <1>0, <2>1, ReachedInChain
  <2> HIDE DEF q
  <2>4. ASSUME NEW i \in 1 .. Len(q) - 1 PROVE q[i] \notin A
    <3>1. i \in 1 .. Len(q) /\ i + 1 \in 1 .. Len(q) /\ i + 1 # 1 /\ 1 \in 1 .. Len(q) BY <2>3
    <3>2. t[q[i]] = q[i + 1] /\ q[i + 1] # q[1] BY <2>2, <3>1 DEF IsPath
    <3>3. q[i + 1] \in Clusters BY <2>3, <3>1
    <3> QED BY <2>1, <2>2, <3>2, <3>3 DEF CutOff
  <2>5. IsPath(u, q)
    <3>1. IsPath(t, q) /\ \A i \in 1 .. Len(q) - 1 : q[i] \notin A BY <2>2, <2>4
    <3>2. \A c \in Clusters : c \in A => u[c] = EOC BY <1>0
    <3>3. \A c \in Clusters : c \notin A => u[c] = t[c] BY <1>0
    <3> QED BY ZenonT(30), <3>1, <3>2, <3>3, PathSurvives
  <2>6. Loose(u, e, q) BY <1>0, <2>1, <2>2, <2>5 DEF Loose
  <2>7. 1 \in 1 .. Len(q) BY <2>2, <2>3
  <2>8. h # 0 /\ Reaches(t, x, h) => \E i \in 1 .. Len(q) : q[i] = h BY <2>2, <2>7, <2>a
  <2>9. Kept(u, e, q, h) BY <1>0, <2>8 DEF Kept
  <2>10. ASSUME h # 0, Reaches(t, x, h) PROVE Reaches(u, x, h)
    <3>1. PICK j \in 1 .. Len(q) : q[j] = h BY <2>8, <2>10
    <3>2. 1 <= j BY <2>3
    <3>3. \A k \in 1 .. j - 1 : u[q[k]] = q[k + 1]
      <4> TAKE k \in 1 .. j - 1
      <4>1. k \in 1 .. Len(q) - 1 BY <2>3
      <4> QED BY <2>5, <4>1 DEF IsPath
    <3>4. Reaches(u, q[1], q[j]) BY <2>3, <2>7, <3>2, <3>3, LinksReach
    <3> QED BY <2>2, <3>1, <3>4
  <2> QED BY <1>0, <2>1, <2>2, <2>6, <2>9, <2>10 DEF q
<1> QED BY <1>1, <1>2

\* What is left of the chain at h once the extra chain is free.
LEMMA HeadLoose ==
  ASSUME NEW t, NEW u, NEW e, NEW A, NEW x, NEW h, CutOff(t, u, e, A, x, h)
  PROVE  LET q == Chain(t, x)
             S == Prefix(q, Len(q))
         IN  Loose(FreedTable(u, S), e, Chain(FreedTable(t, S), h))
<1> DEFINE q == Chain(t, x)
           S == Prefix(q, Len(q))
           g == FreedTable(t, S)
           v == FreedTable(u, S)
           r == Chain(g, h)
<1>0. /\ t \in [Clusters -> Values] /\ u \in [Clusters -> Values] /\ e \in [Files -> Entries]
      /\ Sound(t, e) /\ Sound(u, e) /\ x \in Clusters \cup {0} /\ h \in Clusters \cup {0}
      /\ \A c \in Clusters : u[c] = IF c \in A THEN EOC ELSE t[c]
      /\ \A a \in A : t[a] \in Clusters => t[a] = IF x # 0 THEN x ELSE h
      /\ 0 \notin Clusters /\ Free = 0
  BY Numbers DEF CutOff
<1>1. /\ Loose(u, e, q) /\ Kept(u, e, q, h)
      /\ q # <<>> => x \in Clusters /\ q[1] = x
      /\ q = <<>> => x = 0 \/ t[x] = Free
  BY ExtraLoose
<1>2. q \in Seq(Clusters) /\ Len(q) \in Nat /\ S \in SUBSET Clusters
  BY <1>1 DEF Loose, IsPath, Prefix
<1>3. /\ \A c \in Clusters : g[c] = IF c \in S THEN Free ELSE t[c]
      /\ \A c \in Clusters : v[c] = IF c \in S THEN Free ELSE u[c]
  BY DEF FreedTable
<1>4. S = {q[i] : i \in 1 .. Len(q)} BY DEF Prefix
<1>5. CASE h = 0 \/ g[h] = Free
  <2>1. r = <<>>
    <3>1. h \notin Clusters \/ g[h] = Free BY <1>0, <1>5
    <3> HIDE DEF g
    <3> QED BY <3>1, NoChain
  <2>2. IsPath(v, <<>>)
    <3>1. <<>> \in Seq(Clusters) /\ Len(<<>>) = 0 OBVIOUS
    <3>2. (\A i \in 1 .. 0 : FALSE) /\ (\A i \in 1 .. 0 - 1 : FALSE) OBVIOUS
    <3> QED BY <3>1, <3>2 DEF IsPath
  <2> HIDE DEF r, v
  <2>3. Loose(v, e, r) BY <2>1, <2>2 DEF Loose
  <2> QED BY <2>3 DEF r, v, g, S, q
<1>6. CASE ~(h = 0 \/ g[h] = Free)
  <2>1. h \in Clusters /\ h # 0 /\ g[h] # Free BY <1>0, <1>6
  <2> HIDE DEF g, S, q
  <2>2. IsPath(g, r) /\ r # <<>> /\ r[1] = h BY <2>1, ChainIsPath
  <2> HIDE DEF r, v
  <2>3. r \in Seq(Clusters) /\ Len(r) \in Nat BY <2>2 DEF IsPath
  <2>4. h \notin S BY <1>3, <2>1
  <2>5. LinkedBy(u, e, h, {}, {}) BY <1>1, <1>4, <2>1, <2>4 DEF Kept
  <2>6. LinkedBy(v, e, h, {}, {}) BY <1>0, <1>3, <2>1, <2>5 DEF LinkedBy
  <2>7. ASSUME NEW i \in 1 .. Len(r) - 1 PROVE r[i] \notin A
    <3>1. i \in 1 .. Len(r) /\ i + 1 \in 1 .. Len(r) /\ i + 1 # 1 /\ 1 \in 1 .. Len(r) BY <2>3
    <3>2. g[r[i]] = r[i + 1] /\ r[i + 1] # r[1] /\ g[r[i + 1]] # Free BY <2>2, <3>1 DEF IsPath
    <3>3. r[i] \in Clusters /\ r[i + 1] \in Clusters BY <2>3, <3>1
    <3>4. t[r[i]] = r[i + 1] /\ r[i + 1] \notin S /\ t[r[i + 1]] # Free BY <1>0, <1>3, <3>2, <3>3
    <3>5. r[i] \in A => r[i + 1] = IF x # 0 THEN x ELSE h BY <1>0, <3>3, <3>4
    <3>6. CASE x = 0 BY <2>2, <3>2, <3>5, <3>6
    <3>7. CASE x # 0
      <4>1. q # <<>> => x \in S
        <5>1. q # <<>> => 1 \in 1 .. Len(q) BY <1>2
        <5> QED BY <1>1, <1>4, <5>1
      <4>2. q = <<>> => t[x] = Free BY <1>1, <3>7
      <4> QED BY <3>4, <3>5, <3>7, <4>1, <4>2
    <3> QED BY <3>6, <3>7
  <2>8. \A c \in Clusters : v[c] = IF c \in A \ S THEN EOC ELSE g[c] BY <1>0, <1>3
  <2>9. \A i \in 1 .. Len(r) - 1 : r[i] \notin A \ S BY <2>7
  <2>10. IsPath(v, r)
    <3> DEFINE B == A \ S
    <3>1. IsPath(g, r) /\ \A i \in 1 .. Len(r) - 1 : r[i] \notin B BY <2>2, <2>9
    <3>2. \A c \in Clusters : c \in B => v[c] = EOC BY <2>8
    <3>3. \A c \in Clusters : c \notin B => v[c] = g[c] BY <2>8
    <3> HIDE DEF B
    <3> QED BY ZenonT(30), <3>1, <3>2, <3>3, PathSurvives
  <2>11. Loose(v, e, r) BY <2>2, <2>6, <2>10 DEF Loose
  <2> QED BY <2>11 DEF r, v, g, S, q
<1> QED BY <1>5, <1>6

\* What recovery frees, once it is cut off, it frees safely.
LEMMA ReclaimRuns ==
  ASSUME NEW w, Good(w, NoPending), NEW A, NEW x, NEW h, CutOff(table, w.table, w.entry, A, x, h)
  PROVE  \E z \in Worlds : Runs(w, ReclaimAll(h, x), z) /\ Good(z, NoPending)
<1> DEFINE q == Chain(table, x)
           S == Prefix(q, Len(q))
           d == [c \in {q[i] : i \in DOMAIN q} |-> Free]
           r == Chain(Patched(table, d), h)
           v == Freed(w, q, Len(q))
<1>1. Loose(w.table, w.entry, q) /\ Kept(w.table, w.entry, q, h) BY ExtraLoose
<1>2. Loose(FreedTable(w.table, S), w.entry, Chain(FreedTable(table, S), h)) BY HeadLoose
<1>3. q \in Seq(Clusters) /\ DOMAIN q = 1 .. Len(q) BY <1>1 DEF Loose, IsPath
<1>4. Patched(table, d) = FreedTable(table, S)
  <2> DEFINE D == {q[i] : i \in DOMAIN q}
  <2>1. D = S /\ DOMAIN d = D BY <1>3 DEF Prefix
  <2>2. \A c \in D : d[c] = Free OBVIOUS
  <2> HIDE DEF d, D, S
  <2> QED BY <2>1, <2>2 DEF Patched, FreedTable
<1>5. ReclaimAll(h, x) = Reclaim(q, h) \o Reclaim(r, 0) BY DEF ReclaimAll
<1> HIDE DEF q, d
<1>6. Frees(Reclaim(q, h), q, h) BY <1>3, ReclaimFrees
<1>7. Runs(w, Reclaim(q, h), v) /\ Good(v, NoPending) BY <1>1, <1>6, FreesRun
<1>8. v.table = FreedTable(w.table, S) /\ v.entry = w.entry BY DEF Freed
<1> HIDE DEF v, S
<1>9. Loose(v.table, v.entry, r) BY <1>2, <1>4, <1>8
<1> HIDE DEF r
<1>10. r \in Seq(Clusters) BY <1>9 DEF Loose, IsPath
<1>11. Frees(Reclaim(r, 0), r, 0) BY <1>10, ReclaimFrees
<1>12. Kept(v.table, v.entry, r, 0) BY DEF Kept
<1> DEFINE z == Freed(v, r, Len(r))
<1>13. Runs(v, Reclaim(r, 0), z) /\ Good(z, NoPending) BY <1>7, <1>9, <1>11, <1>12, FreesRun
<1> HIDE DEF z
<1>14. Runs(w, Reclaim(q, h) \o Reclaim(r, 0), z) BY <1>7, <1>13, RunsJoin
<1> QED BY <1>5, <1>13, <1>14 DEF Good

\* The parts of an owner, by its kind.
LEMMA OwnerParts ==
  ASSUME NEW o \in Owners
  PROVE  /\ o.kind \in {"none", "tail", "cut", "entry", "removed"}
         /\ IsTail(o) => o.at \in Clusters
         /\ o.kind = "entry" => o.file \in Files /\ o = EntryOf(o.file)
         /\ o.kind = "removed" => o.file \in Files /\ o = Removed(o.file)
         /\ o.kind = "cut" => o.file \in Files /\ o.size \in 0 .. MaxSize
<1>1. CASE o = Nothing BY <1>1 DEF Nothing, IsTail
<1>2. CASE \E c \in Clusters : o = AtTail(c) BY <1>2 DEF AtTail, IsTail
<1>3. CASE \E f \in Files : o = EntryOf(f) BY <1>3 DEF EntryOf, IsTail
<1>4. CASE \E f \in Files : o = Removed(f) BY <1>4 DEF Removed, IsTail
<1>5. CASE \E f \in Files, size \in 0 .. MaxSize, c \in Clusters : o = Cut(f, size, c)
  BY <1>5 DEF Cut, IsTail
<1> QED BY <1>1, <1>2, <1>3, <1>4, <1>5 DEF Owners

\* Recovery brings every node in step with its entry.
LEMMA RecoveredAgrees ==
  ASSUME Good(World, pending), NEW owned \in BOOLEAN,
         pending.owner.kind = "removed" => (owned <=> pending.head # 0 /\ Links(pending.owner, pending.head))
  PROVE  /\ Recovered(owned) \in [Files -> Nodes]
         /\ \A f \in Files : Agree(entry[f], Recovered(owned)[f])
<1> DEFINE o == pending.owner
           N == Recovered(owned)
<1>1. /\ table \in [Clusters -> Values] /\ entry \in [Files -> Entries] /\ node \in [Files -> Nodes]
      /\ NodeOK(table, entry, node, pending) /\ pending \in Pendings
  BY WorldFields DEF Good
<1>2. o \in Owners /\ pending.head \in Clusters \cup {0} BY <1>1 DEF Pendings
<1>3. /\ o.kind \in {"none", "tail", "cut", "entry", "removed"}
      /\ o.kind = "entry" => o.file \in Files /\ o = EntryOf(o.file)
      /\ o.kind = "removed" => o.file \in Files /\ o = Removed(o.file)
      /\ o.kind = "cut" => o.file \in Files /\ o.size \in 0 .. MaxSize
  BY <1>2, OwnerParts
<1>4. \A f \in Files : /\ EntryOf(f).kind = "entry" /\ EntryOf(f).file = f
                       /\ Removed(f).kind = "removed" /\ Removed(f).file = f
  BY DEF EntryOf, Removed
<1>5. ASSUME NEW f \in Files, o # EntryOf(f), o # Removed(f) PROVE Agree(entry[f], node[f])
  BY <1>1, <1>5 DEF NodeOK, NodeFits, Agree
<1>6. \A f \in Files : /\ node[f] \in Nodes /\ node[f].first \in Clusters \cup {0}
                       /\ entry[f].first \in Clusters \cup {0} /\ entry[f].size \in 0 .. MaxSize
  BY <1>1 DEF Nodes, Entries
<1>7. ASSUME NEW g \in Files, NEW k \in Nodes, N = [node EXCEPT ![g] = k], Agree(entry[g], k),
             \A f \in Files : f # g => Agree(entry[f], node[f])
      PROVE  N \in [Files -> Nodes] /\ \A f \in Files : Agree(entry[f], N[f])
  BY <1>1, <1>7
<1>8. ASSUME N = node, \A f \in Files : Agree(entry[f], node[f])
      PROVE  N \in [Files -> Nodes] /\ \A f \in Files : Agree(entry[f], N[f])
  BY <1>1, <1>8
<1> HIDE DEF N
<1>9. CASE o.kind \in {"none", "tail"}
  <2>1. \A f \in Files : Agree(entry[f], node[f]) BY <1>4, <1>5, <1>9
  <2>2. N = node BY <1>9 DEF N, Recovered
  <2> QED BY <1>8, <2>1, <2>2 DEF N
<1>10. CASE o.kind = "cut"
  <2>1. \A f \in Files : Agree(entry[f], node[f]) BY <1>4, <1>5, <1>10
  <2>2. CASE Shrunk(o) /\ node[o.file].pinned
    <3> DEFINE g == o.file
               k == CleanNode(node[g].first, o.size)
    <3>1. N = [node EXCEPT ![g] = k] BY <1>10, <2>2 DEF N, Recovered
    <3>2. g \in Files /\ k \in Nodes BY <1>3, <1>6, <1>10, NodeTypes, Zenon
    <3>3. Agree(entry[g], k) BY <2>1, <2>2, <3>2 DEF Agree, CleanNode
    <3> HIDE DEF g, k
    <3> QED BY <1>7, <2>1, <3>1, <3>2, <3>3, Zenon DEF N
  <2>3. CASE ~(Shrunk(o) /\ node[o.file].pinned)
    <3>1. N = node BY <1>10, <2>3 DEF N, Recovered
    <3> QED BY <1>8, <2>1, <3>1 DEF N
  <2> QED BY <2>2, <2>3
<1>11. CASE o.kind = "entry"
  <2> DEFINE g == o.file
  <2>1. g \in Files /\ o = EntryOf(g) BY <1>3, <1>11
  <2>2. \A f \in Files : f # g => Agree(entry[f], node[f]) BY <1>4, <1>5, <1>11, <2>1
  <2>3. NodeFits(table, entry[g], node[g], pending, g) BY <1>1, <2>1 DEF NodeOK
  <2>4. o # Removed(g) BY <1>4, <1>11, <2>1
  <2>5. CASE node[g].pinned /\ entry[g].used /\ node[g].first # entry[g].first
    <3> DEFINE k == CleanNode(entry[g].first, entry[g].size)
    <3>1. N = [node EXCEPT ![g] = k] BY <1>11, <2>5 DEF N, Recovered
    <3>2. k \in Nodes BY <1>6, <2>1, NodeTypes
    <3>3. Agree(entry[g], k) BY <2>5 DEF Agree, CleanNode
    <3> HIDE DEF g, k
    <3> QED BY <1>7, <2>1, <2>2, <3>1, <3>2, <3>3, Zenon DEF N
  <2>6. CASE ~(node[g].pinned /\ entry[g].used /\ node[g].first # entry[g].first)
    <3>1. N = node BY <1>11, <2>6 DEF N, Recovered
    <3>2. Agree(entry[g], node[g]) BY <2>3, <2>4, <2>6 DEF NodeFits, Agree
    <3> QED BY <1>8, <2>2, <3>1, <3>2 DEF N
  <2> QED BY <2>5, <2>6
<1>12. CASE o.kind = "removed"
  <2> DEFINE g == o.file
  <2>1. g \in Files /\ o = Removed(g) BY <1>3, <1>12
  <2>2. \A f \in Files : f # g => Agree(entry[f], node[f]) BY <1>4, <1>5, <1>12, <2>1
  <2>3. NodeFits(table, entry[g], node[g], pending, g) BY <1>1, <2>1 DEF NodeOK
  <2>4. o # EntryOf(g) BY <1>4, <1>12, <2>1
  <2>5. owned <=> pending.head # 0 /\ entry[g].used /\ entry[g].first = pending.head
    BY <1>12 DEF Links
  <2>6. CASE ~owned /\ node[g].pinned /\ node[g].first = pending.head
    <3>1. N = [node EXCEPT ![g] = NoNode] BY <1>12, <2>6 DEF N, Recovered
    <3>2. NoNode \in Nodes /\ Agree(entry[g], NoNode) BY NodeTypes DEF Agree, NoNode
    <3> HIDE DEF g
    <3> QED BY <1>7, <2>1, <2>2, <3>1, <3>2, Zenon DEF N
  <2>7. CASE ~(~owned /\ node[g].pinned /\ node[g].first = pending.head)
    <3>1. N = node BY <1>12, <2>7 DEF N, Recovered
    <3>2. Agree(entry[g], node[g]) BY <2>3, <2>4, <2>5, <2>7 DEF NodeFits, Agree
    <3> QED BY <1>8, <2>2, <3>1, <3>2 DEF N
  <2> QED BY <2>6, <2>7
<1> QED BY <1>3, <1>9, <1>10, <1>11, <1>12

\* What finish_interrupted asks of the disk: the owner links the chain.
OwnerLinks(p) ==
    \/ p.head # 0 /\ Links(p.owner, p.head)
    \/ IsTail(p.owner) /\ p.extra # 0 /\ Links(p.owner, p.extra)

\* It does or it does not.
LEMMA OwnerLinkType == \A p : OwnerLinks(p) \in BOOLEAN
  BY DEF OwnerLinks

\* An owner that does not link the pending chain leaves it to nobody.
LEMMA UnownedCut ==
  ASSUME Good(World, pending), ~OwnerLinks(pending)
  PROVE  CutOff(table, table, entry, {}, pending.extra, pending.head)
<1> DEFINE o == pending.owner
           x == pending.extra
           h == pending.head
<1>1. /\ table \in [Clusters -> Values] /\ entry \in [Files -> Entries] /\ pending \in Pendings
      /\ Sound(table, entry) /\ PendOK(table, entry, pending)
  BY WorldFields DEF Good
<1>2. o \in Owners /\ h \in Clusters \cup {0} /\ x \in Clusters \cup {0} BY <1>1 DEF Pendings
<1>3. o.kind \in {"none", "tail", "cut", "entry", "removed"} BY <1>2, OwnerParts
<1>4. ASSUME NEW c, ~Links(o, c), LinkedBy(table, entry, c, Tails(o), Owning(o))
      PROVE  LinkedBy(table, entry, c, {}, {})
  <2>1. CASE o.kind \in {"tail", "cut"}
    <3>1. table[o.at] # c BY <1>4, <2>1 DEF Links
    <3>2. Tails(o) = {o.at} /\ Owning(o) = {} BY <2>1 DEF Tails, Owning, IsTail
    <3> QED BY <1>4, <3>1, <3>2 DEF LinkedBy
  <2>2. CASE o.kind \in {"entry", "removed"}
    <3>1. ~(entry[o.file].used /\ entry[o.file].first = c) BY <1>4, <2>2 DEF Links
    <3>2. Tails(o) = {} /\ Owning(o) = {o.file} BY <2>2 DEF Tails, Owning, IsTail
    <3> QED BY <1>4, <3>1, <3>2 DEF LinkedBy
  <2>3. CASE o.kind = "none"
    <3>2. Tails(o) = {} /\ Owning(o) = {} BY <2>3 DEF Tails, Owning, IsTail
    <3> QED BY <1>4, <3>2
  <2> QED BY <1>3, <2>1, <2>2, <2>3
<1>5. x # 0 => LinkedBy(table, entry, x, {}, {})
  <2> SUFFICES ASSUME x # 0 PROVE LinkedBy(table, entry, x, {}, {}) OBVIOUS
  <2>1. LinkedBy(table, entry, x, Tails(o), {}) BY <1>1 DEF PendOK
  <2>2. CASE IsTail(o)
    <3>1. ~Links(o, x) BY <2>2 DEF OwnerLinks
    <3>2. Owning(o) = {} BY <2>2 DEF Owning, IsTail
    <3> QED BY <1>4, <2>1, <3>1, <3>2
  <2>3. CASE ~IsTail(o)
    <3>1. Tails(o) = {} BY <2>3 DEF Tails
    <3> QED BY <2>1, <3>1
  <2> QED BY <2>2, <2>3
<1>6. h # 0 => LinkedBy(table, entry, h, {}, {}) \/ (x # 0 /\ Reaches(table, x, h))
  <2> SUFFICES ASSUME h # 0, ~(x # 0 /\ Reaches(table, x, h)) PROVE LinkedBy(table, entry, h, {}, {}) OBVIOUS
  <2>1. LinkedBy(table, entry, h, Tails(o), Owning(o)) BY <1>1 DEF PendOK
  <2>2. ~Links(o, h) BY DEF OwnerLinks
  <2> QED BY <1>4, <2>1, <2>2
<1> HIDE DEF o, x, h
<1>7. CutOff(table, table, entry, {}, x, h) BY <1>1, <1>2, <1>5, <1>6 DEF CutOff
<1> QED BY <1>7 DEF x, h

\* The tail that links it is cut off from it.
LEMMA OwnedCut ==
  ASSUME Good(World, pending), OwnerLinks(pending), IsTail(pending.owner)
  PROVE  LET at == pending.owner.at
             u == Patched(table, [x \in {at} |-> EOC])
         IN  /\ at \in Clusters /\ u \in [Clusters -> Values] /\ u[at] = EOC
             /\ CutOff(table, u, entry, {at}, pending.extra, pending.head)
<1> DEFINE o == pending.owner
           x == pending.extra
           h == pending.head
           at == o.at
           u == Patched(table, [y \in {at} |-> EOC])
<1>1. /\ table \in [Clusters -> Values] /\ entry \in [Files -> Entries] /\ pending \in Pendings
      /\ Sound(table, entry) /\ PendOK(table, entry, pending)
  BY WorldFields DEF Good
<1>2. o \in Owners /\ h \in Clusters \cup {0} /\ x \in Clusters \cup {0} BY <1>1 DEF Pendings
<1>3. at \in Clusters BY <1>2, OwnerParts
<1>4. Tails(o) = {at} /\ Owning(o) = {} BY DEF Tails, Owning, IsTail
<1>5. (h # 0 /\ table[at] = h) \/ (x # 0 /\ table[at] = x) BY DEF OwnerLinks, Links, IsTail
<1>6. table[at] # Free BY <1>5, Numbers
<1>7. x # 0 => LinkedBy(table, entry, x, {at}, {}) /\ table[at] \in {EOC, x} BY <1>1, <1>4 DEF PendOK
<1>8. h # 0 => LinkedBy(table, entry, h, {at}, {}) \/ (x # 0 /\ Reaches(table, x, h)) BY <1>1, <1>4 DEF PendOK
<1> HIDE DEF at, x, h
<1>9. /\ u \in [Clusters -> Values] /\ Sound(u, entry)
      /\ u[at] = EOC /\ \A c \in Clusters : c # at => u[c] = table[c]
      /\ \A c \in Clusters : \A D, F : LinkedBy(table, entry, c, D, F) => LinkedBy(u, entry, c, D \ {at}, F)
  BY <1>1, <1>3, <1>6, CutFacts
<1> HIDE DEF u
<1>10. \A c \in Clusters : LinkedBy(table, entry, c, {at}, {}) => LinkedBy(u, entry, c, {}, {})
  <2>1. {at} \ {at} = {} OBVIOUS
  <2> QED BY <1>9, <2>1
<1>11. table[at] \in Clusters => table[at] = IF x # 0 THEN x ELSE h BY <1>5, <1>7, Numbers
<1>12. \A c \in Clusters : u[c] = IF c \in {at} THEN EOC ELSE table[c] BY <1>9
<1>13. x # 0 => LinkedBy(u, entry, x, {}, {}) BY <1>2, <1>7, <1>10 DEF x
<1>14. h # 0 => LinkedBy(u, entry, h, {}, {}) \/ (x # 0 /\ Reaches(table, x, h)) BY <1>2, <1>8, <1>10 DEF h
<1>15. x \in Clusters \cup {0} /\ h \in Clusters \cup {0} BY <1>2 DEF x, h
<1>16. CutOff(table, u, entry, {at}, x, h)
  <2>1. \A a \in {at} : table[a] # Free /\ (table[a] \in Clusters => table[a] = IF x # 0 THEN x ELSE h)
    BY <1>6, <1>11
  <2>2. {at} \in SUBSET Clusters BY <1>3
  <2> QED BY <1>1, <1>9, <1>12, <1>13, <1>14, <1>15, <2>1, <2>2 DEF CutOff
<1> QED BY <1>3, <1>9, <1>16 DEF u, at, x, h

\* What is pending without its owner.
Unowned(p) == [p EXCEPT !.owner = Nothing]

\* Its parts.
LEMMA UnownedFields ==
  ASSUME NEW p \in Pendings
  PROVE  /\ Unowned(p) \in Pendings /\ Unowned(p).head = p.head /\ Unowned(p).extra = p.extra
         /\ Unowned(p).owner = Nothing
  BY NothingIn DEF Unowned, Pendings

\* Once the links to the pending chain are cut, what is pending fits, with
\* its owner and without.
LEMMA CutPending ==
  ASSUME NEW p \in Pendings, NEW u, NEW A, CutOff(table, u, entry, A, p.extra, p.head),
         IsTail(p.owner) => u[p.owner.at] = EOC \/ p.extra = 0
  PROVE  PendOK(u, entry, p) /\ PendOK(u, entry, Unowned(p))
<1> DEFINE x == p.extra
           h == p.head
<1>1. h # 0 => LinkedBy(u, entry, h, {}, {}) \/ (x # 0 /\ Reaches(u, x, h)) BY ExtraLoose
<1>2. x # 0 => LinkedBy(u, entry, x, {}, {}) BY DEF CutOff
<1> DEFINE o == p.owner
<1>3. x # 0 => LinkedBy(u, entry, x, Tails(o), {})
  <2> HIDE DEF x, o
  <2>1. {} \subseteq Tails(o) /\ {} \subseteq {} OBVIOUS
  <2> QED BY <1>2, <2>1, LinkedByMore
<1>4. h # 0 => LinkedBy(u, entry, h, Tails(o), Owning(o)) \/ (x # 0 /\ Reaches(u, x, h))
  <2> HIDE DEF x, h, o
  <2>1. {} \subseteq Tails(o) /\ {} \subseteq Owning(o) OBVIOUS
  <2> QED BY <1>1, <2>1, LinkedByMore
<1>5. PendOK(u, entry, p) BY <1>3, <1>4 DEF PendOK
<1>6. PendOK(u, entry, Unowned(p))
  <2> DEFINE r == Unowned(p)
  <2>1. r.head = h /\ r.extra = x /\ r.owner = Nothing BY UnownedFields
  <2> HIDE DEF x, h, r
  <2>2. Tails(r.owner) = {} /\ Owning(r.owner) = {} /\ ~IsTail(r.owner) BY <2>1, NothingIn
  <2>3. PendOK(u, entry, r) BY <1>1, <1>2, <2>1, <2>2 DEF PendOK
  <2> QED BY <2>3 DEF r
<1> QED BY <1>5, <1>6

\* The plan of finish_interrupted where it writes at all.
RecoverPlan(p) ==
    (IF OwnerLinks(p) THEN <<FatStep(p, [x \in {p.owner.at} |-> EOC], Unowned(p))>> ELSE <<>>)
    \o ReclaimAll(p.head, p.extra)

\* Recovery is safe at every write, and may itself be cut.
LEMMA RecoverRuns ==
  ASSUME Good(World, pending), NEW w, w \in Worlds, w.table = table, w.entry = entry,
         \A f \in Files : Agree(entry[f], w.node[f]),
         OwnerLinks(pending) => IsTail(pending.owner)
  PROVE  /\ ~OwnerLinks(pending) => Good(w, Unowned(pending))
         /\ \E z \in Worlds : Runs(w, Finished(RecoverPlan(pending)), z)
<1> DEFINE p == pending
           x == p.extra
           h == p.head
<1>1. /\ table \in [Clusters -> Values] /\ entry \in [Files -> Entries] /\ p \in Pendings
      /\ Sound(table, entry) /\ PendOK(table, entry, p)
  BY WorldFields DEF Good
<1>2. Unowned(p) \in Pendings /\ NoPending \in Pendings BY <1>1, UnownedFields, PendingType
<1>3. ASSUME NEW t, NEW r \in Pendings PROVE NodeOK(t, entry, w.node, r) BY AgreeFits DEF NodeOK
<1>4. Good(w, p) /\ Good(w, NoPending)
  <2>1. PendOK(table, entry, NoPending) BY NonePending
  <2> QED BY <1>1, <1>2, <1>3, <2>1 DEF Good
<1>5. CASE ~OwnerLinks(p)
  <2>1. CutOff(table, table, entry, {}, x, h) BY <1>5, UnownedCut
  <2>2. IsTail(p.owner) => table[p.owner.at] = EOC \/ x = 0
    <3> SUFFICES ASSUME IsTail(p.owner), x # 0 PROVE table[p.owner.at] = EOC OBVIOUS
    <3>1. table[p.owner.at] \in {EOC, x} BY <1>1 DEF PendOK
    <3>2. table[p.owner.at] # x BY <1>5 DEF OwnerLinks, Links, IsTail
    <3> QED BY <3>1, <3>2
  <2>3. PendOK(table, entry, Unowned(p)) BY <1>1, <2>1, <2>2, CutPending
  <2>4. Good(w, Unowned(p)) BY <1>1, <1>2, <1>3, <2>3 DEF Good
  <2>5. CutOff(table, w.table, w.entry, {}, x, h) BY <2>1
  <2> DEFINE s == ReclaimAll(h, x)
  <2> HIDE DEF x, h
  <2>6. PICK z \in Worlds : Runs(w, s, z) /\ Good(z, NoPending) BY <1>4, <2>5, ReclaimRuns
  <2>7. RecoverPlan(p) = <<>> \o s BY <1>5 DEF RecoverPlan, x, h
  <2> HIDE DEF s
  <2>8. <<>> \o s = s
    <3>1. s \in Seq(AllSteps) BY <2>6 DEF Runs
    <3> QED BY <3>1
  <2>9. Runs(w, Finished(s), z) BY <2>6, RunsFinish
  <2> QED BY <2>4, <2>7, <2>8, <2>9
<1>6. CASE OwnerLinks(p)
  <2> DEFINE at == p.owner.at
             d == [y \in {at} |-> EOC]
             u == Patched(table, d)
             v == [table |-> u, entry |-> entry, node |-> w.node]
  <2>1. at \in Clusters /\ u \in [Clusters -> Values] /\ u[at] = EOC /\ CutOff(table, u, entry, {at}, x, h)
    BY <1>6, OwnedCut
  <2>2. PendOK(u, entry, p) /\ PendOK(u, entry, Unowned(p))
    <3> HIDE DEF u
    <3> QED BY <1>1, <2>1, CutPending
  <2>3. {at} \in Groups /\ d \in [{at} -> Values] BY <2>1, SingleGroup, Numbers, Zenon
  <2> HIDE DEF u, d
  <2>4. v.table = u /\ v.entry = entry /\ v.node = w.node OBVIOUS
  <2>5. v \in Worlds BY <1>1, <2>1 DEF Worlds
  <2> HIDE DEF v
  <2>6. Sound(u, entry) BY <2>1 DEF CutOff
  <2>7. Good(v, p) /\ Good(v, Unowned(p)) /\ Good(v, NoPending)
    <3>1. PendOK(u, entry, NoPending) BY NonePending
    <3> QED BY <1>1, <1>2, <1>3, <2>2, <2>4, <2>5, <2>6, <3>1 DEF Good
  <2> DEFINE a == FatStep(p, d, Unowned(p))
  <2>8. Safe(w, a) /\ Landed(w, a) = v
    <3>1. v = [table |-> Patched(w.table, d), entry |-> w.entry, node |-> w.node] BY DEF u, v
    <3> DEFINE r == Unowned(p)
    <3>2. Good(v, r) BY <2>7
    <3> HIDE DEF r, p
    <3>3. Safe(w, FatStep(p, d, r)) /\ Landed(w, FatStep(p, d, r)) = v
      BY <1>4, <2>3, <2>7, <3>1, <3>2, FatStepSafe
    <3> QED BY <3>3 DEF r
  <2>9. CutOff(table, v.table, v.entry, {at}, x, h) BY <2>1, <2>4
  <2> DEFINE s == ReclaimAll(h, x)
  <2>10. RecoverPlan(p) = <<a>> \o s BY <1>6 DEF RecoverPlan, d
  <2> HIDE DEF x, h, a
  <2>11. PICK z \in Worlds : Runs(v, s, z) /\ Good(z, NoPending) BY <2>7, <2>9, ReclaimRuns
  <2> HIDE DEF s
  <2>12. Runs(w, <<a>>, v) BY <2>8, RunsOne
  <2>13. Runs(w, <<a>> \o s, z) BY <2>11, <2>12, RunsJoin
  <2>14. Runs(w, Finished(<<a>> \o s), z) BY <2>11, <2>13, RunsFinish
  <2> QED BY <1>6, <2>10, <2>14
<1> QED BY <1>5, <1>6

-----------------------------------------------------------------------------
(* The steps of the specification. *)

\* An operation that starts with a plan that runs.
LEMMA StartKeeps ==
  ASSUME ChainInv, NEW s, Start(s), UNCHANGED fat12, \E z \in Worlds : Runs(World, s, z)
  PROVE  ChainInv'
<1>1. World' = World /\ pending' = pending /\ steps' = s /\ issued' = FALSE /\ lost' = lost /\ fat12' = fat12
  BY DEF Start, World
<1>2. \E z \in Worlds : Runs(World', steps', z) BY <1>1
<1>3. Good(World', pending') BY <1>1 DEF ChainInv
<1>4. fat12' \in Kinds /\ lost' \in SUBSET Clusters /\ issued' \in BOOLEAN BY <1>1, Zenon DEF ChainInv
<1> QED BY <1>1, <1>2, <1>3, <1>4 DEF ChainInv

\* A node, or nothing, changes while no operation runs.
LEMMA IdleKeeps ==
  ASSUME ChainInv, UNCHANGED fat12, lost' \in SUBSET Clusters, steps' = <<>>, issued' = FALSE, Good(World', pending')
  PROVE  ChainInv'
<1>1. World' \in Worlds BY DEF Good
<1>2. Runs(World', steps', World') BY <1>1, RunsNone
<1> QED BY <1>1, <1>2, Zenon DEF ChainInv

\* Recovery keeps the invariant.
LEMMA RecoverKeeps ==
  ASSUME ChainInv, Recover, UNCHANGED fat12
  PROVE  ChainInv'
<1> DEFINE p == pending
           o == p.owner
           owned == OwnerLinks(p)
           halt == (o.kind = "cut" /\ ~Shrunk(o)) \/ (owned /\ ~IsTail(o))
           s == IF halt THEN <<>> ELSE RecoverPlan(p)
           w == World'
<1>1. /\ node' = Recovered(owned) /\ steps' = Finished(s) /\ issued' = FALSE
      /\ pending' = IF s = <<>> THEN NoPending ELSE IF owned THEN p ELSE Unowned(p)
      /\ table' = table /\ entry' = entry /\ lost' = lost /\ fat12' = fat12
  BY DEF Recover, OwnerLinks, IsTail, RecoverPlan, Unowned
<1>2. Good(World, p) /\ p \in Pendings BY DEF ChainInv, Good
<1>3. /\ table \in [Clusters -> Values] /\ entry \in [Files -> Entries]
      /\ Sound(table, entry) /\ PendOK(table, entry, p)
  BY <1>2, WorldFields
<1>4. owned \in BOOLEAN BY OwnerLinkType
<1>5. o.kind = "removed" => (owned <=> p.head # 0 /\ Links(o, p.head)) BY DEF OwnerLinks, IsTail
<1> HIDE DEF owned
<1>6. node' \in [Files -> Nodes] /\ \A f \in Files : Agree(entry[f], node'[f])
  BY <1>1, <1>2, <1>4, <1>5, RecoveredAgrees
<1>7. w.table = table /\ w.entry = entry /\ w.node = node' /\ w \in Worlds
  BY <1>1, <1>3, <1>6 DEF World, Worlds
<1> HIDE DEF w
<1>8. ASSUME NEW r \in Pendings, PendOK(table, entry, r) PROVE Good(w, r)
  <2>1. NodeOK(table, entry, node', r) BY <1>6, AgreeFits DEF NodeOK
  <2> QED BY <1>3, <1>7, <1>8, <2>1 DEF Good
<1>9. Good(w, NoPending) BY <1>8, PendingType, NonePending
<1>10. fat12' \in Kinds /\ lost' \in SUBSET Clusters BY <1>1 DEF ChainInv
<1>11. CASE halt
  <2>1. s = <<>> BY <1>11
  <2>2. Finished(<<>>) = <<>> BY DEF Finished
  <2>3. steps' = <<>> /\ pending' = NoPending BY <1>1, <2>1, <2>2
  <2> QED BY <1>1, <1>9, <1>10, <2>3, IdleKeeps, Zenon DEF w
<1>12. CASE ~halt
  <2>1. s = RecoverPlan(p) BY <1>12
  <2>2. OwnerLinks(p) => IsTail(o) BY <1>12 DEF owned
  <2>3. /\ ~OwnerLinks(p) => Good(w, Unowned(p))
        /\ \E z \in Worlds : Runs(w, Finished(RecoverPlan(p)), z)
    BY <1>2, <1>6, <1>7, <2>2, RecoverRuns
  <2>4. Good(w, p) BY <1>2, <1>3, <1>8
  <2>5. Good(w, pending') BY <1>1, <1>9, <2>3, <2>4 DEF owned
  <2>6. \E z \in Worlds : Runs(w, steps', z) BY <1>1, <2>1, <2>3
  <2> QED BY <1>1, <1>10, <2>5, <2>6, Zenon DEF ChainInv, w
<1> QED BY <1>11, <1>12

\* After prepare nothing is pending.
LEMMA ReadyGood ==
  ASSUME ChainInv, Ready
  PROVE  Good(World, NoPending)
  BY DEF ChainInv, Ready

\* write finds the clusters that it needs, or none are needed.
LEMMA GrowStarts ==
  ASSUME ChainInv, NEW f \in Files, NEW end \in 1 .. MaxSize, Grow(f, end)
  PROVE  \E from \in Clusters :
            /\ Start(GrowPlan(f, end, from))
            /\ Need(end) - Len(Chain(table, State(f).first)) <= Cardinality({c \in Clusters : table[c] = Free})
<1> DEFINE count == Need(end) - Len(Chain(table, State(f).first))
           room == Cardinality({c \in Clusters : table[c] = Free})
<1>1. Ready /\ entry[f].used /\ Good(World, NoPending) BY ReadyGood DEF Grow
<1>2. PICK from \in Clusters : Start(GrowPlan(f, end, from)) /\ (count <= 0 \/ count <= room)
  <2>1. CASE count <= 0
    <3>1. 2 \in Clusters BY MaxClusterAssumption DEF Clusters
    <3>2. Start(GrowPlan(f, end, 2)) BY <2>1 DEF Grow, GrowPlan
    <3> QED BY <2>1, <3>1, <3>2
  <2>2. CASE ~(count <= 0) BY <2>2, Zenon DEF Grow, GrowPlan
  <2> QED BY <2>1, <2>2, Zenon
<1>3. count <= room
  <2>1. count \in Int
    <3>1. entry \in [Files -> Entries] /\ table \in [Clusters -> Values] /\ Sound(table, entry)
      BY <1>1, WorldFields
    <3>2. State(f).first = entry[f].first BY <1>1, ReadyState
    <3>3. Len(Chain(table, entry[f].first)) \in Nat
      <4>1. CASE entry[f].first = 0
        <5>1. Chain(table, entry[f].first) = <<>> BY <1>1, <3>1, <4>1, FileChain
        <5> QED BY <5>1
      <4>2. CASE entry[f].first # 0 BY <1>1, <3>1, <4>2, FileChain
      <4> QED BY <4>1, <4>2
    <3>4. end \in Nat BY SizeAssumption
    <3>5. Need(end) \in Nat BY <3>4, NeedOne
    <3> QED BY <3>2, <3>3, <3>5
  <2>2. room \in Nat
    <3>1. {c \in Clusters : table[c] = Free} \in SUBSET Clusters OBVIOUS
    <3> QED BY <3>1, ClusterCount, FS_Subset, FS_CardinalityType
  <2> HIDE DEF count, room
  <2> QED BY <1>2, <2>1, <2>2
<1> QED BY <1>2, <1>3, Zenon

\* create keeps the invariant, ...
LEMMA CreateKeeps ==
  ASSUME ChainInv, NEW f \in Files, Create(f), UNCHANGED fat12
  PROVE  ChainInv'
<1> DEFINE s == <<EntryStep(NoPending, f, Entry(0, 0), CleanNode(0, 0), NoPending)>>
<1>1. Start(s) /\ Ready /\ ~entry[f].used BY DEF Create
<1>2. \E z \in Worlds : Runs(World, s, z) BY <1>1, ReadyGood, CreateRuns
<1> HIDE DEF s
<1> QED BY <1>1, <1>2, StartKeeps

\* ... remove_entry, ...
LEMMA UnlinkKeeps ==
  ASSUME ChainInv, NEW f \in Files, Unlink(f), UNCHANGED fat12
  PROVE  ChainInv'
<1> DEFINE first == State(f).first
           held == IF first = 0 THEN NoPending ELSE Held(first, 0, Removed(f))
           s == <<EntryStep(held, f, NoEntry, NoNode, held)>> \o Finished(FreeChain(Chain(table, first)))
<1>1. Start(s) /\ Ready /\ entry[f].used BY DEF Unlink
<1>2. \E z \in Worlds : Runs(World, s, z) BY <1>1, ReadyGood, UnlinkRuns
<1> HIDE DEF s
<1> QED BY <1>1, <1>2, StartKeeps

\* ... close, fsync and sync, ...
LEMMA FlushKeeps ==
  ASSUME ChainInv, NEW f \in Files, FlushNode(f), UNCHANGED fat12
  PROVE  ChainInv'
<1> DEFINE s == <<Store(pending, f, node[f].first, node[f].size, pending)>>
<1>1. Start(s) /\ node[f].dirty /\ entry[f].used BY DEF FlushNode
<1>2. Good(World, pending) BY DEF ChainInv
<1>3. \E z \in Worlds : Runs(World, s, z) BY <1>1, <1>2, FlushRuns
<1> HIDE DEF s
<1> QED BY <1>1, <1>3, StartKeeps

\* ... write, ...
LEMMA GrowKeeps ==
  ASSUME ChainInv, NEW f \in Files, NEW end \in 1 .. MaxSize, Grow(f, end), UNCHANGED fat12
  PROVE  ChainInv'
<1>1. entry[f].used /\ Good(World, NoPending) BY ReadyGood DEF Grow
<1>2. PICK from \in Clusters :
         /\ Start(GrowPlan(f, end, from))
         /\ Need(end) - Len(Chain(table, State(f).first)) <= Cardinality({c \in Clusters : table[c] = Free})
  BY GrowStarts, Zenon
<1>3. \E z \in Worlds : Runs(World, GrowPlan(f, end, from), z) BY <1>1, <1>2, GrowRuns
<1> QED BY <1>2, <1>3, StartKeeps

\* ... and truncate.
LEMMA ShrinkKeeps ==
  ASSUME ChainInv, NEW f \in Files, NEW len \in 0 .. MaxSize - 1, Shrink(f, len), UNCHANGED fat12
  PROVE  ChainInv'
<1>1. Ready /\ entry[f].used /\ Good(World, NoPending) BY ReadyGood DEF Shrink
<1>2. Start(ShrinkPlan(f, len)) BY Zenon DEF Shrink, ShrinkPlan
<1>3. len \in 0 .. MaxSize BY SizeAssumption
<1>4. \E z \in Worlds : Runs(World, ShrinkPlan(f, len), z) BY <1>1, <1>3, ShrinkRuns
<1> QED BY <1>2, <1>4, StartKeeps

\* A pinned node may be anything that agrees with its entry.
LEMMA PinKeeps ==
  ASSUME ChainInv, NEW f \in Files, NEW k \in Nodes, Agree(entry[f], k), Idle,
         node' = [node EXCEPT ![f] = k], UNCHANGED <<fat12, table, entry, pending, steps, lost>>, issued' = FALSE
  PROVE  ChainInv'
<1> DEFINE w == World
<1>1. Good(w, pending) /\ pending \in Pendings /\ lost \in SUBSET Clusters BY DEF ChainInv, Good
<1>2. /\ w.table = table /\ w.entry = entry /\ w.node = node /\ w \in Worlds
      /\ table \in [Clusters -> Values] /\ entry \in [Files -> Entries] /\ node \in [Files -> Nodes]
      /\ Sound(table, entry) /\ PendOK(table, entry, pending) /\ NodeOK(table, entry, node, pending)
  BY <1>1, WorldFields
<1>3. World' \in Worlds BY <1>2 DEF World, Worlds
<1>4. NodeOK(table, entry, node', pending)
  <2> SUFFICES ASSUME NEW g \in Files PROVE NodeFits(table, entry[g], node'[g], pending, g) BY DEF NodeOK
  <2>1. CASE g = f
    <3>1. node'[g] = k BY <1>2, <2>1
    <3> QED BY <2>1, <3>1, AgreeFits
  <2>2. CASE g # f
    <3>1. node'[g] = node[g] BY <1>2, <2>2
    <3> QED BY <1>2, <3>1 DEF NodeOK
  <2> QED BY <2>1, <2>2
<1>5. World'.table = table /\ World'.entry = entry /\ World'.node = node' BY DEF World
<1>6. Good(World', pending') BY <1>1, <1>2, <1>3, <1>4, <1>5 DEF Good
<1>7. steps' = <<>> BY DEF Idle
<1> QED BY <1>1, <1>6, <1>7, IdleKeeps, Zenon

\* Without a running operation no write is on its way.
LEMMA NotIssued ==
  ASSUME ChainInv, Idle
  PROVE  issued = FALSE
  BY DEF ChainInv, Idle

\* lookup keeps the invariant, ...
LEMMA LookupKeeps ==
  ASSUME ChainInv, NEW f \in Files, Lookup(f), UNCHANGED fat12
  PROVE  ChainInv'
<1> DEFINE k == CleanNode(entry[f].first, entry[f].size)
<1>1. Good(World, pending) BY DEF ChainInv
<1>2. entry[f] \in Entries BY <1>1, WorldFields
<1>3. entry[f].first \in Clusters \cup {0} /\ entry[f].size \in 0 .. MaxSize BY <1>2 DEF Entries
<1>4. k \in Nodes BY <1>3, NodeTypes
<1>5. entry[f].used /\ Idle BY DEF Lookup
<1>6. Agree(entry[f], k) BY <1>5 DEF Agree, CleanNode
<1>7. issued' = FALSE BY <1>5, NotIssued DEF Lookup
<1>8. node' = [node EXCEPT ![f] = k] BY DEF Lookup
<1> HIDE DEF k
<1> QED BY <1>4, <1>5, <1>6, <1>7, <1>8, PinKeeps, Zenon DEF Lookup

\* ... and forget.
LEMMA ForgetKeeps ==
  ASSUME ChainInv, NEW f \in Files, Forget(f), UNCHANGED fat12
  PROVE  ChainInv'
<1> DEFINE k == NoNode
<1>1. k \in Nodes /\ Idle BY NodeTypes DEF Forget
<1>2. Agree(entry[f], k) BY DEF Agree, NoNode
<1>3. issued' = FALSE BY <1>1, NotIssued DEF Forget
<1>4. node' = [node EXCEPT ![f] = k] BY DEF Forget
<1> HIDE DEF k
<1> QED BY <1>1, <1>2, <1>3, <1>4, PinKeeps, Zenon DEF Forget

\* The first step of a running operation.
LEMMA FirstStep ==
  ASSUME ChainInv, ~Idle
  PROVE  /\ Safe(World, steps[1]) /\ Head(steps) = steps[1] /\ steps \in Seq(AllSteps)
         /\ \E z \in Worlds : Runs(Landed(World, steps[1]), Tail(steps), z)
<1>1. PICK z \in Worlds : Runs(World, steps, z) BY DEF ChainInv
<1>2. steps # <<>> BY DEF Idle
<1>3. Safe(World, steps[1]) /\ Runs(Landed(World, steps[1]), Tail(steps), z) BY <1>1, <1>2, RunsTail
<1>4. steps \in Seq(AllSteps) BY <1>1 DEF Runs
<1> QED BY <1>2, <1>3, <1>4

\* Sending a write keeps the invariant, ...
LEMMA IssueKeeps ==
  ASSUME ChainInv, Issue, UNCHANGED fat12
  PROVE  ChainInv'
<1>1. ~Idle /\ pending' = Head(steps).pre /\ issued' = TRUE BY DEF Issue
<1>2. Safe(World, steps[1]) /\ Head(steps) = steps[1] BY <1>1, FirstStep
<1>3. World' = World /\ steps' = steps /\ lost' = lost BY DEF Issue, World
<1>4. Good(World', pending') BY <1>1, <1>2, <1>3 DEF Safe
<1>5. \E z \in Worlds : Runs(World', steps', z) BY <1>3 DEF ChainInv
<1>6. steps' # <<>> /\ pending' = steps'[1].pre BY <1>1, <1>2, <1>3 DEF Idle
<1>7. fat12' \in Kinds /\ lost' \in SUBSET Clusters BY <1>3 DEF ChainInv
<1> QED BY <1>1, <1>4, <1>5, <1>6, <1>7 DEF ChainInv

\* ... its success, ...
LEMMA LandKeeps ==
  ASSUME ChainInv, Land, UNCHANGED fat12
  PROVE  ChainInv'
<1>1. ~Idle BY DEF ChainInv, Land, Idle
<1> DEFINE s == steps[1]
<1>2. Safe(World, s) /\ Head(steps) = s BY <1>1, FirstStep
<1>3. PICK z \in Worlds : Runs(Landed(World, s), Tail(steps), z) BY <1>1, FirstStep
<1>4. World.table = table /\ World.entry = entry /\ World.node = node BY DEF World
<1> HIDE DEF s
<1>5. World' = Landed(World, s) BY <1>2, <1>4 DEF Land, Applied, Landed, World
<1>6. pending' = s.post /\ steps' = Tail(steps) /\ issued' = FALSE /\ lost' = lost BY <1>2 DEF Land
<1>7. Good(World', pending') BY <1>2, <1>5, <1>6 DEF Safe
<1>8. Runs(World', steps', z) BY <1>3, <1>5, <1>6
<1>9. fat12' \in Kinds /\ lost' \in SUBSET Clusters BY <1>6 DEF ChainInv
<1> QED BY <1>6, <1>7, <1>8, <1>9, Zenon DEF ChainInv

\* ... a cut before its effect, ...
LEMMA CutBeforeKeeps ==
  ASSUME ChainInv, CutBefore, UNCHANGED fat12
  PROVE  ChainInv'
<1>1. World' = World /\ pending' = pending /\ steps' = <<>> /\ issued' = FALSE /\ lost' = lost
  BY DEF CutBefore, World
<1>2. Good(World', pending') /\ lost' \in SUBSET Clusters BY <1>1 DEF ChainInv
<1> QED BY <1>1, <1>2, IdleKeeps, Zenon

\* ... and one after it, whatever the caller believes.
LEMMA CutAfterKeeps ==
  ASSUME ChainInv, CutAfter, UNCHANGED fat12
  PROVE  ChainInv'
<1>1. ~Idle /\ pending = steps[1].pre BY DEF ChainInv, CutAfter, Idle
<1> DEFINE s == steps[1]
<1>2. Safe(World, s) /\ Head(steps) = s BY <1>1, FirstStep
<1>3. World.table = table /\ World.entry = entry /\ World.node = node BY DEF World
<1>4. pending = s.pre BY <1>1
<1> HIDE DEF s
<1>5. World' = Written(World, s) BY <1>2, <1>3 DEF CutAfter, Applied, Written, World
<1>6. pending' = pending /\ steps' = <<>> /\ issued' = FALSE /\ lost' = lost BY DEF CutAfter
<1>7. Good(World', pending') BY <1>2, <1>4, <1>5, <1>6 DEF Safe
<1>8. lost' \in SUBSET Clusters BY <1>6 DEF ChainInv
<1> QED BY <1>6, <1>7, <1>8, IdleKeeps, Zenon

\* A state without nodes and without pending clusters.
LEMMA EmptyGood ==
  ASSUME NEW t \in [Clusters -> Values], NEW e \in [Files -> Entries], Sound(t, e)
  PROVE  Good([table |-> t, entry |-> e, node |-> [f \in Files |-> NoNode]], NoPending)
<1> DEFINE n == [f \in Files |-> NoNode]
           w == [table |-> t, entry |-> e, node |-> n]
<1>1. w.table = t /\ w.entry = e /\ w.node = n OBVIOUS
<1>2. n \in [Files -> Nodes] BY NodeTypes
<1>3. NodeOK(t, e, n, NoPending)
  <2> SUFFICES ASSUME NEW f \in Files PROVE NodeFits(t, e[f], n[f], NoPending, f) BY DEF NodeOK
  <2>1. Agree(e[f], n[f]) BY DEF Agree, NoNode
  <2> HIDE DEF n
  <2> QED BY <2>1, AgreeFits
<1> HIDE DEF n
<1>4. w \in Worlds BY <1>2 DEF Worlds
<1> HIDE DEF w
<1>5. Good(w, NoPending) BY <1>1, <1>3, <1>4, PendingType, NonePending DEF Good
<1> QED BY <1>5 DEF w, n

\* A mount starts from any disk that the driver leaves.
LEMMA RemountKeeps ==
  ASSUME ChainInv, Remount, UNCHANGED fat12
  PROVE  ChainInv'
<1>1. Good(World, pending) BY DEF ChainInv
<1>2. table \in [Clusters -> Values] /\ entry \in [Files -> Entries] /\ Sound(table, entry)
  BY <1>1, WorldFields
<1>3. World' = [table |-> table, entry |-> entry, node |-> [f \in Files |-> NoNode]] BY DEF Remount, World
<1>4. pending' = NoPending /\ steps' = <<>> /\ issued' = FALSE BY DEF Remount
<1>5. Good(World', pending') BY <1>2, <1>3, <1>4, EmptyGood
<1>6. lost' \in SUBSET Clusters
  <2>1. lost' = Unreachable BY DEF Remount
  <2> QED BY <2>1 DEF Unreachable
<1> QED BY <1>4, <1>5, <1>6, IdleKeeps, Zenon

\* The invariant holds at first, ...
LEMMA InitHolds ==
  ASSUME Init
  PROVE  ChainInv
<1>1. table \in [Clusters -> Values] /\ \A c \in Clusters : table[c] = Free BY Numbers DEF Init
<1>2. entry \in [Files -> Entries] /\ \A f \in Files : ~entry[f].used BY NodeTypes DEF Init, NoEntry
<1>3. Sound(table, entry) BY <1>1, <1>2, Numbers DEF Sound
<1>4. World = [table |-> table, entry |-> entry, node |-> [f \in Files |-> NoNode]] BY DEF Init, World
<1>5. Good(World, pending) BY <1>1, <1>2, <1>3, <1>4, EmptyGood DEF Init
<1>6. World \in Worlds BY <1>5 DEF Good
<1>7. Runs(World, steps, World) BY <1>6, RunsNone DEF Init
<1> QED BY <1>5, <1>6, <1>7, Zenon DEF ChainInv, Init

\* ... and every step keeps it.
LEMMA NextKeeps ==
  ASSUME ChainInv, [Next]_vars
  PROVE  ChainInv'
<1>1. CASE UNCHANGED vars
  <2>1. World' = World BY <1>1 DEF vars, World
  <2>2. /\ fat12' = fat12 /\ pending' = pending /\ steps' = steps /\ issued' = issued /\ lost' = lost
    BY <1>1 DEF vars
  <2> QED BY <2>1, <2>2 DEF ChainInv
<1>2. CASE Next
  <2> USE <1>2 DEF Next
  <2>1. CASE \E f \in Files : Create(f) BY <2>1, CreateKeeps
  <2>2. CASE \E f \in Files : Unlink(f) BY <2>2, UnlinkKeeps
  <2>3. CASE \E f \in Files : FlushNode(f) BY <2>3, FlushKeeps
  <2>4. CASE \E f \in Files : Lookup(f) BY <2>4, LookupKeeps
  <2>5. CASE \E f \in Files : Forget(f) BY <2>5, ForgetKeeps
  <2>6. CASE \E f \in Files, size \in 1 .. MaxSize : Grow(f, size) BY <2>6, GrowKeeps
  <2>7. CASE \E f \in Files, size \in 0 .. MaxSize - 1 : Shrink(f, size) BY <2>7, ShrinkKeeps
  <2>8. CASE Recover BY <2>8, RecoverKeeps
  <2>9. CASE Issue BY <2>9, IssueKeeps
  <2>10. CASE Land BY <2>10, LandKeeps
  <2>11. CASE CutBefore BY <2>11, CutBeforeKeeps
  <2>12. CASE CutAfter BY <2>12, CutAfterKeeps
  <2>13. CASE Remount BY <2>13, RemountKeeps
  <2> QED BY <2>1, <2>2, <2>3, <2>4, <2>5, <2>6, <2>7, <2>8, <2>9, <2>10, <2>11, <2>12, <2>13 DEF Step
<1> QED BY <1>1, <1>2

-----------------------------------------------------------------------------
(* The theorems. *)

\* A set without two different elements.
LEMMA AtMostOne ==
  ASSUME NEW S, \A x, y \in S : x = y
  PROVE  Cardinality(S) \in Nat /\ Cardinality(S) <= 1 /\ (S = {} => Cardinality(S) = 0)
<1>1. CASE S = {} BY <1>1, FS_EmptySet
<1>2. CASE S # {}
  <2>1. PICK x : S = {x} BY <1>2
  <2> QED BY <1>2, <2>1, FS_Singleton
<1> QED BY <1>1, <1>2

\* ChainsSound, from the claims that do not count.
LEMMA SoundChains ==
  ASSUME table \in [Clusters -> Values], entry \in [Files -> Entries], Sound(table, entry)
  PROVE  ChainsSound
<1>1. NoDanglingLinks BY DEF NoDanglingLinks, Sound
<1>2. ASSUME NEW c \in Clusters
      PROVE  Cardinality({d \in Clusters : table[d] = c})
               + Cardinality({f \in Files : entry[f].used /\ entry[f].first = c}) <= 1
  <2> DEFINE D == {d \in Clusters : table[d] = c}
             F == {f \in Files : entry[f].used /\ entry[f].first = c}
  <2>1. \A x, y \in D : x = y BY DEF Sound
  <2>2. c # 0 BY Numbers
  <2>3. \A x, y \in F : x = y BY <2>2 DEF Sound
  <2>4. D = {} \/ F = {} BY <2>2 DEF Sound
  <2> HIDE DEF D, F
  <2>5. Cardinality(D) \in Nat /\ Cardinality(D) <= 1 /\ (D = {} => Cardinality(D) = 0) BY <2>1, AtMostOne
  <2>6. Cardinality(F) \in Nat /\ Cardinality(F) <= 1 /\ (F = {} => Cardinality(F) = 0) BY <2>3, AtMostOne
  <2>7. Cardinality(D) + Cardinality(F) <= 1 BY <2>4, <2>5, <2>6
  <2> QED BY <2>7 DEF D, F
<1>3. NoCrossLinks BY <1>2 DEF NoCrossLinks
<1> QED BY <1>1, <1>3 DEF ChainsSound

\* The invariant implies what is claimed.
LEMMA InvGives ==
  ASSUME ChainInv
  PROVE  TypeOK /\ ChainsSound
<1>1. Good(World, pending) BY DEF ChainInv
<1>2. /\ table \in [Clusters -> Values] /\ entry \in [Files -> Entries] /\ node \in [Files -> Nodes]
      /\ Sound(table, entry)
  BY <1>1, WorldFields
<1>3. pending \in Pendings BY <1>1 DEF Good
<1>4. TypeOK BY <1>2, <1>3 DEF TypeOK, ChainInv, Entries, Nodes, Pendings
<1> QED BY <1>2, <1>4, SoundChains

\* "An interruption never leaves a cross-linked or dangling chain": at every
\* instant of write, truncate, unlink, create, fsync and recovery, so wherever
\* they are cut, every link leads to a cluster in use and no cluster has two.
\* For any number of clusters and files, any placement of the entries on the
\* device, both kinds of FAT and every choice of Windows.
THEOREM ChainsAreSound == Spec => [](TypeOK /\ ChainsSound)
<1>1. Init => ChainInv BY InitHolds
<1>2. ChainInv /\ [Next]_vars => ChainInv' BY NextKeeps
<1>3. ChainInv => TypeOK /\ ChainsSound BY InvGives
<1> QED BY <1>1, <1>2, <1>3, PTL DEF Spec

\* The write on its way changes the entries of one group.
LEMMA WriteGrouped ==
  ASSUME ChainInv, issued, Applied(Head(steps))
  PROVE  [TableNext]_table
<1>1. ~Idle BY DEF ChainInv, Idle
<1> DEFINE s == steps[1]
<1>2. Safe(World, s) /\ Head(steps) = s BY <1>1, FirstStep
<1>3. table \in [Clusters -> Values]
  <2>1. Good(World, pending) BY DEF ChainInv
  <2> QED BY <2>1, WorldFields
<1> HIDE DEF s
<1>4. CASE s.kind = "fat"
  <2>1. s \in FatSteps BY <1>2, <1>4 DEF Safe, AllSteps, EntrySteps, DataSteps
  <2>2. PICK D \in Groups : s.patch \in [D -> Values] BY <2>1 DEF FatSteps, Patches
  <2>3. table' = Patched(table, s.patch) BY <1>2, <1>4 DEF Applied
  <2>4. D \in SUBSET Clusters BY DEF Groups
  <2> DEFINE d == s.patch
  <2> HIDE DEF d
  <2>5. d \in [D -> Values] /\ table' = [c \in Clusters |-> IF c \in D THEN d[c] ELSE table[c]]
    BY <2>2, <2>3 DEF Patched, d
  <2>6. Write(D) BY <1>3, <2>5 DEF Write
  <2> QED BY <2>6 DEF TableNext
<1>5. CASE s.kind # "fat" BY <1>2, <1>5 DEF Applied
<1> QED BY <1>4, <1>5

\* Nothing else writes the table.
LEMMA StepGrouped ==
  ASSUME ChainInv, [Next]_vars
  PROVE  [TableNext]_table
<1>1. CASE UNCHANGED vars BY <1>1 DEF vars
<1>2. CASE Next
  <2>1. CASE Land BY <2>1, WriteGrouped DEF Land
  <2>2. CASE CutAfter BY <2>2, WriteGrouped DEF CutAfter
  <2>3. CASE \E f \in Files : Create(f) \/ Unlink(f) \/ FlushNode(f) \/ Lookup(f) \/ Forget(f)
    BY <2>3 DEF Create, Unlink, FlushNode, Lookup, Forget, Start
  <2>4. CASE \E f \in Files, size \in 1 .. MaxSize : Grow(f, size)
    BY Zenon, <2>4 DEF Grow, Start
  <2>5. CASE \E f \in Files, size \in 0 .. MaxSize - 1 : Shrink(f, size)
    BY Zenon, <2>5 DEF Shrink, Start
  <2>6. CASE Recover BY Zenon, <2>6 DEF Recover
  <2>7. CASE Issue \/ CutBefore \/ Remount BY <2>7 DEF Issue, CutBefore, Remount
  <2> QED BY Zenon, <1>2, <2>1, <2>2, <2>3, <2>4, <2>5, <2>6, <2>7 DEF Next, Step
<1> QED BY <1>1, <1>2

\* The driver writes the table only as FatTable can do in one device write per
\* copy, so that the chains rest on what that module promises: the refinement
\* of ClusterTable, for every value of the constants.
THEOREM WritesAreGrouped == Spec => GroupWrites
<1>1. Init => TableInit BY DEF Init, TableInit
<1>2. Init => ChainInv BY InitHolds
<1>3. ChainInv /\ [Next]_vars => ChainInv' BY NextKeeps
<1>4. ChainInv /\ [Next]_vars => [TableNext]_table BY StepGrouped
<1> QED BY <1>1, <1>2, <1>3, <1>4, PTL DEF Spec, GroupWrites, TableSpec
=============================================================================
