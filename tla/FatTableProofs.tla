--------------------------- MODULE FatTableProofs ---------------------------
(***************************************************************************)
(* Mirrors and free count of FatTable, for every number of clusters and    *)
(* copies and every choice of spanning entries.                            *)
(***************************************************************************)
EXTENDS FatTable, FiniteSetTheorems, TLAPS

\* The active copy has a half-written entry only while `split` says so.
TornIsKnown ==
    \A c \in Clusters : fat[Active][c] = Torn => split.cluster = c

\* An entry recorded as split is the one being written, and is due a mirror.
SplitInv ==
    split # NoSplit =>
        /\ split.cluster \in unmirrored
        /\ ~Idle => Active \in write.todo /\ write.half /\ DOMAIN write.patch = {split.cluster}

\* How far a write in progress has got: nothing outside its entries differs
\* between the copies, and the copies done hold what it writes.
WriteInv ==
    ~Idle =>
        /\ Active \in write.todo => write.todo = Copies
        /\ Active \in write.todo /\ write.half => split # NoSplit
        /\ \A k \in Copies, c \in Clusters \ DOMAIN write.patch : fat[k][c] = fat[Active][c]
        /\ \A k \in Copies \ write.todo, c \in DOMAIN write.patch : fat[k][c] = write.patch[c]
        /\ Mirrored => DOMAIN write.patch \subseteq unmirrored

MirrorInv == TypeOK /\ CopiesAgree /\ TornIsKnown /\ SplitInv /\ WriteInv

\* The free clusters, where a split entry counts as what it was before.
Uncounted == {c \in Clusters : WasFree(c)}

\* A count a scan made is never below the clusters it has to account for.
CountInv == counted /\ free # Unknown => Cardinality(Uncounted) <= free

\* A patched table keeps its type and changes at the patch's entries only.
LEMMA PatchedFact ==
    ASSUME NEW table, NEW patch
    PROVE  /\ DOMAIN Patched(table, patch) = Clusters
           /\ \A c \in Clusters : Patched(table, patch)[c] = IF c \in DOMAIN patch THEN patch[c] ELSE table[c]
  BY DEF Patched

\* Writing a patch to one copy leaves the other copies alone.
LEMMA PutFact ==
    ASSUME TypeOK, NEW k \in Copies, NEW patch, DOMAIN patch \subseteq Clusters,
           \A c \in DOMAIN patch : patch[c] \in Values \cup {Torn},
           fat' = [fat EXCEPT ![k] = Patched(@, patch)]
    PROVE  /\ fat' \in [Copies -> [Clusters -> Values \cup {Torn}]]
           /\ \A c \in DOMAIN patch : fat'[k][c] = patch[c]
           /\ \A c \in Clusters \ DOMAIN patch : fat'[k][c] = fat[k][c]
           /\ \A j \in Copies \ {k} : fat'[j] = fat[j]
  <1>1. Patched(fat[k], patch) \in [Clusters -> Values \cup {Torn}]
    BY DEF TypeOK, Patched
  <1>2. fat' = [fat EXCEPT ![k] = Patched(fat[k], patch)]
    OBVIOUS
  <1> HIDE DEF Patched
  <1>3. fat'[k] = Patched(fat[k], patch) /\ \A j \in Copies \ {k} : fat'[j] = fat[j]
    BY <1>2 DEF TypeOK
  <1>4. fat' \in [Copies -> [Clusters -> Values \cup {Torn}]]
    BY <1>1, <1>2 DEF TypeOK
  <1> QED
    BY <1>3, <1>4, PatchedFact

\* The same for a single entry.
LEMMA PutOne ==
    ASSUME TypeOK, NEW k \in Copies, NEW c \in Clusters, NEW v \in Values \cup {Torn},
           fat' = [fat EXCEPT ![k] = Patched(@, [x \in {c} |-> v])]
    PROVE  /\ fat' \in [Copies -> [Clusters -> Values \cup {Torn}]]
           /\ fat'[k][c] = v
           /\ \A x \in Clusters \ {c} : fat'[k][x] = fat[k][x]
           /\ \A j \in Copies \ {k} : fat'[j] = fat[j]
  <1> DEFINE Q == [x \in {c} |-> v]
  <1>1. DOMAIN Q = {c} /\ Q[c] = v
    OBVIOUS
  <1>2. fat' = [fat EXCEPT ![k] = Patched(@, Q)]
    OBVIOUS
  <1> HIDE DEF Q
  <1>3. DOMAIN Q \subseteq Clusters /\ \A x \in DOMAIN Q : Q[x] \in Values \cup {Torn}
    BY <1>1
  <1>4. /\ fat' \in [Copies -> [Clusters -> Values \cup {Torn}]]
        /\ \A x \in DOMAIN Q : fat'[k][x] = Q[x]
        /\ \A x \in Clusters \ DOMAIN Q : fat'[k][x] = fat[k][x]
        /\ \A j \in Copies \ {k} : fat'[j] = fat[j]
    BY <1>2, <1>3, PutFact
  <1> QED
    BY <1>1, <1>4

LEMMA InitMirror == Init => MirrorInv
  <1> SUFFICES ASSUME Init PROVE MirrorInv
    OBVIOUS
  <1>1. PICK table \in [Clusters -> {Free, EOC}] : fat = [k \in Copies |-> table]
    BY DEF Init
  <1>2. Torn \notin Values /\ Torn \notin {Free, EOC}
    BY MaxClusterAssumption DEF Torn, Values, Free, EOC, Clusters
  <1>3. Idle
    BY DEF Init, NoWrite, Idle
  <1> QED
    BY <1>1, <1>2, <1>3, CopiesAssumption, MaxClusterAssumption DEF Init, MirrorInv, TypeOK, CopiesAgree,
       TornIsKnown, SplitInv, WriteInv, NoWrite, Values, Total, Unknown

LEMMA Constants ==
    /\ Torn \notin Values /\ 0 \notin Clusters /\ NoSplit.cluster = 0 /\ ~NoSplit.wasFree
    /\ IsFiniteSet(Clusters) /\ Cardinality(Clusters) = Total
    /\ Clusters \subseteq Nat /\ Total \in Nat
  <1>1. IsFiniteSet(2 .. MaxCluster) /\ Cardinality(2 .. MaxCluster) = MaxCluster - 1
    BY FS_Interval, MaxClusterAssumption
  <1> QED
    BY <1>1, MaxClusterAssumption DEF Torn, Values, Free, EOC, Clusters, NoSplit, Total

LEMMA PatchType ==
    ASSUME NEW patch, IsPatch(patch)
    PROVE  /\ DOMAIN patch # {} /\ DOMAIN patch \subseteq Clusters
           /\ \A c \in DOMAIN patch : patch[c] \in Values \cup {Torn}
           /\ \A c \in DOMAIN patch : patch[c] # Torn
           /\ DOMAIN patch \subseteq Hull(DOMAIN patch) /\ Hull(DOMAIN patch) \subseteq Clusters
  <1>1. DOMAIN patch # {} /\ DOMAIN patch \subseteq Clusters
    BY DEF IsPatch, Groups
  <1>2. \A c \in DOMAIN patch : patch[c] \in Values
    BY DEF IsPatch
  <1>3. \A c \in DOMAIN patch : c \in Clusters /\ c <= c
    BY <1>1, MaxClusterAssumption DEF Clusters
  <1> QED
    BY <1>1, <1>2, <1>3, Constants DEF Hull

LEMMA CountsAreNat ==
    ASSUME NEW patch, DOMAIN patch \subseteq Clusters
    PROVE  /\ IsFiniteSet(FreedBy(patch)) /\ Cardinality(FreedBy(patch)) \in Nat
           /\ IsFiniteSet(TakenBy(patch)) /\ Cardinality(TakenBy(patch)) \in Nat
  <1>1. FreedBy(patch) \subseteq Clusters /\ TakenBy(patch) \subseteq Clusters
    BY DEF FreedBy, TakenBy
  <1> QED
    BY <1>1, Constants, FS_Subset, FS_CardinalityType

LEMMA AdjustedType ==
    ASSUME free \in Unknown .. Total, NEW f \in Nat, NEW t \in Nat
    PROVE  Adjusted(f, t) \in Unknown .. Total
  BY Constants DEF Adjusted, Unknown

\* A scan counts a torn entry as free or not, and never more than there are.
LEMMA CountsType == ASSUME TypeOK PROVE Counts \subseteq 0 .. Total
  <1>1. FreeSet \subseteq Clusters /\ IsFiniteSet(FreeSet) /\ Cardinality(FreeSet) \in Nat
        /\ Cardinality(FreeSet) <= Total
    BY Constants, FS_Subset, FS_CardinalityType DEF FreeSet, FreeIn
  <1>2. ASSUME NEW c \in Clusters, fat[Active][c] = Torn
        PROVE  Cardinality(FreeSet) + 1 <= Total
    <2>1. c \notin FreeSet
      BY <1>2, Constants DEF FreeSet, FreeIn, Values
    <2>2. FreeSet \cup {c} \subseteq Clusters /\ IsFiniteSet(FreeSet \cup {c})
          /\ Cardinality(FreeSet \cup {c}) = Cardinality(FreeSet) + 1
      BY <1>1, <2>1, FS_AddElement
    <2>3. Cardinality(FreeSet \cup {c}) <= Cardinality(Clusters)
      BY <2>2, Constants, FS_Subset
    <2> QED
      BY <2>2, <2>3, Constants
  <1> QED
    BY <1>1, <1>2, Constants DEF Counts

\* The mirrors, the torn entries and the write in progress, for each step.
LEMMA MirrorStep == ASSUME MirrorInv, [Next]_tableVars PROVE MirrorInv'
  <1> USE CopiesAssumption, SpanningAssumption
  <1> DEFINE P == write.patch
  <1>1. ASSUME NEW S \in Groups, NEW patch \in [S -> Values], StartWrite(patch)
        PROVE  MirrorInv'
    <2>1. IsPatch(patch)
      BY <1>1 DEF IsPatch
    <2>2. ~Idle'
      BY <1>1 DEF StartWrite, Idle
    <2>3. write' = [patch |-> patch, todo |-> Copies, half |-> FALSE]
      BY <1>1 DEF StartWrite
    <2>4. TypeOK'
      BY <1>1, <2>1, <2>3, PatchType DEF StartWrite, MirrorInv, TypeOK
    <2>5. WriteInv'
      BY <1>1, <2>1, <2>3, PatchType DEF StartWrite, MirrorInv, WriteInv, CopiesAgree
    <2>6. CopiesAgree' /\ TornIsKnown' /\ SplitInv'
      BY <1>1, <2>1, <2>3, PatchType DEF StartWrite, MirrorInv, CopiesAgree, TornIsKnown, SplitInv, Mirrored
    <2> QED
      BY <2>4, <2>5, <2>6 DEF MirrorInv
  <1>2. CASE PutHalf
    <2>1. PICK k \in write.todo :
                /\ NextCopy(k) /\ IsSplit(P) /\ ~write.half
                /\ write' = [write EXCEPT !.half = TRUE]
                /\ \E c \in DOMAIN P :
                      /\ \E half \in {fat[k][c], Torn} : fat' = [fat EXCEPT ![k] = Patched(@, [x \in {c} |-> half])]
                      /\ IF k = Active
                         THEN /\ split' = [cluster |-> c, value |-> P[c], wasFree |-> WasFree(c)]
                              /\ unmirrored' = {c}
                         ELSE UNCHANGED <<split, unmirrored>>
                /\ UNCHANGED <<free, counted>>
      BY <1>2 DEF PutHalf
    <2>2. PICK c \in DOMAIN P :
                /\ \E half \in {fat[k][c], Torn} : fat' = [fat EXCEPT ![k] = Patched(@, [x \in {c} |-> half])]
                /\ IF k = Active
                   THEN /\ split' = [cluster |-> c, value |-> P[c], wasFree |-> WasFree(c)]
                        /\ unmirrored' = {c}
                   ELSE UNCHANGED <<split, unmirrored>>
      BY <2>1
    <2>3. PICK half \in {fat[k][c], Torn} : fat' = [fat EXCEPT ![k] = Patched(@, [x \in {c} |-> half])]
      BY <2>2
    <2>4. ~Idle /\ IsPatch(P) /\ k \in Copies
      BY <2>1 DEF Idle, MirrorInv, TypeOK
    <2>5. c \in Spanning /\ c \in Clusters /\ DOMAIN P = {c}
      BY <2>1, <2>2 DEF IsSplit
    <2>7. half \in Values \cup {Torn}
      BY <2>3, <2>4, <2>5 DEF MirrorInv, TypeOK
    <2>8. /\ fat' \in [Copies -> [Clusters -> Values \cup {Torn}]]
          /\ fat'[k][c] = half
          /\ \A x \in Clusters \ {c} : fat'[k][x] = fat[k][x]
          /\ \A j \in Copies \ {k} : fat'[j] = fat[j]
      BY <2>3, <2>4, <2>5, <2>7, PutOne DEF MirrorInv
    <2>9. split = NoSplit
      BY <2>1, <2>4 DEF MirrorInv, SplitInv
    <2>10. write'.todo = write.todo /\ write'.half /\ write'.patch = P /\ ~Idle'
      BY <2>1, <2>4 DEF Idle, MirrorInv, TypeOK
    <2>11. k # Active => Active \notin write.todo /\ Mirrored
      BY <2>1, <2>4 DEF NextCopy, Mirrored
    <2>12. WasFree(c) \in BOOLEAN
      BY <2>9, <2>5, Constants DEF WasFree
    <2>13. /\ k = Active => split' \in [cluster : Spanning, value : Values, wasFree : BOOLEAN]
           /\ k = Active => split'.cluster = c /\ split' # NoSplit /\ unmirrored' = {c}
           /\ k # Active => split' = NoSplit /\ unmirrored' = unmirrored
      BY <2>2, <2>4, <2>5, <2>9, <2>12, Constants DEF IsPatch
    <2>14. TypeOK'
      <3>1. write'.todo \subseteq Copies /\ write'.half \in BOOLEAN /\ IsPatch(write'.patch)
        BY <2>4, <2>10 DEF MirrorInv, TypeOK
      <3>2. unmirrored' \subseteq Clusters
        BY <2>13, <2>5 DEF MirrorInv, TypeOK
      <3>3. free' \in Unknown .. Total /\ counted' \in BOOLEAN
        BY <2>1 DEF MirrorInv, TypeOK
      <3> QED
        BY <3>1, <3>2, <3>3, <2>8, <2>13 DEF TypeOK
    <2>15. CopiesAgree'
      <3>1. CASE k = Active
        BY <3>1, <2>4, <2>5, <2>8, <2>13 DEF MirrorInv, WriteInv, CopiesAgree
      <3>2. CASE k # Active
        BY <3>2, <2>4, <2>5, <2>8, <2>11, <2>13 DEF MirrorInv, WriteInv, CopiesAgree
      <3> QED
        BY <3>1, <3>2
    <2>16. TornIsKnown'
      <3>1. \A x \in Clusters : fat[Active][x] # Torn
        BY <2>9, Constants DEF MirrorInv, TornIsKnown
      <3> QED
        BY <3>1, <2>5, <2>8, <2>13 DEF TornIsKnown
    <2>17. SplitInv'
      BY <2>1, <2>5, <2>10, <2>13 DEF SplitInv
    <2>18. WriteInv'
      BY <2>4, <2>5, <2>8, <2>10, <2>11, <2>13 DEF MirrorInv, WriteInv, Mirrored
    <2> QED
      BY <2>14, <2>15, <2>16, <2>17, <2>18 DEF MirrorInv
  <1>3. CASE PutCopy
    <2>1. PICK k \in write.todo :
                /\ NextCopy(k) /\ (IsSplit(P) => write.half)
                /\ fat' = [fat EXCEPT ![k] = Patched(@, P)]
                /\ IF k = Active
                   THEN /\ free' = Adjusted(Cardinality(FreedBy(P)), Cardinality(TakenBy(P)))
                        /\ split' = NoSplit
                   ELSE UNCHANGED <<free, split>>
                /\ IF write.todo = {k}
                   THEN write' = NoWrite /\ unmirrored' = {}
                   ELSE /\ write' = [write EXCEPT !.todo = @ \ {k}, !.half = FALSE]
                        /\ UNCHANGED unmirrored
                /\ UNCHANGED counted
      BY <1>3 DEF PutCopy
    <2>2. ~Idle /\ IsPatch(P) /\ k \in Copies
      BY <2>1 DEF Idle, MirrorInv, TypeOK
    <2>3. /\ fat' \in [Copies -> [Clusters -> Values \cup {Torn}]]
          /\ \A x \in DOMAIN P : fat'[k][x] = P[x]
          /\ \A x \in Clusters \ DOMAIN P : fat'[k][x] = fat[k][x]
          /\ \A j \in Copies \ {k} : fat'[j] = fat[j]
      BY <2>1, <2>2, PatchType, PutFact DEF MirrorInv
    <2>4. k # Active => Active \notin write.todo /\ Mirrored /\ split = NoSplit
      BY <2>1, <2>2 DEF NextCopy, Mirrored, MirrorInv, SplitInv
    <2>5. split' = NoSplit
      BY <2>1, <2>4
    <2>6. \A x \in Clusters : fat'[Active][x] # Torn
      <3>1. CASE k = Active
        <4>1. \A x \in Clusters \ DOMAIN P : fat[Active][x] # Torn
          BY <3>1, <2>1, <2>2, Constants DEF MirrorInv, TornIsKnown, SplitInv
        <4> QED
          BY <3>1, <4>1, <2>2, <2>3, PatchType
      <3>2. CASE k # Active
        BY <3>2, <2>3, <2>4, Constants DEF MirrorInv, TornIsKnown
      <3> QED
        BY <3>1, <3>2
    <2>7. free' \in Unknown .. Total /\ counted' \in BOOLEAN
      <3>1. Cardinality(FreedBy(P)) \in Nat /\ Cardinality(TakenBy(P)) \in Nat
        BY <2>2, PatchType, CountsAreNat
      <3>2. free \in Unknown .. Total /\ counted \in BOOLEAN
        BY DEF MirrorInv, TypeOK
      <3> HIDE DEF P
      <3>3. Adjusted(Cardinality(FreedBy(P)), Cardinality(TakenBy(P))) \in Unknown .. Total
        BY <3>1, <3>2, AdjustedType
      <3> QED
        BY <2>1, <3>2, <3>3
    <2>8. CASE write.todo = {k}
      <3>a. write' = NoWrite /\ unmirrored' = {}
        BY <2>1, <2>8
      <3>1. write'.todo = {} /\ write'.half = FALSE /\ unmirrored' = {} /\ Idle'
        BY <3>a DEF NoWrite, Idle
      <3>2. \A j \in Copies, x \in Clusters : fat'[j][x] = fat'[Active][x]
        <4>1. \A j \in Copies, x \in DOMAIN P : fat'[j][x] = P[x]
          BY <2>2, <2>3, <2>8 DEF MirrorInv, WriteInv
        <4>2. \A j \in Copies, x \in Clusters \ DOMAIN P : fat'[j][x] = fat[Active][x]
          BY <2>2, <2>3 DEF MirrorInv, WriteInv
        <4> QED
          BY <4>1, <4>2
      <3> QED
        BY <3>1, <3>2, <2>3, <2>5, <2>6, <2>7
        DEF MirrorInv, TypeOK, CopiesAgree, TornIsKnown, SplitInv, WriteInv
    <2>9. CASE write.todo # {k}
      <3>a. write' = [write EXCEPT !.todo = @ \ {k}, !.half = FALSE] /\ unmirrored' = unmirrored
        BY <2>1, <2>9
      <3>1. write'.todo = write.todo \ {k} /\ write'.half = FALSE /\ write'.patch = P
            /\ unmirrored' = unmirrored
        BY <3>a DEF MirrorInv, TypeOK
      <3>2. TypeOK'
        BY <3>1, <2>2, <2>3, <2>5, <2>7 DEF MirrorInv, TypeOK
      <3>3. Mirrored /\ Active \notin write'.todo
        BY <3>1, <2>1, <2>2, <2>9 DEF MirrorInv, TypeOK, NextCopy, Mirrored
      <3>4. \A j \in Copies, x \in Clusters \ DOMAIN P : fat'[j][x] = fat'[Active][x]
        BY <2>2, <2>3 DEF MirrorInv, WriteInv
      <3>5. \A j \in Copies \ write'.todo, x \in DOMAIN P : fat'[j][x] = P[x]
        BY <3>1, <2>2, <2>3 DEF MirrorInv, WriteInv
      <3>6. WriteInv'
        BY <3>1, <3>3, <3>4, <3>5, <2>2 DEF MirrorInv, WriteInv, Mirrored
      <3>7. CopiesAgree'
        BY <3>1, <3>3, <3>4, <2>2 DEF MirrorInv, WriteInv, CopiesAgree
      <3> QED
        BY <3>2, <3>6, <3>7, <2>5, <2>6 DEF MirrorInv, TornIsKnown, SplitInv
    <2> QED
      BY <2>8, <2>9
  <1>4. CASE CutBefore
    BY <1>4 DEF CutBefore, MirrorInv, TypeOK, CopiesAgree, TornIsKnown, SplitInv, WriteInv, NoWrite, Idle
  <1>5. CASE CutAfter
    <2>1. PICK k \in write.todo :
                /\ NextCopy(k) /\ (IsSplit(P) => write.half)
                /\ fat' = [fat EXCEPT ![k] = Patched(@, P)]
                /\ write' = NoWrite
                /\ UNCHANGED <<unmirrored, split, free, counted>>
      BY <1>5 DEF CutAfter
    <2>2. ~Idle /\ IsPatch(P) /\ k \in Copies
      BY <2>1 DEF Idle, MirrorInv, TypeOK
    <2>3. /\ fat' \in [Copies -> [Clusters -> Values \cup {Torn}]]
          /\ \A x \in DOMAIN P : fat'[k][x] = P[x]
          /\ \A x \in Clusters \ DOMAIN P : fat'[k][x] = fat[k][x]
          /\ \A j \in Copies \ {k} : fat'[j] = fat[j]
      BY <2>1, <2>2, PatchType, PutFact DEF MirrorInv
    <2>4. write'.todo = {} /\ write'.half = FALSE /\ Idle'
      BY <2>1 DEF NoWrite, Idle
    <2>5. TypeOK' /\ SplitInv' /\ WriteInv'
      BY <2>1, <2>3, <2>4 DEF MirrorInv, TypeOK, SplitInv, WriteInv
    <2>6. CopiesAgree'
      BY <2>1, <2>2, <2>3 DEF MirrorInv, CopiesAgree, WriteInv, Mirrored
    <2>7. TornIsKnown'
      BY <2>1, <2>2, <2>3, PatchType DEF MirrorInv, TornIsKnown
    <2> QED
      BY <2>5, <2>6, <2>7 DEF MirrorInv
  <1>6. CASE CompleteSplit
    <2> DEFINE c == split.cluster
               Q == [x \in {c} |-> split.value]
    <2>1. /\ Idle /\ split # NoSplit
          /\ fat' = [fat EXCEPT ![Active] = Patched(@, Q)]
          /\ free' = Adjusted(Cardinality(FreedBy(Q)), Cardinality(TakenBy(Q)))
          /\ split' = NoSplit
          /\ UNCHANGED <<unmirrored, counted, write>>
      BY <1>6 DEF CompleteSplit
    <2>2. c \in Clusters /\ split.value \in Values /\ c \in unmirrored
      BY <2>1 DEF MirrorInv, TypeOK, SplitInv
    <2>3. DOMAIN Q = {c} /\ Q[c] = split.value
      OBVIOUS
    <2> HIDE DEF Q
    <2>4. /\ fat' \in [Copies -> [Clusters -> Values \cup {Torn}]]
          /\ fat'[Active][c] = split.value
          /\ \A x \in Clusters \ {c} : fat'[Active][x] = fat[Active][x]
          /\ \A j \in Copies \ {Active} : fat'[j] = fat[j]
      BY <2>1, <2>2, PutOne DEF MirrorInv, Q
    <2>5. free' \in Unknown .. Total
      BY <2>1, <2>2, <2>3, CountsAreNat, AdjustedType DEF MirrorInv, TypeOK
    <2>6. TypeOK' /\ SplitInv' /\ WriteInv'
      BY <2>1, <2>4, <2>5 DEF MirrorInv, TypeOK, SplitInv, WriteInv, Idle
    <2>7. CopiesAgree'
      BY <2>1, <2>2, <2>4 DEF MirrorInv, CopiesAgree
    <2>8. TornIsKnown'
      BY <2>1, <2>2, <2>4, Constants DEF MirrorInv, TornIsKnown
    <2> QED
      BY <2>6, <2>7, <2>8 DEF MirrorInv
  <1>7. CASE CompleteSplitCut
    <2> DEFINE c == split.cluster
    <2>1. PICK v \in {Torn, split.value} :
                /\ Idle /\ split # NoSplit
                /\ fat' = [fat EXCEPT ![Active] = Patched(@, [x \in {c} |-> v])]
                /\ UNCHANGED <<unmirrored, split, free, counted, write>>
      BY <1>7 DEF CompleteSplitCut
    <2>2. c \in Clusters /\ v \in Values \cup {Torn} /\ c \in unmirrored
      BY <2>1 DEF MirrorInv, TypeOK, SplitInv
    <2>4. /\ fat' \in [Copies -> [Clusters -> Values \cup {Torn}]]
          /\ fat'[Active][c] = v
          /\ \A x \in Clusters \ {c} : fat'[Active][x] = fat[Active][x]
          /\ \A j \in Copies \ {Active} : fat'[j] = fat[j]
      BY <2>1, <2>2, PutOne DEF MirrorInv
    <2>6. TypeOK' /\ SplitInv' /\ WriteInv'
      BY <2>1, <2>4 DEF MirrorInv, TypeOK, SplitInv, WriteInv, Idle
    <2>7. CopiesAgree' /\ TornIsKnown'
      BY <2>1, <2>2, <2>4 DEF MirrorInv, CopiesAgree, TornIsKnown
    <2> QED
      BY <2>6, <2>7 DEF MirrorInv
  <1>8. CASE MirrorEntry
    <2>1. PICK c \in unmirrored, k \in Copies \ {Active} :
                /\ \E v \in {fat[Active][c]} \cup (IF c \in Spanning THEN {Torn} ELSE {}) :
                      fat' = [fat EXCEPT ![k] = Patched(@, [x \in {c} |-> v])]
                /\ Idle /\ UNCHANGED <<unmirrored, split, free, counted, write>>
      BY <1>8 DEF MirrorEntry
    <2>2. PICK v \in {fat[Active][c], Torn} : fat' = [fat EXCEPT ![k] = Patched(@, [x \in {c} |-> v])]
      BY <2>1
    <2>3. c \in Clusters /\ v \in Values \cup {Torn}
      BY <2>1 DEF MirrorInv, TypeOK
    <2>5. /\ fat' \in [Copies -> [Clusters -> Values \cup {Torn}]]
          /\ \A x \in Clusters \ {c} : fat'[k][x] = fat[k][x]
          /\ \A j \in Copies \ {k} : fat'[j] = fat[j]
      BY <2>2, <2>3, PutOne DEF MirrorInv
    <2>6. TypeOK' /\ SplitInv' /\ WriteInv'
      BY <2>1, <2>5 DEF MirrorInv, TypeOK, SplitInv, WriteInv, Idle
    <2>7. CopiesAgree' /\ TornIsKnown'
      BY <2>1, <2>3, <2>5 DEF MirrorInv, CopiesAgree, TornIsKnown
    <2> QED
      BY <2>6, <2>7 DEF MirrorInv
  <1>9. CASE MirrorDone
    BY <1>9 DEF MirrorDone, MirrorInv, TypeOK, CopiesAgree, TornIsKnown, SplitInv, WriteInv, Idle
  <1>10. CASE Count
    <2>1. free' \in Unknown .. Total
      BY <1>10, CountsType, Constants DEF Count, MirrorInv, Unknown
    <2> QED
      BY <2>1, <1>10 DEF Count, MirrorInv, TypeOK, CopiesAgree, TornIsKnown, SplitInv, WriteInv, Idle
  <1>11. CASE UNCHANGED tableVars
    BY <1>11 DEF tableVars, MirrorInv, TypeOK, CopiesAgree, TornIsKnown, SplitInv, WriteInv, Idle
  <1> QED
    BY <1>1, <1>2, <1>3, <1>4, <1>5, <1>6, <1>7, <1>8, <1>9, <1>10, <1>11 DEF Next

\* THEOREM: however the writes of the table are cut, at any number of copies
\* and clusters, the copies agree outside what `unmirrored` records, so that
\* `mirror` makes them equal.
THEOREM MirrorsRepairable == Spec => [](TypeOK /\ CopiesAgree)
  <1>1. Init => MirrorInv
    BY InitMirror
  <1>2. MirrorInv /\ [Next]_tableVars => MirrorInv'
    BY MirrorStep
  <1>3. MirrorInv => TypeOK /\ CopiesAgree
    BY DEF MirrorInv
  <1> QED
    BY <1>1, <1>2, <1>3, PTL DEF Spec

-----------------------------------------------------------------------------
\* What a step may do to the logical table: change the entries of one group.
LogicalWrite(S) ==
    /\ LogicalTable' \in [Clusters -> Values]
    /\ \A c \in Clusters \ S : LogicalTable'[c] = LogicalTable[c]

\* Every step changes the logical table as ClusterTable allows, or not.
LEMMA LogicalStep ==
    ASSUME MirrorInv, MirrorInv', [Next]_tableVars
    PROVE  LogicalTable' = LogicalTable \/ \E S \in Groups : LogicalWrite(S)
  <1> USE CopiesAssumption, SpanningAssumption
  <1> DEFINE P == write.patch
  <1>t. LogicalTable' \in [Clusters -> Values]
    <2> SUFFICES ASSUME NEW c \in Clusters
                 PROVE  (IF split'.cluster = c THEN split'.value ELSE fat'[Active][c]) \in Values
      BY DEF LogicalTable
    <2>1. CASE split'.cluster = c
      BY <2>1, Constants DEF MirrorInv, TypeOK
    <2>2. CASE split'.cluster # c
      BY <2>2 DEF MirrorInv, TypeOK, TornIsKnown
    <2> QED
      BY <2>1, <2>2
  <1>a. ASSUME \A c \in Clusters : (IF split'.cluster = c THEN split'.value ELSE fat'[Active][c])
                                  = (IF split.cluster = c THEN split.value ELSE fat[Active][c])
        PROVE  LogicalTable' = LogicalTable
    BY <1>a DEF LogicalTable
  <1>b. ASSUME NEW S \in Groups, \A c \in Clusters \ S :
                   (IF split'.cluster = c THEN split'.value ELSE fat'[Active][c])
                    = (IF split.cluster = c THEN split.value ELSE fat[Active][c])
        PROVE  LogicalWrite(S)
    BY <1>b, <1>t DEF LogicalTable, LogicalWrite
  <1>1. ASSUME NEW S \in Groups, NEW patch \in [S -> Values], StartWrite(patch)
        PROVE  LogicalTable' = LogicalTable
    BY <1>1, <1>a DEF StartWrite
  <1>2. CASE PutHalf
    <2>1. PICK k \in write.todo, c \in DOMAIN P, half \in Values \cup {Torn} :
                /\ NextCopy(k) /\ IsSplit(P) /\ ~write.half
                /\ fat' = [fat EXCEPT ![k] = Patched(@, [x \in {c} |-> half])]
                /\ k = Active => split' = [cluster |-> c, value |-> P[c], wasFree |-> WasFree(c)]
                /\ k # Active => split' = split
      <3>1. PICK k \in write.todo :
                  /\ NextCopy(k) /\ IsSplit(P) /\ ~write.half
                  /\ \E c \in DOMAIN P :
                        /\ \E half \in {fat[k][c], Torn} : fat' = [fat EXCEPT ![k] = Patched(@, [x \in {c} |-> half])]
                        /\ k = Active => split' = [cluster |-> c, value |-> P[c], wasFree |-> WasFree(c)]
                        /\ k # Active => split' = split
        BY <1>2 DEF PutHalf
      <3>2. k \in Copies /\ DOMAIN P \subseteq Clusters
        BY <3>1, PatchType DEF Idle, MirrorInv, TypeOK
      <3>3. \A c \in DOMAIN P : fat[k][c] \in Values \cup {Torn}
        BY <3>2 DEF MirrorInv, TypeOK
      <3> QED
        BY <3>1, <3>3
    <2>2. k \in Copies /\ c \in Clusters /\ ~Idle /\ DOMAIN P \in Groups /\ DOMAIN P = {c}
      BY <2>1, PatchType DEF Idle, MirrorInv, TypeOK, IsSplit, IsPatch
    <2>3. /\ fat' \in [Copies -> [Clusters -> Values \cup {Torn}]]
          /\ fat'[k][c] = half
          /\ \A x \in Clusters \ {c} : fat'[k][x] = fat[k][x]
          /\ \A j \in Copies \ {k} : fat'[j] = fat[j]
      BY <2>1, <2>2, PutOne DEF MirrorInv
    <2>4. split = NoSplit
      BY <2>1, <2>2 DEF MirrorInv, SplitInv
    <2>5. CASE k # Active
      BY <2>1, <2>3, <2>5, <1>a
    <2>6. CASE k = Active
      <3>1. split'.cluster = c
        BY <2>1, <2>6
      <3>2. \A x \in Clusters \ DOMAIN P : (IF split'.cluster = x THEN split'.value ELSE fat'[Active][x])
                                            = (IF split.cluster = x THEN split.value ELSE fat[Active][x])
        BY <3>1, <2>2, <2>3, <2>4, <2>6, Constants
      <3> QED
        BY <3>2, <2>2, <1>b
    <2> QED
      BY <2>5, <2>6
  <1>3. CASE PutCopy
    <2>1. PICK k \in write.todo :
                /\ NextCopy(k) /\ (IsSplit(P) => write.half)
                /\ fat' = [fat EXCEPT ![k] = Patched(@, P)]
                /\ k = Active => split' = NoSplit
                /\ k # Active => split' = split
      BY <1>3 DEF PutCopy
    <2>2. k \in Copies /\ ~Idle /\ IsPatch(P) /\ DOMAIN P \subseteq Clusters /\ DOMAIN P \in Groups
      BY <2>1, PatchType DEF Idle, MirrorInv, TypeOK, IsPatch
    <2>3. /\ fat' \in [Copies -> [Clusters -> Values \cup {Torn}]]
          /\ \A x \in DOMAIN P : fat'[k][x] = P[x]
          /\ \A x \in Clusters \ DOMAIN P : fat'[k][x] = fat[k][x]
          /\ \A j \in Copies \ {k} : fat'[j] = fat[j]
      BY <2>1, <2>2, PatchType, PutFact DEF MirrorInv
    <2>4. CASE k # Active
      BY <2>1, <2>3, <2>4, <1>a
    <2>5. CASE k = Active
      <3>1. \A x \in Clusters \ DOMAIN P : split.cluster # x /\ split'.cluster # x
        BY <2>1, <2>2, <2>5, Constants DEF MirrorInv, SplitInv
      <3>2. \A x \in Clusters \ DOMAIN P : (IF split'.cluster = x THEN split'.value ELSE fat'[Active][x])
                                            = (IF split.cluster = x THEN split.value ELSE fat[Active][x])
        BY <3>1, <2>3, <2>5
      <3> QED
        BY <3>2, <2>2, <1>b
    <2> QED
      BY <2>4, <2>5
  <1>4. CASE CutBefore
    BY <1>4, <1>a DEF CutBefore
  <1>5. CASE CutAfter
    <2>1. PICK k \in write.todo :
                /\ NextCopy(k) /\ (IsSplit(P) => write.half)
                /\ fat' = [fat EXCEPT ![k] = Patched(@, P)]
                /\ k = Active => split' = split
                /\ k # Active => split' = split
      BY <1>5 DEF CutAfter
    <2>2. k \in Copies /\ ~Idle /\ IsPatch(P) /\ DOMAIN P \subseteq Clusters /\ DOMAIN P \in Groups
      BY <2>1, PatchType DEF Idle, MirrorInv, TypeOK, IsPatch
    <2>3. /\ fat' \in [Copies -> [Clusters -> Values \cup {Torn}]]
          /\ \A x \in DOMAIN P : fat'[k][x] = P[x]
          /\ \A x \in Clusters \ DOMAIN P : fat'[k][x] = fat[k][x]
          /\ \A j \in Copies \ {k} : fat'[j] = fat[j]
      BY <2>1, <2>2, PatchType, PutFact DEF MirrorInv
    <2>4. CASE k # Active
      BY <2>1, <2>3, <2>4, <1>a
    <2>5. CASE k = Active
      <3>1. \A x \in Clusters \ DOMAIN P : split.cluster # x /\ split'.cluster # x
        BY <2>1, <2>2, <2>5, Constants DEF MirrorInv, SplitInv
      <3>2. \A x \in Clusters \ DOMAIN P : (IF split'.cluster = x THEN split'.value ELSE fat'[Active][x])
                                            = (IF split.cluster = x THEN split.value ELSE fat[Active][x])
        BY <3>1, <2>3, <2>5
      <3> QED
        BY <3>2, <2>2, <1>b
    <2> QED
      BY <2>4, <2>5
  <1>6. CASE CompleteSplit
    <2> DEFINE Q == [x \in {split.cluster} |-> split.value]
    <2>1. split # NoSplit /\ split' = NoSplit /\ fat' = [fat EXCEPT ![Active] = Patched(@, Q)]
      BY <1>6 DEF CompleteSplit
    <2>2. split.cluster \in Clusters /\ split.value \in Values
      BY <2>1 DEF MirrorInv, TypeOK
    <2>3. /\ fat' \in [Copies -> [Clusters -> Values \cup {Torn}]]
          /\ fat'[Active][split.cluster] = split.value
          /\ \A x \in Clusters \ {split.cluster} : fat'[Active][x] = fat[Active][x]
          /\ \A j \in Copies \ {Active} : fat'[j] = fat[j]
      BY <2>1, <2>2, PutOne DEF MirrorInv
    <2> QED
      BY <2>1, <2>2, <2>3, <1>a, Constants
  <1>7. CASE CompleteSplitCut
    <2>1. PICK v \in {Torn, split.value} :
                /\ split # NoSplit /\ split' = split
                /\ fat' = [fat EXCEPT ![Active] = Patched(@, [x \in {split.cluster} |-> v])]
      BY <1>7 DEF CompleteSplitCut
    <2>2. split.cluster \in Clusters /\ v \in Values \cup {Torn}
      BY <2>1 DEF MirrorInv, TypeOK
    <2>3. /\ fat' \in [Copies -> [Clusters -> Values \cup {Torn}]]
          /\ fat'[Active][split.cluster] = v
          /\ \A x \in Clusters \ {split.cluster} : fat'[Active][x] = fat[Active][x]
          /\ \A j \in Copies \ {Active} : fat'[j] = fat[j]
      BY <2>1, <2>2, PutOne DEF MirrorInv
    <2> QED
      BY <2>1, <2>3, <1>a
  <1>8. CASE MirrorEntry
    <2>1. fat'[Active] = fat[Active] /\ split' = split
      BY <1>8 DEF MirrorEntry, MirrorInv, TypeOK
    <2> QED
      BY <2>1, <1>a
  <1>9. CASE MirrorDone
    BY <1>9, <1>a DEF MirrorDone
  <1>10. CASE Count
    BY <1>10, <1>a DEF Count
  <1>11. CASE UNCHANGED tableVars
    BY <1>11, <1>a DEF tableVars
  <1> QED
    BY <1>1, <1>2, <1>3, <1>4, <1>5, <1>6, <1>7, <1>8, <1>9, <1>10, <1>11 DEF Next

\* THEOREM: FatTable implements ClusterTable.  Whatever copies and halves a
\* write goes through and wherever it is cut, the entries of its group change
\* at once in the table that the driver works on, and nothing else does.
THEOREM ImplementsClusterTable == Spec => AtomicWrites
  <1>1. Init => MirrorInv
    BY InitMirror
  <1>2. MirrorInv /\ [Next]_tableVars => MirrorInv'
    BY MirrorStep
  <1>3. Init => Logical!TableInit
    <2> SUFFICES ASSUME Init PROVE LogicalTable \in [Clusters -> {Free, EOC}]
      BY DEF Logical!TableInit, Logical!Clusters, Logical!Free, Logical!EOC, Clusters, Free, EOC
    <2>1. PICK t \in [Clusters -> {Free, EOC}] : fat = [k \in Copies |-> t]
      BY DEF Init
    <2> QED
      BY <2>1, CopiesAssumption, Constants DEF Init, LogicalTable
  <1>4. MirrorInv /\ MirrorInv' /\ [Next]_tableVars => [Logical!TableNext]_LogicalTable
    <2> SUFFICES ASSUME MirrorInv, MirrorInv', [Next]_tableVars, LogicalTable' # LogicalTable
                 PROVE  Logical!TableNext
      OBVIOUS
    <2>1. PICK S \in Groups : LogicalWrite(S)
      BY LogicalStep
    <2>2. Logical!Clusters = Clusters /\ Logical!Values = Values
      BY DEF Logical!Clusters, Logical!Values, Logical!Free, Logical!EOC, Clusters, Values, Free, EOC
    <2>3. S \in Logical!Groups
      BY <2>2 DEF Groups, SameBlock, Logical!Groups, Logical!SameBlock
    <2> QED
      BY <2>1, <2>2, <2>3 DEF LogicalWrite, Logical!TableNext, Logical!Write
  <1> QED
    BY <1>1, <1>2, <1>3, <1>4, PTL DEF Spec, AtomicWrites, Logical!TableSpec

-----------------------------------------------------------------------------
LEMMA UncountedFinite ==
    Uncounted \subseteq Clusters /\ IsFiniteSet(Uncounted) /\ Cardinality(Uncounted) \in Nat
  <1>1. Uncounted \subseteq Clusters
    BY DEF Uncounted
  <1> QED
    BY <1>1, Constants, FS_Subset, FS_CardinalityType

\* adjust_free keeps the count at least the clusters that are free: those
\* taken leave the set and those freed enter it.
LEMMA AdjustSound ==
    ASSUME MirrorInv, CountInv, NEW patch, DOMAIN patch \subseteq Clusters, NEW V,
           V = (Uncounted \ TakenBy(patch)) \cup FreedBy(patch),
           free' = Adjusted(Cardinality(FreedBy(patch)), Cardinality(TakenBy(patch))),
           counted, free' # Unknown
    PROVE  Cardinality(V) <= free'
  <1> DEFINE f == Cardinality(FreedBy(patch))
             t == Cardinality(TakenBy(patch))
             W == Uncounted \ TakenBy(patch)
  <1>1. /\ IsFiniteSet(FreedBy(patch)) /\ f \in Nat
        /\ IsFiniteSet(TakenBy(patch)) /\ t \in Nat
    BY CountsAreNat
  <1>2. TakenBy(patch) \subseteq Uncounted /\ FreedBy(patch) \cap W = {}
    BY DEF TakenBy, FreedBy, Uncounted
  <1>3. IsFiniteSet(W) /\ Cardinality(W) = Cardinality(Uncounted) - t
    <2>1. IsFiniteSet(W) /\ Cardinality(W) = Cardinality(Uncounted) - Cardinality(Uncounted \cap TakenBy(patch))
      BY UncountedFinite, FS_Difference
    <2>2. Uncounted \cap TakenBy(patch) = TakenBy(patch)
      BY <1>2
    <2> QED
      BY <2>1, <2>2
  <1>4. Cardinality(V) = Cardinality(W) + f
    <2>1. Cardinality(W \cup FreedBy(patch))
            = Cardinality(W) + f - Cardinality(W \cap FreedBy(patch))
      BY <1>1, <1>3, FS_Union
    <2>2. W \cap FreedBy(patch) = {} /\ Cardinality({}) = 0
      BY <1>2, FS_EmptySet
    <2>3. Cardinality(W) \in Nat
      BY <1>3, FS_CardinalityType
    <2>4. V = W \cup FreedBy(patch)
      OBVIOUS
    <2>5. Cardinality(W \cup FreedBy(patch)) = Cardinality(W) + f - 0
      BY <2>1, <2>2
    <2> HIDE DEF W, f
    <2> QED
      BY <1>1, <2>3, <2>4, <2>5
  <1>5. V \subseteq Clusters
    BY UncountedFinite DEF FreedBy
  <1>6. Cardinality(V) <= Total
    BY <1>5, Constants, FS_Subset
  <1>7. free \in Unknown .. Total
    BY DEF MirrorInv, TypeOK
  <1>8. free # Unknown /\ free + f >= t /\ Cardinality(Uncounted) <= free
        /\ free' = IF free + f - t > Total THEN Total ELSE free + f - t
    BY <1>1, <1>7, Constants DEF Adjusted, CountInv, Unknown
  <1> QED
    BY <1>1, <1>3, <1>4, <1>6, <1>7, <1>8, UncountedFinite, Constants DEF Unknown

LEMMA FewerUncounted ==
    ASSUME CountInv, MirrorInv, NEW V, V \subseteq Uncounted, counted, free # Unknown
    PROVE  Cardinality(V) <= free
  <1>1. Cardinality(V) <= Cardinality(Uncounted) /\ Cardinality(V) \in Nat
    BY UncountedFinite, FS_Subset, FS_CardinalityType
  <1> QED
    BY <1>1, UncountedFinite, Constants DEF CountInv, MirrorInv, TypeOK, Unknown

\* The free count, for each step.
LEMMA CountStep == ASSUME Windows = {}, MirrorInv, CountInv, [Next]_tableVars PROVE CountInv'
  <1> USE CopiesAssumption, SpanningAssumption
  <1> DEFINE P == write.patch
  <1> SUFFICES ASSUME counted', free' # Unknown
               PROVE  Cardinality(Uncounted') <= free'
    BY DEF CountInv
  <1>a. ASSUME \A c \in Clusters : fat'[Active][c] = fat[Active][c], split' = split,
               free' = free, counted' = counted
        PROVE  Cardinality(Uncounted') <= free'
    <2>1. Uncounted' = Uncounted
      BY <1>a DEF Uncounted, WasFree
    <2> QED
      BY <2>1, <1>a DEF CountInv
  <1>1. ASSUME NEW S \in Groups, NEW patch \in [S -> Values], StartWrite(patch)
        PROVE  Cardinality(Uncounted') <= free'
    BY <1>1, <1>a DEF StartWrite
  <1>4. CASE CutBefore
    BY <1>4, <1>a DEF CutBefore
  <1>9. CASE MirrorDone
    BY <1>9, <1>a DEF MirrorDone
  <1>11. CASE UNCHANGED tableVars
    BY <1>11, <1>a DEF tableVars
  <1>8. CASE MirrorEntry
    <2>1. fat'[Active] = fat[Active]
      BY <1>8 DEF MirrorEntry, MirrorInv, TypeOK
    <2> QED
      BY <1>8, <2>1, <1>a DEF MirrorEntry
  <1>10. CASE Count
    <2>1. split = NoSplit
      BY <1>10 DEF Count
    <2>2. \A c \in Clusters : fat[Active][c] # Torn
      BY <2>1, Constants DEF MirrorInv, TornIsKnown
    <2>3. free' = Cardinality(FreeSet)
      BY <1>10, <2>2 DEF Count, Counts
    <2>4. Uncounted' = FreeSet
      BY <1>10, <2>1, Constants DEF Count, Uncounted, WasFree, FreeSet, FreeIn
    <2>5. Cardinality(FreeSet) \in Nat
      BY Constants, FS_Subset, FS_CardinalityType DEF FreeSet, FreeIn
    <2> QED
      BY <2>3, <2>4, <2>5
  <1>2. CASE PutHalf
    <2>1. PICK k \in write.todo, c \in DOMAIN P, half \in Values \cup {Torn} :
                /\ NextCopy(k) /\ IsSplit(P) /\ ~write.half
                /\ fat' = [fat EXCEPT ![k] = Patched(@, [x \in {c} |-> half])]
                /\ k = Active => split' = [cluster |-> c, value |-> P[c], wasFree |-> WasFree(c)]
                /\ k # Active => split' = split
                /\ free' = free /\ counted' = counted
      <3>1. PICK k \in write.todo :
                  /\ NextCopy(k) /\ IsSplit(P) /\ ~write.half
                  /\ \E c \in DOMAIN P :
                        /\ \E half \in {fat[k][c], Torn} : fat' = [fat EXCEPT ![k] = Patched(@, [x \in {c} |-> half])]
                        /\ k = Active => split' = [cluster |-> c, value |-> P[c], wasFree |-> WasFree(c)]
                        /\ k # Active => split' = split
                  /\ free' = free /\ counted' = counted
        BY <1>2 DEF PutHalf
      <3>2. k \in Copies /\ DOMAIN P \subseteq Clusters
        BY <3>1, PatchType DEF Idle, MirrorInv, TypeOK
      <3>3. \A c \in DOMAIN P : fat[k][c] \in Values \cup {Torn}
        BY <3>2 DEF MirrorInv, TypeOK
      <3> QED
        BY <3>1, <3>3
    <2>2. k \in Copies /\ c \in Clusters /\ ~Idle
      BY <2>1, PatchType DEF Idle, MirrorInv, TypeOK
    <2>3. /\ \A x \in Clusters \ {c} : fat'[k][x] = fat[k][x]
          /\ \A j \in Copies \ {k} : fat'[j] = fat[j]
      BY <2>1, <2>2, PutOne DEF MirrorInv
    <2>4. split = NoSplit
      BY <2>1, <2>2 DEF MirrorInv, SplitInv
    <2>5. CASE k # Active
      BY <2>1, <2>3, <2>5, <1>a
    <2>6. CASE k = Active
      <3>a. WasFree(c) <=> fat[Active][c] = Free
        BY <2>2, <2>4, Constants DEF WasFree
      <3>b. split' = [cluster |-> c, value |-> P[c], wasFree |-> WasFree(c)]
        BY <2>1, <2>6
      <3>c. split'.cluster = c /\ split'.wasFree = WasFree(c)
        BY <3>b
      <3>d. WasFree(c)' = WasFree(c)
        BY <3>c DEF WasFree
      <3>1. \A x \in Clusters : WasFree(x)' <=> WasFree(x)
        BY <3>c, <3>d, <2>3, <2>4, <2>6, Constants DEF WasFree
      <3>2. Uncounted' = Uncounted
        BY <3>1 DEF Uncounted
      <3> QED
        BY <2>1, <3>2 DEF CountInv
    <2> QED
      BY <2>5, <2>6
  <1>3. CASE PutCopy
    <2>1. PICK k \in write.todo :
                /\ NextCopy(k) /\ (IsSplit(P) => write.half)
                /\ fat' = [fat EXCEPT ![k] = Patched(@, P)]
                /\ k = Active => /\ free' = Adjusted(Cardinality(FreedBy(P)), Cardinality(TakenBy(P)))
                                 /\ split' = NoSplit
                /\ k # Active => free' = free /\ split' = split
                /\ counted' = counted
      BY <1>3 DEF PutCopy
    <2>2. k \in Copies /\ ~Idle /\ IsPatch(P) /\ DOMAIN P \subseteq Clusters
      BY <2>1, PatchType DEF Idle, MirrorInv, TypeOK
    <2>3. /\ fat' \in [Copies -> [Clusters -> Values \cup {Torn}]]
          /\ \A x \in DOMAIN P : fat'[k][x] = P[x]
          /\ \A x \in Clusters \ DOMAIN P : fat'[k][x] = fat[k][x]
          /\ \A j \in Copies \ {k} : fat'[j] = fat[j]
      BY <2>1, <2>2, PatchType, PutFact DEF MirrorInv
    <2>4. CASE k # Active
      BY <2>1, <2>3, <2>4, <1>a
    <2>5. CASE k = Active
      <3>1. \A x \in Clusters \ DOMAIN P : split.cluster # x
        BY <2>2, Constants DEF MirrorInv, SplitInv
      <3>2. \A x \in Clusters : WasFree(x)' <=> (WasFree(x) /\ x \notin TakenBy(P)) \/ x \in FreedBy(P)
        BY <3>1, <2>1, <2>3, <2>5, Constants DEF WasFree, TakenBy, FreedBy
      <3>3. Uncounted' = (Uncounted \ TakenBy(P)) \cup FreedBy(P)
        BY <3>2, <2>2 DEF Uncounted, FreedBy
      <3> QED
        BY <3>3, <2>1, <2>2, <2>5, AdjustSound
    <2> QED
      BY <2>4, <2>5
  <1>5. CASE CutAfter
    <2>1. PICK k \in write.todo :
                /\ NextCopy(k) /\ (IsSplit(P) => write.half)
                /\ k # Active \/ IsSplit(P) \/ FreedBy(P) = {}
                /\ fat' = [fat EXCEPT ![k] = Patched(@, P)]
                /\ split' = split /\ free' = free /\ counted' = counted
      BY <1>5 DEF CutAfter
    <2>2. k \in Copies /\ ~Idle /\ IsPatch(P) /\ DOMAIN P \subseteq Clusters
      BY <2>1, PatchType DEF Idle, MirrorInv, TypeOK
    <2>3. /\ fat' \in [Copies -> [Clusters -> Values \cup {Torn}]]
          /\ \A x \in DOMAIN P : fat'[k][x] = P[x]
          /\ \A x \in Clusters \ DOMAIN P : fat'[k][x] = fat[k][x]
          /\ \A j \in Copies \ {k} : fat'[j] = fat[j]
      BY <2>1, <2>2, PatchType, PutFact DEF MirrorInv
    <2>4. CASE k # Active
      BY <2>1, <2>3, <2>4, <1>a
    <2>5. CASE k = Active /\ split # NoSplit
      <3>1. DOMAIN P = {split.cluster}
        BY <2>2, <2>5 DEF MirrorInv, SplitInv
      <3>2. \A x \in Clusters : WasFree(x)' <=> WasFree(x)
        BY <3>1, <2>1, <2>3, <2>5 DEF WasFree
      <3>3. Uncounted' = Uncounted
        BY <3>2 DEF Uncounted
      <3> QED
        BY <2>1, <3>3 DEF CountInv
    <2>6. CASE k = Active /\ split = NoSplit
      <3>1. ~IsSplit(P)
        BY <2>1, <2>2, <2>6 DEF MirrorInv, WriteInv
      <3>2. \A x \in Clusters : WasFree(x)' => WasFree(x)
        BY <3>1, <2>1, <2>3, <2>6, Constants DEF WasFree, FreedBy
      <3>3. Uncounted' \subseteq Uncounted
        BY <3>2 DEF Uncounted
      <3> QED
        BY <2>1, <3>3, FewerUncounted
    <2> QED
      BY <2>4, <2>5, <2>6
  <1>6. CASE CompleteSplit
    <2> DEFINE c == split.cluster
               Q == [x \in {c} |-> split.value]
    <2>1. /\ split # NoSplit
          /\ fat' = [fat EXCEPT ![Active] = Patched(@, Q)]
          /\ free' = Adjusted(Cardinality(FreedBy(Q)), Cardinality(TakenBy(Q)))
          /\ split' = NoSplit /\ counted' = counted
      BY <1>6 DEF CompleteSplit
    <2>2. c \in Clusters /\ split.value \in Values
      BY <2>1 DEF MirrorInv, TypeOK
    <2>3. DOMAIN Q = {c} /\ Q[c] = split.value
      OBVIOUS
    <2>4. /\ fat' \in [Copies -> [Clusters -> Values \cup {Torn}]]
          /\ fat'[Active][c] = split.value
          /\ \A x \in Clusters \ {c} : fat'[Active][x] = fat[Active][x]
          /\ \A j \in Copies \ {Active} : fat'[j] = fat[j]
      BY <2>1, <2>2, PutOne DEF MirrorInv
    <2> HIDE DEF Q
    <2>5. \A x \in Clusters : WasFree(x)' <=> (WasFree(x) /\ x \notin TakenBy(Q)) \/ x \in FreedBy(Q)
      BY <2>1, <2>2, <2>3, <2>4, Constants DEF WasFree, TakenBy, FreedBy
    <2>6. Uncounted' = (Uncounted \ TakenBy(Q)) \cup FreedBy(Q)
      BY <2>2, <2>3, <2>5 DEF Uncounted, FreedBy
    <2> QED
      BY <2>1, <2>2, <2>3, <2>6, AdjustSound
  <1>7. CASE CompleteSplitCut
    <2> DEFINE c == split.cluster
    <2>1. PICK v \in {Torn, split.value} :
                /\ split # NoSplit
                /\ fat' = [fat EXCEPT ![Active] = Patched(@, [x \in {c} |-> v])]
                /\ split' = split /\ free' = free /\ counted' = counted
      BY <1>7 DEF CompleteSplitCut
    <2>2. c \in Clusters /\ v \in Values \cup {Torn}
      BY <2>1 DEF MirrorInv, TypeOK
    <2>3. /\ fat' \in [Copies -> [Clusters -> Values \cup {Torn}]]
          /\ fat'[Active][c] = v
          /\ \A x \in Clusters \ {c} : fat'[Active][x] = fat[Active][x]
          /\ \A j \in Copies \ {Active} : fat'[j] = fat[j]
      BY <2>1, <2>2, PutOne DEF MirrorInv
    <2>4. \A x \in Clusters : WasFree(x)' <=> WasFree(x)
      BY <2>1, <2>3 DEF WasFree
    <2>5. Uncounted' = Uncounted
      BY <2>4 DEF Uncounted
    <2> QED
      BY <2>1, <2>5 DEF CountInv
  <1> QED
    BY <1>1, <1>2, <1>3, <1>4, <1>5, <1>6, <1>7, <1>8, <1>9, <1>10, <1>11 DEF Next

\* THEOREM: unless a freeing write takes effect unnoticed or a scan runs
\* ahead of a split entry, a volume that counts as full has no free cluster,
\* so `allocate` refuses no request it could serve.
THEOREM FullMeansFull == ASSUME Windows = {} PROVE Spec => []FullIsFull
  <1>1. Init => MirrorInv /\ CountInv
    BY InitMirror DEF Init, CountInv
  <1>2. MirrorInv /\ CountInv /\ [Next]_tableVars => (MirrorInv /\ CountInv)'
    BY MirrorStep, CountStep
  <1>3. MirrorInv /\ CountInv => FullIsFull
    <2> SUFFICES ASSUME MirrorInv, CountInv, split = NoSplit, Full
                 PROVE  FreeSet = {}
      BY DEF FullIsFull
    <2>1. Uncounted = FreeSet
      BY Constants DEF Uncounted, WasFree, FreeSet, FreeIn
    <2>2. Cardinality(Uncounted) = 0
      BY UncountedFinite DEF CountInv, Full, Unknown
    <2> QED
      BY <2>1, <2>2, UncountedFinite, FS_EmptySet
  <1> QED
    BY <1>1, <1>2, <1>3, PTL DEF Spec
=============================================================================
