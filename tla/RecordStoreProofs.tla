------------------------- MODULE RecordStoreProofs -------------------------
(***************************************************************************)
(* What RecordStore says of the records, proved for any set of keys and     *)
(* contents, any pages, retries and interruptions: the types, the count     *)
(* audit, and, when a primary key has no sort key, what a rollback leaves   *)
(* behind and what the application reads.                                   *)
(***************************************************************************)
EXTENDS RecordStore, FiniteSetTheorems, TLAPS

(***************************************************************************)
(* Sets of keys and of write requests.                                      *)
(***************************************************************************)

\* A set of keys has a last one in the order of the scan.  A smallest set
\* without one loses a key and has one.
LEMMA LastKey ==
    ASSUME NEW S \in SUBSET Key, S # {}
    PROVE  \E m \in S : \A n \in S : n <= m
<1> DEFINE Last(T)    == \E m \in T : \A n \in T : n <= m
           Lastless   == {T \in SUBSET Key : T # {} /\ ~Last(T)}
           Sizes      == {Cardinality(T) : T \in Lastless}
<1>1. \A T \in SUBSET Key : IsFiniteSet(T) /\ Cardinality(T) \in Nat
    BY FS_Subset, FS_CardinalityType, KeysAssumption
<1>2. SUFFICES ASSUME S \in Lastless PROVE FALSE
    OBVIOUS
<1>3. Sizes # {} /\ Sizes \subseteq Nat
    BY <1>1, <1>2
<1>4. PICK c \in Sizes : \A d \in Sizes : ~(<<d, c>> \in OpToRel(<, Nat))
    BY <1>3, NatLessThanWellFounded, WFMin, Zenon
<1>5. PICK T \in Lastless : c = Cardinality(T)
    OBVIOUS
<1>6. PICK x \in T : TRUE
    OBVIOUS
<1>7. CASE T \ {x} = {}
  <2>1. T = {x} /\ x \in Nat
      BY <1>5, <1>6, <1>7, KeysAssumption
  <2>2. Last(T)
      BY <2>1
  <2> QED
      BY <2>2
<1>8. CASE T \ {x} # {}
  <2>1. Cardinality(T \ {x}) = Cardinality(T) - 1 /\ Cardinality(T) \in Nat
      BY <1>1, <1>6, FS_RemoveElement
  <2>2. /\ T \ {x} \in SUBSET Key /\ Cardinality(T \ {x}) \in Nat
        /\ Cardinality(T \ {x}) < c
      BY <1>1, <1>5, <2>1
  <2>3. T \ {x} \notin Lastless
    <3>1. T \ {x} \in Lastless => Cardinality(T \ {x}) \in Sizes
        OBVIOUS
    <3>2. c \in Nat
        BY <1>3
    <3> QED
        BY <1>4, <2>2, <3>1, <3>2 DEF OpToRel
  <2>4. Last(T \ {x})
      BY <1>8, <2>2, <2>3
  <2>5. PICK m \in T \ {x} : \A n \in T \ {x} : n <= m
      BY <2>4
  <2>6. T \subseteq Nat /\ m \in Nat /\ x \in Nat
      BY KeysAssumption
  <2>7. CASE x <= m
      BY <2>5, <2>7
  <2>8. CASE ~(x <= m)
    <3>1. \A n \in T : n <= x
        BY <2>5, <2>6, <2>8
    <3> QED
        BY <3>1
  <2> QED
      BY <2>7, <2>8
<1> QED
    BY <1>7, <1>8

\* The index of rollback keeps one of the v1 records of a partition.
LEMMA OriginalIsKept ==
    ASSUME NEW k, Same(v1, k) # {}
    PROVE  Original(k) \in Same(v1, k)
<1>1. Same(v1, k) \in SUBSET Key
    BY DEF Same, In
<1>2. \E j \in Same(v1, k) : \A i \in Same(v1, k) : i <= j
    BY <1>1, LastKey
<1> QED
    BY <1>2 DEF Original

\* Requests that differ are as many as what they are made for.
LEMMA OneRequestEach ==
    ASSUME NEW W, NEW f, \A j, k \in W : f[j] = f[k] => j = k
    PROVE  ExistsBijection(W, {f[k] : k \in W})
<1> DEFINE B == {f[k] : k \in W}
           g == [k \in W |-> f[k]]
<1>1. g \in Bijection(W, B)
    BY DEF Bijection, Injection, IsInjective, Surjection
<1> QED
    BY <1>1 DEF ExistsBijection

\* Of the entries a command scans it writes some, one request each, and skips
\* the others.
LEMMA Tally ==
    ASSUME NEW E, IsFiniteSet(E), NEW W, W \subseteq E, NEW B, ExistsBijection(W, B)
    PROVE  /\ IsFiniteSet(B) /\ Cardinality(B) \in Nat /\ Cardinality(E \ W) \in Nat
           /\ Cardinality(E) = Cardinality(B) + Cardinality(E \ W)
<1>1. IsFiniteSet(W) /\ IsFiniteSet(E \ W)
    BY FS_Subset, FS_Difference
<1>2. Cardinality(B) = Cardinality(W) /\ IsFiniteSet(B)
    BY <1>1, FS_Bijection
<1>3. E \cap W = W
    OBVIOUS
<1>4. Cardinality(E \ W) = Cardinality(E) - Cardinality(W)
    BY <1>3, FS_Difference
<1>5. Cardinality(E) \in Nat /\ Cardinality(W) \in Nat /\ Cardinality(E \ W) \in Nat
    BY <1>1, FS_CardinalityType
<1> QED
    BY <1>2, <1>4, <1>5

LEMMA PutInjective ==
    \A t, u, k, j, c, d : Put(t, k, c) = Put(u, j, d) => t = u /\ k = j /\ c = d
<1> SUFFICES ASSUME NEW t, NEW u, NEW k, NEW j, NEW c, NEW d, Put(t, k, c) = Put(u, j, d)
             PROVE  t = u /\ k = j /\ c = d
    OBVIOUS
<1>1. /\ Put(t, k, c).table = t /\ Put(t, k, c).key = k /\ Put(t, k, c).content = c
      /\ Put(u, j, d).table = u /\ Put(u, j, d).key = j /\ Put(u, j, d).content = d
    BY DEF Put
<1> QED
    BY <1>1

\* What the type table and the plans are made of.
LEMMA PlanSets ==
    ASSUME TypeOK
    PROVE  /\ In(v1) \subseteq Key /\ In(v2) \subseteq Key
           /\ TypeA \subseteq In(v2) /\ TypeB \subseteq In(v2) /\ TypeA \cup TypeB = In(v2)
           /\ TypeA \cap TypeB = {}
           /\ TypeC \subseteq In(v1) /\ TypeC \cap In(v2) = {}
           /\ Entries = TypeA \cup TypeB \cup TypeC
           /\ Entries \subseteq Key /\ IsFiniteSet(Entries)
           /\ \A k \in TypeA \cup TypeC : Original(k) \in In(v1) /\ Original(k) \in Key
<1>1. /\ In(v1) \subseteq Key /\ In(v2) \subseteq Key
      /\ TypeA \subseteq In(v2) /\ TypeB \subseteq In(v2) /\ TypeA \cup TypeB = In(v2)
      /\ TypeA \cap TypeB = {} /\ TypeC \subseteq In(v1)
    BY DEF In, TypeA, TypeB, TypeC
<1>2. TypeC \cap In(v2) = {}
    BY DEF TypeC, Same
<1>3. Entries = TypeA \cup TypeB \cup TypeC
    BY <1>1 DEF Entries
<1>4. Entries \subseteq Key /\ IsFiniteSet(Entries)
    BY <1>1, <1>3, KeysAssumption, FS_Subset
<1>5. ASSUME NEW k \in TypeA \cup TypeC PROVE Original(k) \in In(v1)
  <2>1. Same(v1, k) # {}
      BY <1>5 DEF TypeA, TypeC, Same
  <2> QED
      BY <2>1, OriginalIsKept DEF Same
<1> QED
    BY <1>1, <1>2, <1>3, <1>4, <1>5

\* A plan names items of Key with contents, and what it writes and what it
\* skips are the entries.
IsPlan(writes, skipped) ==
    /\ writes \subseteq Request /\ IsFiniteSet(writes)
    /\ Cardinality(writes) \in Nat /\ skipped \in Nat
    /\ Cardinality(Entries) = Cardinality(writes) + skipped

LEMMA ProjectedIsPlan == ASSUME TypeOK PROVE IsPlan(Projected, Skipped("projected"))
<1> DEFINE W == (In(v2) \ Downless) \cup TypeC
           f == [k \in Key |-> IF k \in In(v2) THEN Put("v1", k, v2[k]) ELSE Put("v1", k, Gone)]
<1>1. W \in SUBSET Entries /\ W \subseteq Key
    BY PlanSets
<1>2. \A k \in In(v2) \ Downless : f[k] = Put("v1", k, v2[k])
    BY PlanSets
<1>3. \A k \in TypeC : f[k] = Put("v1", k, Gone)
  <2> TAKE k \in TypeC
  <2>1. k \in Key /\ k \notin In(v2)
      BY PlanSets
  <2> QED
      BY <2>1
<1>4. Projected = {f[k] : k \in W}
  <2>1. {f[k] : k \in W} = {f[k] : k \in In(v2) \ Downless} \cup {f[k] : k \in TypeC}
      OBVIOUS
  <2>2. {f[k] : k \in In(v2) \ Downless} = Downed(TypeA \cup TypeB)
      BY <1>2, PlanSets DEF Downed
  <2>3. {f[k] : k \in TypeC} = Delete("v1", TypeC)
      BY <1>3 DEF Delete
  <2> QED
      BY <2>1, <2>2, <2>3 DEF Projected
<1>5. \A k \in W : f[k].key = k /\ f[k] \in Request
  <2> TAKE k \in W
  <2>1. k \in Key /\ v2[k] \in Content \cup {Gone}
      BY <1>1 DEF TypeOK, Items
  <2>2. f[k] = Put("v1", k, v2[k]) \/ f[k] = Put("v1", k, Gone)
      BY <2>1
  <2> QED
      BY <2>1, <2>2 DEF Put, Request
<1>6. \A j, k \in W : f[j] = f[k] => j = k
  <2> HIDE DEF f
  <2> QED
      BY <1>5
<1>7. Entries \ W = (TypeA \cup TypeB) \cap Downless
    BY PlanSets
<1>8. Projected \subseteq Request
    BY <1>4, <1>5
<1>9. IsFiniteSet(Entries)
    BY PlanSets
<1> HIDE DEF f, W
<1>10. ExistsBijection(W, Projected)
    BY <1>4, <1>6, OneRequestEach
<1>11. /\ IsFiniteSet(Projected) /\ Cardinality(Projected) \in Nat
       /\ Cardinality(Entries \ W) \in Nat
       /\ Cardinality(Entries) = Cardinality(Projected) + Cardinality(Entries \ W)
    BY <1>1, <1>9, <1>10, Tally
<1> QED
    BY <1>7, <1>8, <1>11 DEF IsPlan, Skipped

LEMMA FillOnlyIsPlan == ASSUME TypeOK PROVE IsPlan(FillOnly, Skipped("fill-only"))
<1> DEFINE W == TypeB \ Downless
           f == [k \in Key |-> Put("v1", k, v2[k])]
<1>1. W \in SUBSET Entries /\ W \subseteq Key
    BY PlanSets
<1>2. \A k \in W : f[k] = Put("v1", k, v2[k])
    BY <1>1
<1>3. FillOnly = {f[k] : k \in W}
    BY <1>2 DEF FillOnly, Downed
<1>4. \A k \in W : f[k] \in Request
    BY <1>1 DEF TypeOK, Items, Put, Request
<1>5. \A j, k \in W : f[j] = f[k] => j = k
    BY <1>2 DEF Put
<1>6. Entries \ W = TypeA \cup TypeC \cup (TypeB \cap Downless)
    BY PlanSets
<1>7. FillOnly \subseteq Request
    BY <1>3, <1>4
<1>8. IsFiniteSet(Entries)
    BY PlanSets
<1> HIDE DEF f, W
<1>9. ExistsBijection(W, FillOnly)
    BY <1>3, <1>5, OneRequestEach
<1>10. /\ IsFiniteSet(FillOnly) /\ Cardinality(FillOnly) \in Nat
       /\ Cardinality(Entries \ W) \in Nat
       /\ Cardinality(Entries) = Cardinality(FillOnly) + Cardinality(Entries \ W)
    BY <1>1, <1>8, <1>9, Tally
<1> QED
    BY <1>6, <1>7, <1>10 DEF IsPlan, Skipped

\* A set of deletions counts its keys.
LEMMA DeleteCounts ==
    ASSUME NEW t \in {"v1", "v2"}, NEW K \in SUBSET Key
    PROVE  /\ Delete(t, K) \subseteq Request /\ IsFiniteSet(Delete(t, K))
           /\ Cardinality(Delete(t, K)) = Cardinality(K) /\ Cardinality(K) \in Nat
<1> DEFINE f == [k \in Key |-> Put(t, k, Gone)]
<1>1. IsFiniteSet(K) /\ Cardinality(K) \in Nat
    BY KeysAssumption, FS_Subset, FS_CardinalityType
<1>2. \A k \in K : f[k] = Put(t, k, Gone)
    OBVIOUS
<1>3. Delete(t, K) = {f[k] : k \in K}
    BY <1>2 DEF Delete
<1>4. \A j, k \in K : f[j] = f[k] => j = k
    BY <1>2 DEF Put
<1>5. Delete(t, K) \subseteq Request
    BY DEF Delete, Put, Request
<1> HIDE DEF f
<1>6. ExistsBijection(K, Delete(t, K))
    BY <1>3, <1>4, OneRequestEach
<1> QED
    BY <1>1, <1>5, <1>6, FS_Bijection

LEMMA SnapshotIsPlan ==
    ASSUME TypeOK
    PROVE  /\ IsPlan(Snapshot, Skipped("snapshot"))
           /\ IsPlan({}, Cardinality(Entries))
<1>1. /\ Snapshot \subseteq Request /\ IsFiniteSet(Snapshot)
      /\ Cardinality(Snapshot) = Cardinality(TypeB) /\ Cardinality(TypeB) \in Nat
    BY PlanSets, DeleteCounts DEF Snapshot
<1>2. Entries \cap TypeB = TypeB /\ Entries \ TypeB = TypeA \cup TypeC
    BY PlanSets
<1>3. /\ Cardinality(Entries) \in Nat /\ Cardinality(TypeA \cup TypeC) \in Nat
      /\ Cardinality(TypeA \cup TypeC) = Cardinality(Entries) - Cardinality(TypeB)
  <2>1. IsFiniteSet(Entries) /\ IsFiniteSet(Entries \ TypeB)
      BY PlanSets, FS_Difference
  <2>2. Cardinality(Entries \ TypeB) = Cardinality(Entries) - Cardinality(TypeB)
      BY <1>2, <2>1, FS_Difference
  <2> QED
      BY <1>2, <2>1, <2>2, FS_CardinalityType
<1>4. Skipped("snapshot") = Cardinality(TypeA \cup TypeC)
    BY DEF Skipped
<1>5. IsFiniteSet({}) /\ Cardinality({}) = 0
    BY FS_EmptySet
<1>6. IsPlan(Snapshot, Skipped("snapshot"))
    BY <1>1, <1>3, <1>4 DEF IsPlan
<1>7. IsPlan({}, Cardinality(Entries))
    BY <1>3, <1>5 DEF IsPlan
<1> QED
    BY <1>6, <1>7

\* The answers of a custom resolver that name no item twice.
CustomItem(k, keepV2)        == IF k \in keepV2 THEN k ELSE Original(k)
CustomNulls(keepV1, keepV2)  == Entries \ (keepV1 \cup keepV2)
CustomWrites(keepV1, keepV2) ==
    {Put("v1", Original(k), v1[Original(k)]) : k \in keepV1}
        \cup {Put("v1", k, v2[k]) : k \in keepV2}
        \cup Delete("v1", {Original(k) : k \in CustomNulls(keepV1, keepV2) \ TypeB})

CustomAnswers(keepV1, keepV2) ==
    /\ keepV1 \in SUBSET (TypeA \cup TypeC) /\ keepV2 \in SUBSET In(v2)
    /\ keepV1 \cap keepV2 = {}
    /\ \A j, k \in Entries \ (CustomNulls(keepV1, keepV2) \cap TypeB) :
          CustomItem(j, keepV2) = CustomItem(k, keepV2) => j = k

LEMMA CustomIsAnswered ==
    ASSUME ExecuteCustom
    PROVE  \E keepV1, keepV2 :
              /\ CustomAnswers(keepV1, keepV2)
              /\ Classify(CustomWrites(keepV1, keepV2),
                          Cardinality(CustomNulls(keepV1, keepV2) \cap TypeB))
<1>1. PICK keepV1 \in SUBSET (TypeA \cup TypeC), keepV2 \in SUBSET In(v2) :
         LET nulls   == Entries \ (keepV1 \cup keepV2)
             item(k) == IF k \in keepV2 THEN k ELSE Original(k)
             written == Entries \ (nulls \cap TypeB)
         IN  /\ keepV1 \cap keepV2 = {}
             /\ \A j, k \in written : item(j) = item(k) => j = k
             /\ Classify({Put("v1", Original(k), v1[Original(k)]) : k \in keepV1}
                           \cup {Put("v1", k, v2[k]) : k \in keepV2}
                           \cup Delete("v1", {Original(k) : k \in nulls \ TypeB}),
                         Cardinality(nulls \cap TypeB))
    BY DEF ExecuteCustom
<1>2. CustomAnswers(keepV1, keepV2)
    BY <1>1 DEF CustomAnswers, CustomNulls, CustomItem
<1>3. Classify(CustomWrites(keepV1, keepV2),
               Cardinality(CustomNulls(keepV1, keepV2) \cap TypeB))
    BY <1>1 DEF CustomWrites, CustomNulls
<1> QED
    BY <1>2, <1>3

LEMMA CustomIsPlan ==
    ASSUME TypeOK, NEW keepV1, NEW keepV2, CustomAnswers(keepV1, keepV2)
    PROVE  IsPlan(CustomWrites(keepV1, keepV2),
                  Cardinality(CustomNulls(keepV1, keepV2) \cap TypeB))
<1> DEFINE nulls == CustomNulls(keepV1, keepV2)
           W == Entries \ (nulls \cap TypeB)
           content(k) == IF k \in keepV2 THEN v2[k]
                         ELSE IF k \in keepV1 THEN v1[Original(k)] ELSE Gone
           f == [k \in W |-> Put("v1", CustomItem(k, keepV2), content(k))]
<1>s. /\ keepV1 \subseteq TypeA \cup TypeC /\ keepV2 \subseteq In(v2)
      /\ keepV1 \cap keepV2 = {}
    BY DEF CustomAnswers
<1>1. W \in SUBSET Entries /\ W = keepV1 \cup keepV2 \cup (nulls \ TypeB)
    BY <1>s, PlanSets DEF CustomNulls
<1>2. \A k \in keepV1 : f[k] = Put("v1", Original(k), v1[Original(k)])
  <2> TAKE k \in keepV1
  <2>1. k \in W /\ k \notin keepV2
      BY <1>s, <1>1
  <2> QED
      BY <2>1 DEF CustomItem
<1>3. \A k \in keepV2 : f[k] = Put("v1", k, v2[k])
  <2> TAKE k \in keepV2
  <2>1. k \in W
      BY <1>1
  <2> QED
      BY <2>1 DEF CustomItem
<1>4. \A k \in nulls \ TypeB : f[k] = Put("v1", Original(k), Gone)
  <2> TAKE k \in nulls \ TypeB
  <2>1. k \in W /\ k \notin keepV2 /\ k \notin keepV1
      BY <1>1 DEF CustomNulls
  <2> QED
      BY <2>1 DEF CustomItem
<1>5. CustomWrites(keepV1, keepV2) = {f[k] : k \in W}
  <2>1. {f[k] : k \in W} = {f[k] : k \in keepV1} \cup {f[k] : k \in keepV2}
                             \cup {f[k] : k \in nulls \ TypeB}
      BY <1>1
  <2>2. {f[k] : k \in keepV1} = {Put("v1", Original(k), v1[Original(k)]) : k \in keepV1}
      BY <1>2
  <2>3. {f[k] : k \in keepV2} = {Put("v1", k, v2[k]) : k \in keepV2}
      BY <1>3
  <2>4. {f[k] : k \in nulls \ TypeB} = Delete("v1", {Original(k) : k \in nulls \ TypeB})
      BY <1>4 DEF Delete
  <2> QED
      BY <2>1, <2>2, <2>3, <2>4 DEF CustomWrites
<1>6. \A k \in W : f[k] \in Request
  <2> TAKE k \in W
  <2>1. CASE k \in keepV2
    <3>1. k \in Key /\ v2[k] \in Content \cup {Gone}
        BY <2>1, <1>s, PlanSets DEF TypeOK, Items
    <3> QED
        BY <1>3, <2>1, <3>1 DEF Put, Request
  <2>2. CASE k \in keepV1
    <3>1. Original(k) \in Key
        BY <2>2, <1>s, PlanSets
    <3>2. v1[Original(k)] \in Content \cup {Gone}
        BY <3>1 DEF TypeOK, Items
    <3> QED
        BY <1>2, <2>2, <3>1, <3>2 DEF Put, Request
  <2>3. CASE k \in nulls \ TypeB
    <3>1. Original(k) \in Key
        BY <2>3, PlanSets DEF CustomNulls
    <3> QED
        BY <1>4, <2>3, <3>1 DEF Put, Request
  <2> QED
      BY <1>1, <2>1, <2>2, <2>3
<1>7. \A j, k \in W : f[j] = f[k] => j = k
  <2> TAKE j \in W, k \in W
  <2>1. f[j] = f[k] => CustomItem(j, keepV2) = CustomItem(k, keepV2)
      BY PutInjective
  <2> QED
      BY <2>1 DEF CustomAnswers
<1>8. Entries \ W = nulls \cap TypeB
    BY PlanSets DEF CustomNulls
<1>9. CustomWrites(keepV1, keepV2) \subseteq Request
    BY <1>5, <1>6
<1>10. IsFiniteSet(Entries)
    BY PlanSets
<1> DEFINE writes == CustomWrites(keepV1, keepV2)
<1> HIDE DEF f, W, nulls, writes
<1>11. /\ IsFiniteSet(writes) /\ Cardinality(writes) \in Nat
       /\ Cardinality(Entries \ W) \in Nat
       /\ Cardinality(Entries) = Cardinality(writes) + Cardinality(Entries \ W)
  <2>1. writes = {f[k] : k \in W}
      BY <1>5 DEF writes
  <2>2. ExistsBijection(W, writes)
      BY <2>1, <1>7, OneRequestEach
  <2> QED
      BY <2>2, <1>1, <1>10, Tally
<1> QED
    BY <1>8, <1>9, <1>11 DEF IsPlan, nulls, writes

(***************************************************************************)
(* Types.                                                                   *)
(***************************************************************************)
Typed == TypeOK /\ IsFiniteSet(batch)

LEMMA InitTyped == Init => Typed
<1> SUFFICES ASSUME Init PROVE Typed
    OBVIOUS
<1>1. IsFiniteSet(batch)
    BY FS_EmptySet DEF Init
<1>2. Empty \in Items /\ Zero \in Counts /\ 0 \in 0 .. MaxAttempts + 1
    BY MaxAttemptsAssumption DEF Empty, Items, Zero, Counts
<1> QED
    BY <1>1, <1>2 DEF Init, Typed, TypeOK, State!LockState, Job

\* The count audit d of a step that adds to two counters of c.
LEMMA Counting ==
    ASSUME NEW c \in Counts, NEW n, NEW m, NEW d
    PROVE  /\ d = [c EXCEPT !.scanned = @ + n, !.skipped = @ + m] =>
                d = [scanned |-> c.scanned + n, written |-> c.written,
                     deleted |-> c.deleted, skipped |-> c.skipped + m]
           /\ d = [c EXCEPT !.scanned = @ + n, !.deleted = @ + m] =>
                d = [scanned |-> c.scanned + n, written |-> c.written,
                     deleted |-> c.deleted + m, skipped |-> c.skipped]
           /\ d = [c EXCEPT !.written = @ + n, !.deleted = @ + m] =>
                d = [scanned |-> c.scanned, written |-> c.written + n,
                     deleted |-> c.deleted + m, skipped |-> c.skipped]
<1>1. c = [scanned |-> c.scanned, written |-> c.written,
           deleted |-> c.deleted, skipped |-> c.skipped]
    BY DEF Counts
<1>2. d = [c EXCEPT !.scanned = @ + n, !.skipped = @ + m] =>
        d = [scanned |-> c.scanned + n, written |-> c.written,
             deleted |-> c.deleted, skipped |-> c.skipped + m]
    BY <1>1
<1>3. d = [c EXCEPT !.scanned = @ + n, !.deleted = @ + m] =>
        d = [scanned |-> c.scanned + n, written |-> c.written,
             deleted |-> c.deleted + m, skipped |-> c.skipped]
    BY <1>1
<1>4. d = [c EXCEPT !.written = @ + n, !.deleted = @ + m] =>
        d = [scanned |-> c.scanned, written |-> c.written + n,
             deleted |-> c.deleted + m, skipped |-> c.skipped]
    BY <1>1
<1> QED
    BY <1>2, <1>3, <1>4

LEMMA CountsAreNat ==
    ASSUME NEW c \in Counts
    PROVE  c.scanned \in Nat /\ c.written \in Nat /\ c.deleted \in Nat /\ c.skipped \in Nat
<1> QED
    BY DEF Counts

\* What the steps of a command do to its counters.
LEMMA PageCounts ==
    ASSUME audit \in Counts, NEW n \in Nat, NEW m \in Nat, audit' = Scanned(n, m)
    PROVE  /\ audit' = [scanned |-> audit.scanned + n, written |-> audit.written,
                        deleted |-> audit.deleted, skipped |-> audit.skipped + m]
           /\ audit' \in Counts
<1>1. audit' = [audit EXCEPT !.scanned = @ + n, !.skipped = @ + m]
    BY DEF Scanned
<1>2. audit' = [scanned |-> audit.scanned + n, written |-> audit.written,
                deleted |-> audit.deleted, skipped |-> audit.skipped + m]
  <2>1. audit = [scanned |-> audit.scanned, written |-> audit.written,
                 deleted |-> audit.deleted, skipped |-> audit.skipped]
      BY DEF Counts
  <2> QED
      BY <1>1, <2>1
<1> QED
    BY <1>2, CountsAreNat DEF Counts

LEMMA RecordCounts ==
    ASSUME audit \in Counts, FinalizeRecord
    PROVE  /\ audit' = [scanned |-> audit.scanned + 1, written |-> audit.written,
                        deleted |-> audit.deleted + 1, skipped |-> audit.skipped]
           /\ audit' \in Counts
<1>1. audit' = [audit EXCEPT !.scanned = @ + 1, !.deleted = @ + 1]
    BY DEF FinalizeRecord
<1>2. audit' = [scanned |-> audit.scanned + 1, written |-> audit.written,
                deleted |-> audit.deleted + 1, skipped |-> audit.skipped]
    BY <1>1, Counting
<1> QED
    BY <1>2, CountsAreNat DEF Counts

LEMMA FlushCounts ==
    ASSUME audit \in Counts, IsFiniteSet(batch), Flushed
    PROVE  \E n, m \in Nat :
              /\ n + m = Cardinality(batch)
              /\ audit' = [scanned |-> audit.scanned, written |-> audit.written + n,
                           deleted |-> audit.deleted + m, skipped |-> audit.skipped]
              /\ audit' \in Counts
<1>1. PICK deletes \in SUBSET batch :
         audit' = [audit EXCEPT !.written = @ + Cardinality(batch \ deletes),
                                !.deleted = @ + Cardinality(deletes)]
  <2>1. {q \in batch : q.content = Gone} \in SUBSET batch
      OBVIOUS
  <2> QED
      BY <2>1 DEF Flushed
<1>2. /\ Cardinality(batch) \in Nat /\ Cardinality(deletes) \in Nat
      /\ Cardinality(batch \ deletes) \in Nat
      /\ Cardinality(batch \ deletes) = Cardinality(batch) - Cardinality(deletes)
  <2>1. batch \cap deletes = deletes
      OBVIOUS
  <2> QED
      BY <2>1, FS_Subset, FS_Difference, FS_CardinalityType
<1>3. audit' = [scanned |-> audit.scanned,
                written |-> audit.written + Cardinality(batch \ deletes),
                deleted |-> audit.deleted + Cardinality(deletes), skipped |-> audit.skipped]
    BY <1>1, Counting
<1>4. audit' \in Counts
    BY <1>2, <1>3, CountsAreNat DEF Counts
<1> QED
    BY <1>2, <1>3, <1>4

\* A page of apply writes the records up() translates and skips the others.
LEMMA PageIsTallied ==
    ASSUME TypeOK, NEW page \in SUBSET Key,
           NEW writes, writes = {Put("v2", k, v1[k]) : k \in page \ Upless}
    PROVE  /\ writes \subseteq Request /\ IsFiniteSet(writes)
           /\ Cardinality(writes) \in Nat /\ Cardinality(page \cap Upless) \in Nat
           /\ Cardinality(page) = Cardinality(writes) + Cardinality(page \cap Upless)
<1> DEFINE W == page \ Upless
           f == [k \in W |-> Put("v2", k, v1[k])]
<1>1. writes = {f[k] : k \in W} /\ \A k \in W : f[k] = Put("v2", k, v1[k])
    OBVIOUS
<1>2. \A j, k \in W : f[j] = f[k] => j = k
    BY <1>1 DEF Put
<1>3. writes \subseteq Request
    BY DEF TypeOK, Items, Put, Request
<1>4. IsFiniteSet(page) /\ W \subseteq page /\ page \ W = page \cap Upless
    BY KeysAssumption, FS_Subset
<1> HIDE DEF f, W
<1>5. ExistsBijection(W, writes)
    BY <1>1, <1>2, OneRequestEach
<1>6. /\ IsFiniteSet(writes) /\ Cardinality(writes) \in Nat /\ Cardinality(page \ W) \in Nat
      /\ Cardinality(page) = Cardinality(writes) + Cardinality(page \ W)
    BY <1>4, <1>5, Tally
<1> QED
    BY <1>3, <1>4, <1>6

\* Whatever a strategy does, it carries out a plan.
LEMMA StrategiesPlan ==
    ASSUME TypeOK, Execute \/ ExecuteCustom
    PROVE  \E writes, skipped : IsPlan(writes, skipped) /\ Classify(writes, skipped)
<1>1. CASE Execute
  <2>1. \/ Classify(Projected, Skipped("projected"))
        \/ Classify(FillOnly, Skipped("fill-only"))
        \/ Classify(Snapshot, Skipped("snapshot"))
        \/ Classify({}, Cardinality(Entries))
      BY <1>1 DEF Execute
  <2>2. /\ IsPlan(Projected, Skipped("projected"))
        /\ IsPlan(FillOnly, Skipped("fill-only"))
        /\ IsPlan(Snapshot, Skipped("snapshot"))
        /\ IsPlan({}, Cardinality(Entries))
      BY ProjectedIsPlan, FillOnlyIsPlan, SnapshotIsPlan
  <2> QED
      BY <2>1, <2>2
<1>2. CASE ExecuteCustom
  <2>1. PICK keepV1, keepV2 :
           /\ CustomAnswers(keepV1, keepV2)
           /\ Classify(CustomWrites(keepV1, keepV2),
                       Cardinality(CustomNulls(keepV1, keepV2) \cap TypeB))
      BY <1>2, CustomIsAnswered
  <2>2. IsPlan(CustomWrites(keepV1, keepV2),
               Cardinality(CustomNulls(keepV1, keepV2) \cap TypeB))
      BY <2>1, CustomIsPlan
  <2> QED
      BY <2>1, <2>2
<1> QED
    BY <1>1, <1>2

LEMMA WrittenIsItems ==
    ASSUME NEW t \in Items, NEW name, NEW done \in SUBSET Request
    PROVE  Written(t, name, done) \in Items
<1> SUFFICES ASSUME NEW k \in Key, \E q \in done : q.table = name /\ q.key = k
             PROVE  (CHOOSE q \in done : q.table = name /\ q.key = k).content
                        \in Content \cup {Gone}
    BY DEF Written, Items
<1>1. (CHOOSE q \in done : q.table = name /\ q.key = k) \in done
    OBVIOUS
<1> QED
    BY <1>1 DEF Request

LEMMA TypeStep ==
    ASSUME Typed, Next PROVE Typed'
<1> USE DEF Typed
<1>z. /\ Empty \in Items /\ Zero \in Counts
      /\ 0 \in 0 .. MaxAttempts + 1 /\ IsFiniteSet({})
    BY MaxAttemptsAssumption, FS_EmptySet DEF Empty, Items, Zero, Counts
<1>s. /\ {"free", "apply", "rollback", "finalize", "release", "failed"} \subseteq State!LockState
      /\ "none" \in Job /\ "apply" \in Job /\ "finalize" \in Job /\ "case-1" \in Job
      /\ Strategy \subseteq Job
    BY DEF State!LockState, Job
<1>1. CASE AppWrite
    BY <1>1 DEF AppWrite, TypeOK, Items, run
<1>2. CASE StartApply \/ StartFinalize
  <2>1. In(v1) \subseteq Key
      BY DEF In
  <2> QED
      BY <1>2, <1>z, <1>s, <2>1 DEF StartApply, StartFinalize, Begin, TypeOK, tables
<1>3. CASE StartRollback
  <2>1. /\ \/ Begin("rollback", "case-1", In(v2))
           \/ \E s \in Strategy : Begin("rollback", s, {})
        /\ was' = [v1 |-> v1, v2 |-> v2] /\ UNCHANGED <<tables, shape, status>>
      BY <1>3 DEF StartRollback
  <2>2. In(v2) \subseteq Key
      BY DEF In
  <2> QED
      BY <2>1, <2>2, <1>z, <1>s DEF Begin, TypeOK, tables
<1>4. CASE ApplyPage
  <2>1. PICK page \in SUBSET left :
           /\ left' = left \ page
           /\ audit' = Scanned(Cardinality(page), Cardinality(page \cap Upless))
           /\ Flush({Put("v2", k, v1[k]) : k \in page \ Upless})
      BY <1>4 DEF ApplyPage
  <2>2. page \in SUBSET Key
      BY DEF TypeOK
  <2>3. /\ batch' \subseteq Request /\ IsFiniteSet(batch')
        /\ Cardinality(page) \in Nat /\ Cardinality(page \cap Upless) \in Nat
    <3> DEFINE writes == {Put("v2", k, v1[k]) : k \in page \ Upless}
    <3>1. batch' = writes
        BY <2>1 DEF Flush
    <3>2. /\ writes \subseteq Request /\ IsFiniteSet(writes) /\ Cardinality(writes) \in Nat
          /\ Cardinality(page \cap Upless) \in Nat
          /\ Cardinality(page) = Cardinality(writes) + Cardinality(page \cap Upless)
        BY <2>2, PageIsTallied
    <3> HIDE DEF writes
    <3> QED
        BY <3>1, <3>2
  <2>4. audit' \in Counts
      BY <2>1, <2>3, PageCounts DEF TypeOK
  <2> QED
      BY <1>4, <1>z, <2>1, <2>3, <2>4 DEF ApplyPage, Flush, TypeOK, tables
<1>5. CASE Case1Page
  <2>1. PICK page \in SUBSET left :
           /\ left' = left \ page
           /\ audit' = Scanned(Cardinality(page), 0)
           /\ Flush(Delete("v2", page))
      BY <1>5 DEF Case1Page
  <2>2. page \in SUBSET Key
      BY DEF TypeOK
  <2>3. batch' \subseteq Request /\ IsFiniteSet(batch') /\ Cardinality(page) \in Nat
      BY <2>1, <2>2, DeleteCounts DEF Flush
  <2>4. audit' \in Counts
      BY <2>1, <2>3, PageCounts DEF TypeOK
  <2> QED
      BY <1>5, <1>z, <2>1, <2>3, <2>4 DEF Case1Page, Flush, TypeOK, tables
<1>6. CASE FinalizeRecord
    BY <1>6, RecordCounts DEF FinalizeRecord, TypeOK, Items
<1>7. CASE Scan
    BY <1>7 DEF Scan, TypeOK, tables
<1>8. CASE Execute \/ ExecuteCustom
  <2>1. PICK writes, skipped : IsPlan(writes, skipped) /\ Classify(writes, skipped)
      BY <1>8, StrategiesPlan
  <2>2. UNCHANGED <<tables, shape, lock, status, job, left, was>>
      BY <1>8 DEF Execute, ExecuteCustom
  <2>3. Cardinality(Entries) \in Nat /\ skipped \in Nat
      BY <2>1 DEF IsPlan
  <2>4. audit' \in Counts
      BY <2>1, <2>3, PageCounts DEF Classify, TypeOK
  <2> QED
      BY <1>z, <2>1, <2>2, <2>4 DEF IsPlan, Classify, Flush, TypeOK, tables
<1>9. CASE Send
  <2>1. PICK done \in SUBSET rest :
           /\ v1' = Written(v1, "v1", done) /\ v2' = Written(v2, "v2", done)
           /\ app' = IF job = "snapshot" THEN Written(app, "v2", done) ELSE app
           /\ rest' = rest \ done
      BY <1>9 DEF Send
  <2>2. done \in SUBSET Request
      BY DEF TypeOK
  <2>3. v1' \in Items /\ v2' \in Items /\ app' \in Items
      BY <2>1, <2>2, WrittenIsItems DEF TypeOK
  <2>4. attempt' \in 0 .. MaxAttempts + 1
      BY <1>9, MaxAttemptsAssumption DEF Send, MayTry, TypeOK
  <2> QED
      BY <1>9, <2>1, <2>3, <2>4 DEF Send, TypeOK
<1>10. CASE Flushed
  <2>1. audit' \in Counts
      BY <1>10, FlushCounts DEF TypeOK
  <2> QED
      BY <1>10, <1>z, <2>1 DEF Flushed, TypeOK, tables
<1>11. CASE Commit
    BY <1>11, <1>z, <1>s DEF Commit, Stop, TypeOK, tables
<1>12. CASE ClearFinalize
    BY <1>12, <1>z, <1>s DEF ClearFinalize, Stop, TypeOK, tables
<1>13. CASE Fail \/ Die
    BY <1>13, <1>z, <1>s DEF Fail, Die, Stop, TypeOK, tables
<1>14. CASE UnlockDead \/ UnlockFailed
    BY <1>14, <1>s DEF UnlockDead, UnlockFailed, TypeOK, tables, run
<1>15. CASE Release
  <2>1. Believed \in Items
      BY DEF Believed, TypeOK, Items
  <2> QED
      BY <1>15, <1>z, <1>s, <2>1 DEF Release, TypeOK, run
<1> QED
    BY <1>1, <1>2, <1>3, <1>4, <1>5, <1>6, <1>7, <1>8, <1>9, <1>10, <1>11, <1>12, <1>13,
       <1>14, <1>15 DEF Next

LEMMA TypeInvariant == Spec => []Typed
<1>1. Typed /\ [Next]_vars => Typed'
  <2>1. UNCHANGED vars /\ Typed => Typed'
      BY DEF vars, Typed, TypeOK
  <2> QED
      BY <2>1, TypeStep
<1> QED
    BY InitTyped, <1>1, PTL DEF Spec

\* Tables, batches, counters and the lock keep their types: the requests still
\* unprocessed are of the current flush, and no flush outlives its retries.
THEOREM RecordTypes == Spec => []TypeOK
<1>1. Typed => TypeOK
    BY DEF Typed
<1> QED
    BY TypeInvariant, <1>1, PTL

(***************************************************************************)
(* The count audit.  Scanned records are accounted for at every stage: those *)
(* of the flush under way are still to be counted as written or deleted.    *)
(***************************************************************************)
Counted(pending) == audit.scanned = audit.written + audit.deleted + audit.skipped + pending

CountInv ==
    /\ pc \in {"scan", "commit"} => Counted(0)
    /\ pc = "flush" => Counted(Cardinality(batch))

LEMMA InitCountInv == Init => CountInv
<1> QED
    BY DEF Init, CountInv

LEMMA BalancedIsCounted ==
    ASSUME audit \in Counts PROVE Balanced <=> Counted(0)
<1> QED
    BY CountsAreNat DEF Balanced, Counted

LEMMA CountStep ==
    ASSUME Typed, CountInv, Next PROVE CountInv'
<1> USE DEF CountInv, Counted
<1>t. /\ audit.scanned \in Nat /\ audit.written \in Nat
      /\ audit.deleted \in Nat /\ audit.skipped \in Nat /\ audit \in Counts
    BY CountsAreNat DEF Typed, TypeOK
<1>1. CASE AppWrite \/ UnlockDead \/ UnlockFailed \/ Release
    BY <1>1 DEF AppWrite, UnlockDead, UnlockFailed, Release, run
<1>2. CASE StartApply \/ StartFinalize \/ StartRollback
  <2>1. audit' = Zero /\ pc' = "scan"
      BY <1>2 DEF StartApply, StartFinalize, StartRollback, Begin
  <2> QED
      BY <2>1 DEF Zero
<1>3. CASE ApplyPage
  <2>1. PICK page \in SUBSET left :
           /\ audit' = Scanned(Cardinality(page), Cardinality(page \cap Upless))
           /\ Flush({Put("v2", k, v1[k]) : k \in page \ Upless})
      BY <1>3 DEF ApplyPage
  <2>2. page \in SUBSET Key
      BY DEF Typed, TypeOK
  <2> DEFINE writes == {Put("v2", k, v1[k]) : k \in page \ Upless}
  <2>3. /\ batch' = writes /\ pc' = "flush" /\ Counted(0)
      BY <1>3, <2>1 DEF Flush, ApplyPage
  <2>4. /\ Cardinality(writes) \in Nat /\ Cardinality(page \cap Upless) \in Nat
        /\ Cardinality(page) = Cardinality(writes) + Cardinality(page \cap Upless)
      BY <2>2, PageIsTallied DEF Typed
  <2> HIDE DEF writes
  <2>5. Cardinality(page) \in Nat
      BY <2>4
  <2>6. audit' = [scanned |-> audit.scanned + Cardinality(page), written |-> audit.written,
                  deleted |-> audit.deleted,
                  skipped |-> audit.skipped + Cardinality(page \cap Upless)]
      BY <1>t, <2>1, <2>4, <2>5, PageCounts
  <2> QED
      BY <1>t, <2>3, <2>4, <2>5, <2>6
<1>4. CASE Case1Page
  <2>1. PICK page \in SUBSET left :
           audit' = Scanned(Cardinality(page), 0) /\ Flush(Delete("v2", page))
      BY <1>4 DEF Case1Page
  <2>2. page \in SUBSET Key
      BY DEF Typed, TypeOK
  <2>3. /\ Cardinality(Delete("v2", page)) = Cardinality(page)
        /\ Cardinality(page) \in Nat
      BY <2>2, DeleteCounts
  <2>4. /\ batch' = Delete("v2", page) /\ pc' = "flush" /\ Counted(0)
      BY <1>4, <2>1 DEF Flush, Case1Page
  <2>5. audit' = [scanned |-> audit.scanned + Cardinality(page), written |-> audit.written,
                  deleted |-> audit.deleted, skipped |-> audit.skipped + 0]
      BY <1>t, <2>1, <2>3, PageCounts
  <2> QED
      BY <1>t, <2>3, <2>4, <2>5
<1>5. CASE FinalizeRecord
  <2>1. /\ pc = "scan" /\ UNCHANGED <<pc, batch>> /\ Counted(0)
        /\ audit' = [audit EXCEPT !.scanned = @ + 1, !.deleted = @ + 1]
      BY <1>5 DEF FinalizeRecord
  <2>2. audit' = [scanned |-> audit.scanned + 1, written |-> audit.written,
                  deleted |-> audit.deleted + 1, skipped |-> audit.skipped]
      BY <1>t, <1>5, <2>1, RecordCounts
  <2> QED
      BY <1>t, <2>1, <2>2
<1>6. CASE Scan
    BY <1>6 DEF Scan
<1>7. CASE Execute \/ ExecuteCustom
  <2>1. PICK writes, skipped : IsPlan(writes, skipped) /\ Classify(writes, skipped)
      BY <1>7, StrategiesPlan DEF Typed
  <2>2. /\ batch' = writes /\ pc' = "flush" /\ Counted(0)
        /\ audit' = Scanned(Cardinality(Entries), skipped)
      BY <1>7, <2>1 DEF Classify, Flush, Execute, ExecuteCustom
  <2>3. /\ Cardinality(writes) \in Nat /\ skipped \in Nat
        /\ Cardinality(Entries) = Cardinality(writes) + skipped /\ Cardinality(Entries) \in Nat
      BY <2>1 DEF IsPlan
  <2>4. audit' = [scanned |-> audit.scanned + Cardinality(Entries), written |-> audit.written,
                  deleted |-> audit.deleted, skipped |-> audit.skipped + skipped]
      BY <1>t, <2>2, <2>3, PageCounts
  <2> QED
      BY <1>t, <2>2, <2>3, <2>4
<1>8. CASE Send
    BY <1>8 DEF Send
<1>9. CASE Flushed
  <2>1. PICK n \in Nat, m \in Nat :
              /\ n + m = Cardinality(batch)
              /\ audit' = [scanned |-> audit.scanned, written |-> audit.written + n,
                           deleted |-> audit.deleted + m, skipped |-> audit.skipped]
      BY <1>9, FlushCounts DEF Typed, TypeOK
  <2>2. pc = "flush" /\ pc' \in {"scan", "commit"}
      BY <1>9 DEF Flushed
  <2> QED
      BY <1>t, <2>1, <2>2
<1>10. CASE Commit \/ ClearFinalize \/ Fail \/ Die
    BY <1>10 DEF Commit, ClearFinalize, Fail, Die, Stop
<1> QED
    BY <1>1, <1>2, <1>3, <1>4, <1>5, <1>6, <1>7, <1>8, <1>9, <1>10 DEF Next

\* A run that has written all it had to is never failed by its own count audit
\* (RUN-04, RBK-12), whatever it skips, deletes and retries: every entry of the
\* type table is written once, deleted once or skipped once.
THEOREM AuditAlwaysBalances == Spec => []AuditBalances
<1>1. Typed /\ CountInv /\ [Next]_vars => CountInv'
  <2>1. UNCHANGED vars /\ CountInv => CountInv'
      BY DEF vars, CountInv, Counted
  <2> QED
      BY <2>1, CountStep
<1>2. Typed /\ CountInv => AuditBalances
    BY BalancedIsCounted DEF Typed, TypeOK, CountInv, AuditBalances
<1> QED
    BY InitCountInv, TypeInvariant, <1>1, <1>2, PTL DEF Spec

(***************************************************************************)
(* The stages of a command: its lock, the table its requests are for, and   *)
(* what is left of its scan.                                                *)
(***************************************************************************)
ModeOf(j) == CASE j = "apply"    -> "apply"
               [] j = "finalize" -> "finalize"
               [] OTHER          -> "rollback"

TableOf(j) == IF j \in {"apply", "case-1", "snapshot"} THEN "v2" ELSE "v1"

StageInv ==
    /\ pc # "idle" => job # "none" /\ lock = ModeOf(job)
    /\ pc # "flush" => batch = {} /\ rest = {}
    /\ pc \in {"commit", "clear"} \/ job \in Strategy => left = {}
    /\ pc = "clear" => job = "finalize"
    /\ pc = "flush" => job # "finalize"
    /\ \A q \in batch : q.table = TableOf(job)

LEMMA InitStageInv == Init => StageInv
<1> QED
    BY DEF Init, StageInv

LEMMA PutsAreFor ==
    /\ \A q \in Projected \cup FillOnly : q.table = "v1"
    /\ \A q \in Snapshot : q.table = "v2"
    /\ \A keepV1, keepV2 : \A q \in CustomWrites(keepV1, keepV2) : q.table = "v1"
    /\ \A K : \A q \in Delete("v2", K) : q.table = "v2" /\ q.content = Gone
<1> USE DEF Put, Delete
<1>1. \A q \in Projected \cup FillOnly : q.table = "v1"
    BY DEF Projected, FillOnly, Downed
<1>2. \A q \in Snapshot : q.table = "v2"
    BY DEF Snapshot
<1>3. \A keepV1, keepV2 : \A q \in CustomWrites(keepV1, keepV2) : q.table = "v1"
    BY DEF CustomWrites
<1>4. \A K : \A q \in Delete("v2", K) : q.table = "v2" /\ q.content = Gone
    OBVIOUS
<1> QED
    BY <1>1, <1>2, <1>3, <1>4

LEMMA StageStep ==
    ASSUME Typed, StageInv, Next PROVE StageInv'
<1> USE DEF StageInv
<1>1. CASE AppWrite \/ UnlockDead \/ UnlockFailed \/ Release
  <2>1. UNCHANGED run /\ (UNCHANGED lock \/ pc = "idle")
      BY <1>1 DEF AppWrite, UnlockDead, UnlockFailed, Release
  <2> QED
      BY <2>1 DEF run
<1>2. CASE StartApply
    BY <1>2 DEF StartApply, Begin, ModeOf, Strategy
<1>3. CASE StartFinalize
    BY <1>3 DEF StartFinalize, Begin, ModeOf, Strategy
<1>4. CASE StartRollback
  <2>1. \/ Begin("rollback", "case-1", In(v2))
        \/ \E s \in Strategy : Begin("rollback", s, {})
      BY <1>4 DEF StartRollback
  <2>2. /\ lock' = "rollback" /\ pc' = "scan" /\ batch' = {} /\ rest' = {}
        /\ job' \in {"case-1"} \cup Strategy /\ (job' \in Strategy => left' = {})
      BY <2>1 DEF Begin, Strategy
  <2> QED
      BY <2>2 DEF ModeOf, Strategy
<1>5. CASE ApplyPage
  <2>1. PICK page \in SUBSET left : Flush({Put("v2", k, v1[k]) : k \in page \ Upless})
      BY <1>5 DEF ApplyPage
  <2>2. \A q \in batch' : q.table = "v2"
      BY <2>1 DEF Flush, Put
  <2> QED
      BY <1>5, <2>1, <2>2 DEF ApplyPage, Flush, TableOf, Strategy
<1>6. CASE Case1Page
  <2>1. PICK page \in SUBSET left : Flush(Delete("v2", page))
      BY <1>6 DEF Case1Page
  <2>2. \A q \in batch' : q.table = "v2"
      BY <2>1, PutsAreFor DEF Flush
  <2> QED
      BY <1>6, <2>1, <2>2 DEF Case1Page, Flush, TableOf, Strategy
<1>7. CASE FinalizeRecord
    BY <1>7 DEF FinalizeRecord, Strategy
<1>8. CASE Scan
    BY <1>8 DEF Scan
<1>9. CASE Execute
  <2>1. \/ job = "projected" /\ Flush(Projected)
        \/ job = "fill-only" /\ Flush(FillOnly)
        \/ job = "snapshot" /\ (Flush(Snapshot) \/ Flush({}))
      BY <1>9 DEF Execute, Classify
  <2>2. \A q \in batch' : q.table = TableOf(job)
      BY <2>1, PutsAreFor DEF Flush, TableOf
  <2> QED
      BY <1>9, <2>1, <2>2 DEF Execute, Flush, Strategy, TableOf
<1>10. CASE ExecuteCustom
  <2>1. \E keepV1, keepV2 : Flush(CustomWrites(keepV1, keepV2))
      BY <1>10, CustomIsAnswered DEF Classify
  <2>2. \A q \in batch' : q.table = "v1"
      BY <2>1, PutsAreFor DEF Flush
  <2> QED
      BY <1>10, <2>1, <2>2 DEF ExecuteCustom, Flush, Strategy, TableOf
<1>11. CASE Send
    BY <1>11 DEF Send
<1>12. CASE Flushed
  <2>1. /\ pc = "flush" /\ batch' = {} /\ rest' = {} /\ UNCHANGED <<lock, job, left>>
        /\ pc' = IF job \in {"apply", "case-1"} THEN "scan" ELSE "commit"
      BY <1>12 DEF Flushed
  <2>2. CASE job \in {"apply", "case-1"}
      BY <2>1, <2>2 DEF Strategy
  <2>3. CASE job \notin {"apply", "case-1"}
    <3>1. job \in Strategy
        BY <2>1, <2>3 DEF Typed, TypeOK, Job
    <3> QED
        BY <2>1, <2>3, <3>1
  <2> QED
      BY <2>2, <2>3
<1>13. CASE Commit \/ ClearFinalize \/ Fail \/ Die
    BY <1>13 DEF Commit, ClearFinalize, Fail, Die, Stop
<1> QED
    BY <1>1, <1>2, <1>3, <1>4, <1>5, <1>6, <1>7, <1>8, <1>9, <1>10, <1>11, <1>12, <1>13
    DEF Next

LEMMA StageInvariant == Spec => []StageInv
<1>1. Typed /\ StageInv /\ [Next]_vars => StageInv'
  <2>1. UNCHANGED vars /\ StageInv => StageInv'
      BY DEF vars, StageInv
  <2> QED
      BY <2>1, StageStep
<1> QED
    BY InitStageInv, TypeInvariant, <1>1, PTL DEF Spec

(***************************************************************************)
(* What a rollback owes each key: `c` is a content README 2.1 to 2.3 let    *)
(* the v1 record of `k` have, and a write still to be sent is a debt.  The  *)
(* domain keys tell the records apart (ClaimSortKey shows what happens when *)
(* they do not).                                                            *)
(***************************************************************************)
NoSortKey == \A j, k \in Key : DomainKey[j] = DomainKey[k] => j = k

Kept(k, c) ==
    LET fresh == was.v2[k] # Gone /\ k \notin Downless
    IN  CASE job = "projected" ->
               c = IF fresh THEN was.v2[k]
                   ELSE IF was.v2[k] # Gone THEN was.v1[k] ELSE Gone
          [] job = "fill-only" ->
               c = IF was.v1[k] # Gone THEN was.v1[k]
                   ELSE IF fresh THEN was.v2[k] ELSE Gone
          [] job \in {"case-1", "snapshot"} -> c = was.v1[k]
          [] OTHER -> c \in {was.v1[k], was.v2[k], Gone}

Owed(t, k) == \E q \in rest : q.table = t /\ q.key = k

RollingBack == pc # "idle" /\ job \in {"case-1"} \cup Strategy

PromiseInv ==
    /\ RollingBack =>
         /\ job # "case-1" /\ pc = "scan" => v1 = was.v1 /\ v2 = was.v2
         /\ job = "case-1" \/ pc # "scan" => \A k \in Key : Owed("v1", k) \/ Kept(k, v1[k])
         /\ \A q \in batch : q.table = "v1" => Kept(q.key, q.content)
         /\ job = "case-1" =>
               /\ \A k \in Key : v2[k] = Gone \/ k \in left \/ Owed("v2", k)
               /\ \A q \in batch : q.content = Gone
    /\ pc = "idle" /\ lock = "release" /\ status = "reverted" =>
         \A k \in Key : Kept(k, v1[k]) /\ (job = "case-1" => v2[k] = Gone)

LEMMA InitPromiseInv == Init => PromiseInv
<1> QED
    BY DEF Init, PromiseInv, RollingBack

\* One record to a domain key: every record is its own original.
LEMMA TypesAlone ==
    ASSUME NoSortKey
    PROVE  /\ \A k \in Key : v1[k] # Gone => Original(k) = k
           /\ TypeA = {k \in Key : v2[k] # Gone /\ v1[k] # Gone}
           /\ TypeB = {k \in Key : v2[k] # Gone /\ v1[k] = Gone}
           /\ TypeC = {k \in Key : v1[k] # Gone /\ v2[k] = Gone}
<1>1. \A t, k : k \in Key => Same(t, k) = IF t[k] # Gone THEN {k} ELSE {}
    BY DEF Same, In, NoSortKey
<1>2. \A k \in Key : v1[k] # Gone => Original(k) = k
  <2> TAKE k \in Key
  <2> HAVE v1[k] # Gone
  <2>1. Same(v1, k) = {k} /\ k <= k
      BY <1>1, KeysAssumption
  <2> QED
      BY <2>1 DEF Original
<1>3. TypeA = {k \in Key : v2[k] # Gone /\ v1[k] # Gone}
    BY <1>1 DEF TypeA, In
<1>4. TypeB = {k \in Key : v2[k] # Gone /\ v1[k] = Gone}
    BY <1>3 DEF TypeB, In
<1>5. TypeC = {k \in Key : v1[k] # Gone /\ v2[k] = Gone}
    BY <1>1, <1>2 DEF TypeC, In
<1> QED
    BY <1>2, <1>3, <1>4, <1>5

\* A set of requests that pays what the strategy owes, given the table it found.
Pays(writes) ==
    /\ \A q \in writes : Kept(q.key, q.content)
    /\ \A k \in Key : (\E q \in writes : q.table = "v1" /\ q.key = k) \/ Kept(k, v1[k])

LEMMA ProjectedPays ==
    ASSUME NoSortKey, job = "projected", v1 = was.v1, v2 = was.v2 PROVE Pays(Projected)
<1> USE DEF Put, Kept
<1>1. \A q \in Projected : Kept(q.key, q.content)
    BY TypesAlone DEF Projected, Downed, Delete
<1>2. ASSUME NEW k \in Key
      PROVE  (\E q \in Projected : q.table = "v1" /\ q.key = k) \/ Kept(k, v1[k])
  <2>1. CASE v2[k] # Gone /\ k \notin Downless
    <3>1. Put("v1", k, v2[k]) \in Projected
        BY <2>1, TypesAlone DEF Projected, Downed
    <3> QED
        BY <3>1
  <2>2. CASE v2[k] = Gone /\ v1[k] # Gone
    <3>1. Put("v1", k, Gone) \in Projected
        BY <2>2, TypesAlone DEF Projected, Delete
    <3> QED
        BY <3>1
  <2> QED
      BY <2>1, <2>2
<1> QED
    BY <1>1, <1>2 DEF Pays

LEMMA FillOnlyPays ==
    ASSUME NoSortKey, job = "fill-only", v1 = was.v1, v2 = was.v2 PROVE Pays(FillOnly)
<1> USE DEF Put, Kept
<1>1. \A q \in FillOnly : Kept(q.key, q.content)
    BY TypesAlone DEF FillOnly, Downed
<1>2. ASSUME NEW k \in Key
      PROVE  (\E q \in FillOnly : q.table = "v1" /\ q.key = k) \/ Kept(k, v1[k])
  <2>1. CASE v2[k] # Gone /\ v1[k] = Gone /\ k \notin Downless
    <3>1. Put("v1", k, v2[k]) \in FillOnly
        BY <2>1, TypesAlone DEF FillOnly, Downed
    <3> QED
        BY <3>1
  <2> QED
      BY <2>1
<1> QED
    BY <1>1, <1>2 DEF Pays

LEMMA CustomPays ==
    ASSUME NoSortKey, job = "custom", v1 = was.v1, v2 = was.v2,
           NEW keepV1 \in SUBSET (TypeA \cup TypeC), NEW keepV2 \in SUBSET In(v2)
    PROVE  Pays(CustomWrites(keepV1, keepV2))
<1> USE DEF Put, Kept, Strategy
<1>1. \A q \in CustomWrites(keepV1, keepV2) : Kept(q.key, q.content)
  <2>1. \A k \in keepV1 : k \in Key /\ Original(k) = k
      BY TypesAlone
  <2> QED
      BY <2>1 DEF CustomWrites, Delete
<1>2. \A k \in Key : Kept(k, v1[k])
    OBVIOUS
<1> QED
    BY <1>1, <1>2 DEF Pays

\* What a strategy makes of the table while it classifies, and then flushes.
LEMMA StrategiesPay ==
    ASSUME NoSortKey, Typed, StageInv, PromiseInv, Execute \/ ExecuteCustom
    PROVE  Pays(batch') /\ rest' = batch' /\ pc' = "flush" /\ job # "case-1"
<1>1. pc = "scan" /\ job \in Strategy
    BY DEF Execute, ExecuteCustom, Strategy
<1>2. v1 = was.v1 /\ v2 = was.v2
    BY <1>1 DEF PromiseInv, RollingBack, Strategy
<1>3. CASE Execute
  <2>1. \/ job = "projected" /\ Flush(Projected)
        \/ job = "fill-only" /\ Flush(FillOnly)
        \/ job = "snapshot" /\ (Flush(Snapshot) \/ Flush({}))
      BY <1>3 DEF Execute, Classify
  <2>2. CASE job = "snapshot"
    <3>1. /\ Flush(Snapshot) \/ Flush({})
          /\ \A k \in Key : Kept(k, v1[k])
        BY <1>2, <2>1, <2>2 DEF Kept
    <3>2. \A q \in Snapshot : Kept(q.key, q.content)
        BY <1>2, <2>2, TypesAlone DEF Snapshot, Delete, Put, Kept
    <3> QED
        BY <2>2, <3>1, <3>2 DEF Pays, Flush
  <2> QED
      BY <1>2, <2>1, <2>2, ProjectedPays, FillOnlyPays DEF Flush
<1>4. CASE ExecuteCustom
  <2>1. PICK keepV1, keepV2 :
           CustomAnswers(keepV1, keepV2) /\ Flush(CustomWrites(keepV1, keepV2))
      BY <1>4, CustomIsAnswered DEF Classify
  <2> QED
      BY <1>2, <1>4, <2>1, CustomPays DEF CustomAnswers, Flush, ExecuteCustom
<1> QED
    BY <1>3, <1>4

\* A try of a flush pays some of the debts, and makes no new ones.
LEMMA SendPays ==
    ASSUME Typed, StageInv, Send
    PROVE  \E done \in SUBSET rest :
              /\ rest' = rest \ done
              /\ \A k \in Key :
                    /\ \/ v1'[k] = v1[k] /\ (Owed("v1", k) => Owed("v1", k)')
                       \/ \E q \in done : q.table = "v1" /\ q.key = k /\ v1'[k] = q.content
                    /\ \/ v2'[k] = v2[k] /\ (Owed("v2", k) => Owed("v2", k)')
                       \/ \E q \in done : q.table = "v2" /\ q.key = k /\ v2'[k] = q.content
<1>1. PICK done \in SUBSET rest :
         /\ v1' = Written(v1, "v1", done) /\ v2' = Written(v2, "v2", done)
         /\ rest' = rest \ done
    BY DEF Send
<1>2. ASSUME NEW k \in Key, NEW t \in Items, NEW name \in {"v1", "v2"}
      PROVE  \/ Written(t, name, done)[k] = t[k] /\ (Owed(name, k) => Owed(name, k)')
             \/ \E q \in done : /\ q.table = name /\ q.key = k
                                /\ Written(t, name, done)[k] = q.content
  <2>1. CASE \E q \in done : q.table = name /\ q.key = k
      BY <2>1 DEF Written
  <2>2. CASE ~\E q \in done : q.table = name /\ q.key = k
      BY <1>1, <2>2 DEF Written, Owed
  <2> QED
      BY <2>1, <2>2
<1>3. v1 \in Items /\ v2 \in Items
    BY DEF Typed, TypeOK
<1> QED
    BY <1>1, <1>2, <1>3

LEMMA PromiseStep ==
    ASSUME NoSortKey, Typed, StageInv, PromiseInv, Next PROVE PromiseInv'
<1> USE DEF PromiseInv, RollingBack, Kept
<1>1. CASE AppWrite
  <2>1. UNCHANGED run /\ UNCHANGED lock /\ lock \notin {"apply", "rollback", "release"}
      BY <1>1 DEF AppWrite, State!Gating
  <2>2. pc = "idle" \/ job = "finalize"
      BY <2>1 DEF StageInv, ModeOf
  <2> QED
      BY <2>1, <2>2 DEF run, Strategy
<1>2. CASE UnlockDead \/ UnlockFailed \/ Release
    BY <1>2 DEF UnlockDead, UnlockFailed, Release, run
<1>3. CASE StartApply \/ StartFinalize
    BY <1>3 DEF StartApply, StartFinalize, Begin, Strategy
<1>4. CASE StartRollback
  <2>1. /\ \/ job' = "case-1" /\ left' = In(v2)
           \/ job' \in Strategy
        /\ pc' = "scan" /\ batch' = {} /\ UNCHANGED tables /\ was' = [v1 |-> v1, v2 |-> v2]
      BY <1>4 DEF StartRollback, Begin
  <2> QED
      BY <2>1 DEF tables, In, Strategy
<1>5. CASE ApplyPage \/ FinalizeRecord
    BY <1>5 DEF ApplyPage, FinalizeRecord, Flush, Strategy
<1>6. CASE Case1Page
  <2>1. PICK page \in SUBSET left : left' = left \ page /\ Flush(Delete("v2", page))
      BY <1>6 DEF Case1Page
  <2>2. /\ pc = "scan" /\ job = "case-1" /\ UNCHANGED <<v1, v2, job, was>>
        /\ pc' = "flush" /\ batch' = Delete("v2", page) /\ rest' = batch' /\ rest = {}
      BY <1>6, <2>1 DEF Case1Page, Flush, tables, StageInv
  <2>3. \A q \in batch' : q.table = "v2" /\ q.content = Gone
      BY <2>2, PutsAreFor
  <2>4. \A k \in Key : Kept(k, v1[k])
      BY <2>2 DEF Owed, Strategy
  <2>5. ASSUME NEW k \in Key PROVE v2[k] = Gone \/ k \in left' \/ Owed("v2", k)'
    <3>1. CASE k \in page
      <4>1. Put("v2", k, Gone) \in rest'
          BY <2>2, <3>1 DEF Delete
      <4> QED
          BY <4>1 DEF Put, Owed
    <3>2. CASE k \notin page
        BY <2>1, <2>2, <3>2 DEF Owed
    <3> QED
        BY <3>1, <3>2
  <2> QED
      BY <2>2, <2>3, <2>4, <2>5 DEF Strategy
<1>7. CASE Scan
    BY <1>7 DEF Scan, tables, Owed
<1>8. CASE Execute \/ ExecuteCustom
  <2>1. Pays(batch') /\ rest' = batch' /\ pc' = "flush" /\ job # "case-1"
      BY <1>8, StrategiesPay
  <2>2. UNCHANGED <<v1, v2, job, was>>
      BY <1>8 DEF Execute, ExecuteCustom, tables
  <2> QED
      BY <2>1, <2>2 DEF Pays, Owed
<1>9. CASE Send
  <2>1. PICK done \in SUBSET rest :
           /\ rest' = rest \ done
           /\ \A k \in Key :
                 /\ \/ v1'[k] = v1[k] /\ (Owed("v1", k) => Owed("v1", k)')
                    \/ \E q \in done : q.table = "v1" /\ q.key = k /\ v1'[k] = q.content
                 /\ \/ v2'[k] = v2[k] /\ (Owed("v2", k) => Owed("v2", k)')
                    \/ \E q \in done : q.table = "v2" /\ q.key = k /\ v2'[k] = q.content
      BY <1>9, SendPays
  <2>2. /\ pc = "flush" /\ UNCHANGED <<pc, job, left, batch, was>> /\ done \subseteq batch
      BY <1>9 DEF Send, Typed, TypeOK
  <2> QED
      BY <2>1, <2>2
<1>10. CASE Flushed
  <2>1. /\ rest = {} /\ pc = "flush" /\ batch' = {} /\ rest' = {}
        /\ UNCHANGED <<v1, v2, job, left, was>>
        /\ pc' = IF job \in {"apply", "case-1"} THEN "scan" ELSE "commit"
      BY <1>10 DEF Flushed, tables, Done
  <2> QED
      BY <2>1 DEF Owed, Strategy
<1>11. CASE Commit
  <2>1. /\ pc = "commit" /\ rest = {} /\ left = {} /\ UNCHANGED <<v1, v2, job, was>>
      BY <1>11 DEF Commit, tables, StageInv
  <2>2. \/ job = "finalize" /\ pc' = "clear"
        \/ job = "apply" /\ pc' = "idle" /\ status' = "applied"
        \/ job \notin {"apply", "finalize"} /\ pc' = "idle"
      BY <1>11 DEF Commit, Stop
  <2>3. job \in Job \ {"none"}
      BY <2>1 DEF Typed, TypeOK, StageInv
  <2> QED
      BY <2>1, <2>2, <2>3 DEF Owed, Job, Strategy
<1>12. CASE ClearFinalize \/ Fail
    BY <1>12 DEF ClearFinalize, Fail, Stop
<1>13. CASE Die
    BY <1>13 DEF Die, Stop, StageInv, ModeOf
<1> QED
    BY <1>1, <1>2, <1>3, <1>4, <1>5, <1>6, <1>7, <1>8, <1>9, <1>10, <1>11, <1>12, <1>13
    DEF Next

LEMMA PromiseInvariant == NoSortKey => (Spec => []PromiseInv)
<1> SUFFICES ASSUME NoSortKey PROVE Spec => []PromiseInv
    OBVIOUS
<1>1. Typed /\ StageInv /\ PromiseInv /\ [Next]_vars => PromiseInv'
  <2>1. UNCHANGED vars /\ PromiseInv => PromiseInv'
      BY DEF vars, PromiseInv, RollingBack, Kept, Owed
  <2> QED
      BY <2>1, PromiseStep
<1> QED
    BY InitPromiseInv, TypeInvariant, StageInvariant, <1>1, PTL DEF Spec

\* After a rollback the v1 records are the ones README 2.1 to 2.3 promise for
\* its strategy, given the table it found, however its writes were paged,
\* batched, retried or interrupted and run again: for every set of keys and
\* contents, every answer of up, down and the resolver, and every number of
\* retries, provided that no two records share a domain key.
THEOREM RollbackIsKept ==
    ASSUME NoSortKey PROVE Spec => []RollbackPromise
<1>1. Typed /\ StageInv /\ PromiseInv => RollbackPromise
  <2> SUFFICES ASSUME StageInv, PromiseInv, lock = "release", status = "reverted",
                      NEW k \in Key
               PROVE  Kept(k, v1[k]) /\ (job = "case-1" => v2[k] = Gone)
      BY DEF RollbackPromise, Kept
  <2>1. pc = "idle"
      BY DEF StageInv, ModeOf
  <2> QED
      BY <2>1 DEF PromiseInv
<1> QED
    BY TypeInvariant, StageInvariant, PromiseInvariant, <1>1, PTL

(***************************************************************************)
(* The life of the migration: which of the two tables is the application's, *)
(* status by status, and what the command that runs has still to write.     *)
(***************************************************************************)
BeforeApply ==
    /\ status = "none" => lock = "free" /\ pc = "idle" /\ v2 = Empty
    /\ status \in {"none", "pending", "failed"} => shape = "v1" /\ v1 = app
    /\ status = "pending" => \A k \in Key : v2[k] \in {Gone, v1[k]}
    /\ status = "pending" <=> lock = "apply"
    /\ status = "failed" /\ pc # "idle" => job = "case-1"

WhileApplying ==
    pc # "idle" /\ job = "apply" =>
        /\ \A k \in Key \ Upless : v2[k] = v1[k] \/ k \in left \/ Owed("v2", k)
        /\ \A q \in batch : q.content = v1[q.key]

AfterApply ==
    /\ status = "applied" /\ shape = "v1" =>
         /\ v1 = app
         /\ \/ lock = "release" /\ pc = "idle" /\ \A k \in Key \ Upless : v2[k] = v1[k]
            \/ pc # "idle" /\ job = "case-1"
    /\ status \in {"applied", "finalized"} /\ shape = "v2" =>
         v2 = app /\ lock # "release" /\ (pc # "idle" => job \notin {"case-1", "apply"})
    /\ status = "finalized" => shape = "v2"
    /\ pc # "idle" /\ job = "projected" => v2 = was.v2

AfterRollback ==
    status = "reverted" =>
        /\ pc = "idle" /\ lock \in {"release", "free"}
        /\ lock = "free" => shape = "v1" /\ v1 = app
        /\ lock = "release" /\ job = "case-1" => v1 = app
        /\ lock = "release" /\ job = "projected" => \A k \in Key \ Downless : v1[k] = app[k]

LifeInv == BeforeApply /\ WhileApplying /\ AfterApply /\ AfterRollback

LEMMA InitLifeInv == Init => LifeInv
<1> QED
    BY DEF Init, LifeInv, BeforeApply, WhileApplying, AfterApply, AfterRollback

\* A runner works for one status, and the strategies on a finished migration.
LEMMA JobStatus ==
    ASSUME Typed, StageInv, LifeInv, pc # "idle"
    PROVE  /\ job = "apply" => status = "pending" /\ shape = "v1" /\ v1 = app
           /\ job = "case-1" => status \in {"failed", "applied"} /\ shape = "v1" /\ v1 = app
           /\ job \in {"finalize"} \cup Strategy =>
                 status \in {"applied", "finalized"} /\ shape = "v2" /\ v2 = app
           /\ job \in {"apply", "case-1", "finalize"} \cup Strategy
           /\ lock = ModeOf(job)
<1>1. /\ lock = ModeOf(job) /\ job \in {"apply", "case-1", "finalize"} \cup Strategy
      /\ status \in {"none", "pending", "applied", "finalized", "failed", "reverted"}
      /\ shape \in {"v1", "v2"}
    BY DEF Typed, TypeOK, StageInv, Job
<1>2. status = "pending" <=> job = "apply"
    BY <1>1 DEF LifeInv, BeforeApply, ModeOf
<1>3. status \notin {"none", "reverted"} /\ (status = "failed" => job = "case-1")
    BY DEF LifeInv, BeforeApply, AfterRollback
<1> QED
    BY <1>1, <1>2, <1>3 DEF LifeInv, BeforeApply, AfterApply, Strategy

\* A flush leaves the other version's items alone.
LEMMA SendWrites ==
    ASSUME Typed, StageInv, Send
    PROVE  /\ job \in {"apply", "case-1", "snapshot"} => v1' = v1
           /\ job \in {"projected", "fill-only", "custom"} => v2' = v2
           /\ job # "snapshot" => app' = app
           /\ job = "snapshot" /\ v2 = app => v2' = app'
<1>1. PICK done \in SUBSET rest :
         /\ v1' = Written(v1, "v1", done) /\ v2' = Written(v2, "v2", done)
         /\ app' = IF job = "snapshot" THEN Written(app, "v2", done) ELSE app
    BY DEF Send
<1>2. \A q \in done : q.table = TableOf(job)
    BY DEF Typed, TypeOK, StageInv
<1>3. ASSUME NEW t \in Items, NEW name, name # TableOf(job)
      PROVE  Written(t, name, done) = t
  <2>1. \A k \in Key : Written(t, name, done)[k] = t[k]
      BY <1>2, <1>3 DEF Written
  <2> QED
      BY <2>1 DEF Written, Items
<1>4. v1 \in Items /\ v2 \in Items
    BY DEF Typed, TypeOK
<1> QED
    BY <1>1, <1>3, <1>4 DEF TableOf

\* What the interruptions must be for the life of a migration to be lossless:
\* case 1 is neither failed nor killed half way (ClaimRetry is the run of one
\* that is), and the operator unlocks a failed lock or a dead apply only: unlock
\* marks the migration of a dead finalize or rollback 'failed', and case 1 then
\* deletes v2 records whose v1 copies are gone.
Recoverable == "case-1" \notin Interrupts /\ Unlockable \subseteq {"apply", "failed"}

LEMMA LifeStart ==
    ASSUME Typed, StageInv, LifeInv, StartApply \/ StartFinalize \/ StartRollback
    PROVE  LifeInv'
<1> USE DEF LifeInv, BeforeApply, WhileApplying, AfterApply, AfterRollback
<1>t. pc = "idle" /\ UNCHANGED <<v1, v2, app, shape>> /\ batch' = {}
    BY DEF StartApply, StartFinalize, StartRollback, Begin, Admits, tables
<1>a. /\ shape \in {"v1", "v2"} /\ \A k \in Key : Empty[k] = Gone
    BY DEF Typed, TypeOK, Empty
<1>1. CASE StartApply
  <2>1. /\ status \in {"none", "pending"} /\ status' = "pending" /\ lock' = "apply"
        /\ pc' = "scan" /\ job' = "apply" /\ left' = In(v1)
      BY <1>1 DEF StartApply, Begin
  <2>2. \A k \in Key : v2[k] \in {Gone, v1[k]}
      BY <1>a, <2>1
  <2>3. \A k \in Key : v2[k] = v1[k] \/ k \in left'
      BY <2>1, <2>2 DEF In
  <2> QED
      BY <1>t, <2>1, <2>2, <2>3
<1>2. CASE StartFinalize
  <2>1. /\ status = "applied" /\ status' = "applied" /\ lock' = "finalize"
        /\ pc' = "scan" /\ job' = "finalize" /\ lock # "release"
      BY <1>2 DEF StartFinalize, Begin, Admits, State!Working
  <2> QED
      BY <1>t, <1>a, <2>1
<1>3. CASE StartRollback
  <2>1. /\ status \in {"applied", "finalized", "failed"} /\ status' = status
        /\ lock' = "rollback" /\ pc' = "scan" /\ was'.v2 = v2
        /\ IF Case = "case-1" THEN job' = "case-1" ELSE job' \in Strategy
      BY <1>3 DEF StartRollback, Begin
  <2>2. IF shape = "v1" THEN job' = "case-1" ELSE status # "failed" /\ job' \in Strategy
      BY <1>t, <1>a, <2>1 DEF Case
  <2> QED
      BY <1>t, <1>a, <2>1, <2>2 DEF Strategy
<1> QED
    BY <1>1, <1>2, <1>3

LEMMA LifeWork ==
    ASSUME Typed, StageInv, LifeInv,
           ApplyPage \/ Case1Page \/ FinalizeRecord \/ Scan \/ Execute \/ ExecuteCustom \/ Flushed
    PROVE  LifeInv'
<1> USE DEF LifeInv, BeforeApply, WhileApplying, AfterApply, AfterRollback
<1>t. /\ pc # "idle" /\ pc' # "idle" /\ UNCHANGED <<v2, app, shape, lock, status, job, was>>
    BY DEF ApplyPage, Case1Page, FinalizeRecord, Scan, Execute, ExecuteCustom, Flushed,
           Classify, Flush, tables
<1>1. CASE ApplyPage
  <2>1. PICK page \in SUBSET left :
           left' = left \ page /\ Flush({Put("v2", k, v1[k]) : k \in page \ Upless})
      BY <1>1 DEF ApplyPage
  <2>2. /\ v1' = v1 /\ job = "apply" /\ rest = {} /\ rest' = batch'
        /\ batch' = {Put("v2", k, v1[k]) : k \in page \ Upless}
      BY <1>1, <2>1 DEF ApplyPage, Flush, tables, StageInv
  <2>3. \A q \in batch' : q.content = v1[q.key]
      BY <2>2 DEF Put
  <2>4. ASSUME NEW k \in Key \ Upless
        PROVE  v2[k] = v1[k] \/ k \in left' \/ Owed("v2", k)'
    <3>1. CASE k \in page
      <4>1. Put("v2", k, v1[k]) \in rest'
          BY <2>2, <3>1
      <4> QED
          BY <4>1 DEF Put, Owed
    <3>2. CASE k \notin page
        BY <1>t, <2>1, <2>2, <3>2 DEF Owed
    <3> QED
        BY <3>1, <3>2
  <2> QED
      BY <1>t, <2>2, <2>3, <2>4
<1>2. CASE Case1Page \/ Execute \/ ExecuteCustom
  <2>1. v1' = v1 /\ job # "apply"
      BY <1>2 DEF Case1Page, Execute, ExecuteCustom, tables
  <2> QED
      BY <1>t, <2>1
<1>3. CASE FinalizeRecord
  <2>1. job = "finalize"
      BY <1>3 DEF FinalizeRecord
  <2> QED
      BY <1>t, <2>1, JobStatus
<1>4. CASE Scan
  <2>1. v1' = v1 /\ UNCHANGED <<left, batch, rest>>
      BY <1>4 DEF Scan, tables
  <2> QED
      BY <1>t, <2>1 DEF Owed
<1>5. CASE Flushed
  <2>1. v1' = v1 /\ left' = left /\ batch' = {} /\ rest = {} /\ rest' = {}
      BY <1>5 DEF Flushed, Done, tables
  <2> QED
      BY <1>t, <2>1 DEF Owed
<1> QED
    BY <1>1, <1>2, <1>3, <1>4, <1>5

LEMMA LifeSend ==
    ASSUME Typed, StageInv, LifeInv, Send PROVE LifeInv'
<1> USE DEF LifeInv, BeforeApply, WhileApplying, AfterApply, AfterRollback
<1>t. pc # "idle" /\ UNCHANGED <<shape, lock, status, pc, job, left, batch, was>>
    BY DEF Send
<1>1. CASE job = "apply"
  <2>1. PICK done \in SUBSET rest :
           \A k \in Key :
              \/ v2'[k] = v2[k] /\ (Owed("v2", k) => Owed("v2", k)')
              \/ \E q \in done : q.table = "v2" /\ q.key = k /\ v2'[k] = q.content
      BY SendPays
  <2>2. \A q \in done : q.content = v1[q.key]
    <3>1. rest \subseteq batch
        BY DEF Typed, TypeOK
    <3> QED
        BY <1>t, <1>1, <3>1
  <2>3. ASSUME NEW k \in Key
        PROVE  v2'[k] = v1[k] \/ (v2'[k] = v2[k] /\ (Owed("v2", k) => Owed("v2", k)'))
    <3>1. CASE \E q \in done : q.table = "v2" /\ q.key = k /\ v2'[k] = q.content
      <4>1. PICK q \in done : q.key = k /\ v2'[k] = q.content
          BY <3>1
      <4>2. q.content = v1[q.key]
          BY <2>2
      <4> QED
          BY <4>1, <4>2
    <3> QED
        BY <2>1, <3>1
  <2> QED
      BY <1>t, <1>1, <2>3, SendWrites, JobStatus
<1>2. CASE job = "case-1"
    BY <1>t, <1>2, SendWrites, JobStatus
<1>3. CASE job = "snapshot"
    BY <1>t, <1>3, SendWrites, JobStatus DEF Strategy
<1>4. CASE job \in {"projected", "fill-only", "custom"}
    BY <1>t, <1>4, SendWrites, JobStatus DEF Strategy
<1>5. job # "finalize"
    BY DEF Send, StageInv
<1> QED
    BY <1>t, <1>1, <1>2, <1>3, <1>4, <1>5, JobStatus DEF Strategy

LEMMA LifeEnd ==
    ASSUME Recoverable, NoSortKey, Typed, StageInv, PromiseInv, LifeInv,
           Commit \/ ClearFinalize \/ Fail \/ Die
    PROVE  LifeInv'
<1> USE DEF LifeInv, BeforeApply, WhileApplying, AfterApply, AfterRollback
<1>t. pc # "idle" /\ UNCHANGED <<v1, v2, app, shape, job, was>>
    BY DEF Commit, ClearFinalize, Fail, Die, tables
<1>1. CASE Commit
  <2>0. pc = "commit" /\ rest = {} /\ left = {}
      BY <1>1 DEF Commit, StageInv
  <2>1. CASE job = "finalize"
      BY <1>1, <1>t, <2>1, JobStatus DEF Commit, ModeOf
  <2>2. CASE job = "apply"
    <3>1. \A k \in Key \ Upless : v2[k] = v1[k]
        BY <1>t, <2>0, <2>2 DEF Owed
    <3>2. status' = "applied" /\ lock' = "release" /\ pc' = "idle"
        BY <1>1, <2>2 DEF Commit, Stop
    <3> QED
        BY <1>t, <2>2, <3>1, <3>2, JobStatus
  <2>3. CASE job \notin {"finalize", "apply"}
    <3>1. status' = "reverted" /\ lock' = "release" /\ pc' = "idle"
        BY <1>1, <2>3 DEF Commit, Stop
    <3>2. job = "projected" => \A k \in Key \ Downless : v1[k] = app[k]
      <4>1. SUFFICES ASSUME job = "projected", NEW k \in Key \ Downless PROVE v1[k] = app[k]
          OBVIOUS
      <4>2. Kept(k, v1[k])
          BY <2>0, <4>1 DEF PromiseInv, RollingBack, Owed, Strategy
      <4>3. v2 = app /\ v2 = was.v2
          BY <1>t, <4>1, JobStatus DEF Strategy
      <4> QED
          BY <4>1, <4>2, <4>3 DEF Kept
    <3> QED
        BY <1>t, <3>1, <3>2, JobStatus
  <2> QED
      BY <2>1, <2>2, <2>3
<1>2. CASE ClearFinalize
  <2>1. job = "finalize" /\ lock' = "free" /\ pc' = "idle" /\ status' = status
      BY <1>2 DEF ClearFinalize, Stop, StageInv
  <2> QED
      BY <1>t, <2>1, JobStatus
<1>3. CASE Fail
  <2>1. /\ job # "case-1" /\ lock' = "failed" /\ pc' = "idle"
        /\ status' = IF job = "apply" THEN "failed" ELSE status
      BY <1>3 DEF Fail, Stop, Recoverable
  <2> QED
      BY <1>t, <2>1, JobStatus
<1>4. CASE Die
  <2>1. /\ job # "case-1" /\ lock' = lock /\ pc' = "idle" /\ status' = status
      BY <1>4 DEF Die, Stop, Recoverable
  <2> QED
      BY <1>t, <2>1, JobStatus DEF ModeOf
<1> QED
    BY <1>1, <1>2, <1>3, <1>4

LEMMA LifeOutside ==
    ASSUME Recoverable, Typed, StageInv, LifeInv,
           AppWrite \/ UnlockDead \/ Release \/ UnlockFailed
    PROVE  LifeInv'
<1> USE DEF LifeInv, BeforeApply, WhileApplying, AfterApply, AfterRollback
<1>t. /\ shape \in {"v1", "v2"} /\ v1 \in Items /\ v2 \in Items /\ app \in Items
      /\ status \in {"none", "pending", "applied", "finalized", "failed", "reverted"}
    BY DEF Typed, TypeOK
<1>1. CASE AppWrite
  <2>1. PICK k \in Key, c \in Content \cup {Gone} :
           /\ app' = [app EXCEPT ![k] = c]
           /\ IF shape = "v1" THEN v1' = [v1 EXCEPT ![k] = c] /\ UNCHANGED v2
                              ELSE v2' = [v2 EXCEPT ![k] = c] /\ UNCHANGED v1
      BY <1>1 DEF AppWrite
  <2>2. /\ UNCHANGED <<shape, lock, status, pc, job, left, batch, rest, was>>
        /\ lock \notin {"apply", "rollback", "release"}
      BY <1>1 DEF AppWrite, State!Gating, run
  <2>3. pc = "idle" \/ job = "finalize"
      BY <2>2 DEF StageInv, ModeOf
  <2> QED
      BY <1>t, <2>1, <2>2, <2>3
<1>2. CASE UnlockDead
  <2>1. /\ pc = "idle" /\ lock = "apply" /\ lock' = "failed" /\ status' = "failed"
        /\ UNCHANGED <<v1, v2, app, shape, pc, job, was>>
      BY <1>2 DEF UnlockDead, Recoverable, tables, run, State!Working
  <2> QED
      BY <2>1
<1>3. CASE Release
  <2>1. /\ pc = "idle" /\ lock = "release" /\ lock' = "free" /\ app' = Believed
        /\ shape' = IF status = "applied" THEN "v2" ELSE "v1"
        /\ UNCHANGED <<v1, v2, status, pc, job>>
      BY <1>3 DEF Release, run
  <2>2. CASE status = "applied"
    <3>1. app' = [k \in Key |-> IF k \in Upless THEN v2[k] ELSE app[k]]
        BY <2>1, <2>2 DEF Believed
    <3>2. \A k \in Key : app'[k] = v2[k]
        BY <1>t, <2>1, <2>2, <3>1
    <3>3. app' = v2
        BY <1>t, <3>1, <3>2 DEF Items
    <3> QED
        BY <2>1, <2>2, <3>3
  <2>3. CASE status = "reverted" /\ job = "projected"
    <3>1. app' = [k \in Key |-> IF k \in Downless THEN v1[k] ELSE app[k]]
        BY <2>1, <2>3 DEF Believed
    <3>2. \A k \in Key : app'[k] = v1[k]
        BY <1>t, <2>1, <2>3, <3>1
    <3>3. app' = v1
        BY <1>t, <3>1, <3>2 DEF Items
    <3> QED
        BY <2>1, <2>3, <3>3
  <2>4. CASE status = "reverted" /\ job # "projected"
      BY <2>1, <2>4 DEF Believed
  <2>5. CASE status \notin {"applied", "reverted"}
      BY <1>t, <2>1, <2>5 DEF Believed
  <2> QED
      BY <2>2, <2>3, <2>4, <2>5
<1>4. CASE UnlockFailed
  <2>1. /\ pc = "idle" /\ lock = "failed" /\ lock' = "free" /\ UNCHANGED status
        /\ UNCHANGED <<v1, v2, app, shape, pc, job, was>>
      BY <1>4 DEF UnlockFailed, tables, run
  <2> QED
      BY <2>1
<1> QED
    BY <1>1, <1>2, <1>3, <1>4

LEMMA LifeInvariant == Recoverable /\ NoSortKey => (Spec => []LifeInv)
<1> SUFFICES ASSUME Recoverable, NoSortKey PROVE Spec => []LifeInv
    OBVIOUS
<1>1. Typed /\ StageInv /\ PromiseInv /\ LifeInv /\ [Next]_vars => LifeInv'
  <2>1. UNCHANGED vars /\ LifeInv => LifeInv'
      BY DEF vars, tables, run, LifeInv, BeforeApply, WhileApplying, AfterApply, AfterRollback,
             Owed
  <2> QED
      BY <2>1, LifeStart, LifeWork, LifeSend, LifeEnd, LifeOutside DEF Next
<1> QED
    BY InitLifeInv, TypeInvariant, StageInvariant, PromiseInvariant, <1>1, PTL DEF Spec

\* Whenever the guard lets it, the application reads exactly what it last
\* wrote: for every set of keys and contents, every answer of up and down,
\* every strategy and any sequence of commands, the interrupted ones of
\* Interrupts included, as long as case 1 is not among them, no lock of a dead
\* rollback or finalize is unlocked, and no two records share a domain key.
THEOREM NothingIsLost ==
    ASSUME Recoverable, NoSortKey PROVE Spec => []AppReadsItsWrites
<1>1. Typed /\ StageInv /\ LifeInv => AppReadsItsWrites
  <2> SUFFICES ASSUME Typed, StageInv, LifeInv, lock \notin State!Gating
               PROVE  Visible = app
      BY DEF AppReadsItsWrites
  <2>1. lock \notin {"apply", "rollback", "release"}
      BY DEF State!Gating
  <2>2. pc = "idle" \/ job = "finalize"
      BY <2>1 DEF StageInv, ModeOf
  <2>3. /\ shape \in {"v1", "v2"}
        /\ status \in {"none", "pending", "applied", "finalized", "failed", "reverted"}
      BY DEF Typed, TypeOK
  <2> QED
      BY <2>1, <2>2, <2>3
      DEF Visible, LifeInv, BeforeApply, AfterApply, AfterRollback
<1> QED
    BY TypeInvariant, StageInvariant, LifeInvariant, <1>1, PTL

=============================================================================
